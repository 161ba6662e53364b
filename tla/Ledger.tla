------------------------------- MODULE Ledger -------------------------------
(***************************************************************************)
(* The posting engine (apps/ledger/services.py) as PostgreSQL sessions run *)
(* it: every request is a READ COMMITTED transaction that creates a draft  *)
(* journal, chains it to the newest journal it can see, marks it POSTED    *)
(* and commits or rolls back with the rest of its caller's work.           *)
(*                                                                         *)
(* What one session wrote is invisible to the others until Commit.  A      *)
(* unique index (journal reference, idempotency key) makes an insert wait  *)
(* for the uncommitted transaction that inserted the same value, and fail  *)
(* once that one commits.  Ids come from a database sequence: they are     *)
(* handed out at once and are not given back by a rollback.                *)
(*                                                                         *)
(* A SHA-256 digest is modelled by what it commits to: the payload hash of *)
(* a journal by its id (the id is part of the canonical payload), the      *)
(* chain hash by the sequence of ids from the genesis to the journal.      *)
(***************************************************************************)
EXTENDS Integers, Sequences, FiniteSets, FiniteSetsExt, SequencesExt

CONSTANTS
  Sessions,      \* database sessions (gunicorn workers, management commands)
  Accounts,      \* ledger accounts
  Currency,      \* [Accounts -> a currency]
  DebitNormal,   \* the accounts of type ASSET or EXPENSE
  Frozen,        \* the accounts whose status is BLOCKED or CLOSED
  Names,         \* references callers pass to post_journal
  Keys,          \* idempotency keys
  NoKey,         \* the caller passes no key
  Postings,      \* the line lists callers pass to post_journal
  MaxId          \* bound: the last id the model's sequence hands out

Sides == {"DEBIT", "CREDIT"}
Line  == [account : Accounts, side : Sides, amount : Nat]

\* A caller's name, or REV-<reference of the original>, which is unique per
\* original because references are.
Reference == [kind : {"NEW"}, of : Names] \cup [kind : {"REV"}, of : Nat]
NewRef(n) == [kind |-> "NEW", of |-> n]
RevRef(i) == [kind |-> "REV", of |-> i]

\* A POSTED journal row with its entries.  `key` is a history field: the
\* idempotency key of the request that posted it.
Journal == [id : Nat, ref : Reference, lines : Seq(Line), reverses : Nat,
            prev : Seq(Nat), key : Keys \cup {NoKey}]

ASSUME LedgerAssumption ==
  /\ IsFiniteSet(Accounts)
  /\ Postings \subseteq Seq(Line)
  /\ DebitNormal \subseteq Accounts
  /\ Frozen \subseteq Accounts
  /\ NoKey \notin Keys
  /\ Names # {}
  /\ MaxId \in Nat

VARIABLES
  journals,   \* committed journals
  markers,    \* committed LedgerIdempotencyRecord rows
  nextId,     \* the id sequence of ledger_journalentry
  tx          \* what each session is doing

vars == <<journals, markers, nextId, tx>>

Steps == {"idle", "alloc", "insert", "seal", "posted", "marked"}

Transaction == [pc : Steps, ref : Reference, lines : Seq(Line), rev : Nat,
                key : Keys \cup {NoKey}, id : Nat, own : SUBSET Journal]

Idle == [pc |-> "idle", ref |-> NewRef(CHOOSE n \in Names : TRUE), lines |-> <<>>,
         rev |-> 0, key |-> NoKey, id |-> 0, own |-> {}]

TypeOK ==
  /\ journals \subseteq Journal
  /\ markers \subseteq [key : Keys, journal : Nat]
  /\ nextId \in Nat
  /\ tx \in [Sessions -> Transaction]

-----------------------------------------------------------------------------
(* Reads.                                                                  *)

\* A session sees what is committed and what it wrote itself.
Visible(s) == journals \cup tx[s].own

Chain(j) == Append(j.prev, j.id)

\* chain_hash of the visible journal with the highest id, or GENESIS_HASH.
TipHash(V) ==
  IF V = {} THEN <<>>
  ELSE Chain(CHOOSE j \in V : \A i \in V : i.id <= j.id)

Amounts(lines, side) ==
  [n \in DOMAIN lines |-> IF lines[n].side = side THEN lines[n].amount ELSE 0]

Total(lines, side) == SumFunction(Amounts(lines, side))

OneCurrency(lines) ==
  \A m, n \in DOMAIN lines : Currency[lines[m].account] = Currency[lines[n].account]

\* Mutant of Postable: debits are not compared with credits.
Postable_Unbalanced(lines) ==
  /\ \A n \in DOMAIN lines : lines[n].account \notin Frozen /\ lines[n].amount # 0
  /\ Total(lines, "DEBIT") # 0

Postable(lines) ==
  /\ \A n \in DOMAIN lines : lines[n].account \notin Frozen /\ lines[n].amount # 0
  /\ Total(lines, "DEBIT") = Total(lines, "CREDIT")
  /\ Total(lines, "DEBIT") # 0

Mirror(lines) ==
  [n \in DOMAIN lines |->
     [lines[n] EXCEPT !.side = IF @ = "DEBIT" THEN "CREDIT" ELSE "DEBIT"]]

AccountBalance(a) ==
  LET On(lines) == {n \in DOMAIN lines : lines[n].account = a}
      Of(side) == SumFunction([j \in journals |->
                    SumFunctionOnSet(Amounts(j.lines, side), On(j.lines))])
      net == Of("DEBIT") - Of("CREDIT")
  IN IF a \in DebitNormal THEN net ELSE -net

-----------------------------------------------------------------------------
(* Waiting on a unique index.                                              *)

HoldsRef(t, r) ==
  \/ tx[t].pc = "seal" /\ tx[t].ref = r
  \/ \E j \in tx[t].own : j.ref = r

\* Mutant of HoldsKey: no unique index on the marker's key.
HoldsKey_NotUnique(t, k) == FALSE

HoldsKey(t, k) == tx[t].pc = "marked" /\ tx[t].key = k

WaitsFor(s, t) ==
  /\ s # t
  /\ \/ tx[s].pc = "insert" /\ HoldsRef(t, tx[s].ref)
     \/ tx[s].pc = "posted" /\ tx[s].key # NoKey /\ HoldsKey(t, tx[s].key)

Waiting(s) == \E t \in Sessions : WaitsFor(s, t)

-----------------------------------------------------------------------------
(* One transaction, statement by statement.                                *)

Init ==
  /\ journals = {}
  /\ markers = {}
  /\ nextId = 1
  /\ tx = [s \in Sessions |-> Idle]

\* Bound: no more journals are begun than the sequence has ids left.
RoomForJournal ==
  nextId + Cardinality({s \in Sessions : tx[s].pc = "alloc"}) <= MaxId

\* The caller looks for a marker of its key (find_idempotent); with none
\* committed it calls post_journal, which refuses an empty or mixed-currency
\* list before it writes anything.
BeginPost(s, n, k, lines) ==
  /\ tx[s].pc = "idle"
  /\ RoomForJournal
  /\ \A m \in markers : m.key # k
  /\ lines # <<>>
  /\ OneCurrency(lines)
  /\ tx' = [tx EXCEPT ![s] = [@ EXCEPT !.pc = "alloc", !.ref = NewRef(n),
                                       !.lines = lines, !.rev = 0, !.key = k]]
  /\ UNCHANGED <<journals, markers, nextId>>

\* reverse_journal: the original is POSTED and no reversal of it is visible.
BeginReverse(s, o) ==
  /\ tx[s].pc = "idle"
  /\ RoomForJournal
  /\ \A j \in journals : j.reverses # o.id
  /\ tx' = [tx EXCEPT ![s] = [@ EXCEPT !.pc = "alloc", !.ref = RevRef(o.id),
                                       !.lines = Mirror(o.lines), !.rev = o.id,
                                       !.key = NoKey]]
  /\ UNCHANGED <<journals, markers, nextId>>

\* A batch (process_due_scheduled) posts several journals in one transaction,
\* none of them under an idempotency marker.
NextPost(s, n, lines) ==
  /\ tx[s].pc = "posted"
  /\ tx[s].key = NoKey
  /\ tx[s].rev = 0
  /\ RoomForJournal
  /\ lines # <<>>
  /\ OneCurrency(lines)
  /\ tx' = [tx EXCEPT ![s] = [@ EXCEPT !.pc = "alloc", !.ref = NewRef(n), !.lines = lines]]
  /\ UNCHANGED <<journals, markers, nextId>>

\* nextval() runs before the row reaches the unique index.
AllocateId(s) ==
  /\ tx[s].pc = "alloc"
  /\ tx' = [tx EXCEPT ![s] = [@ EXCEPT !.pc = "insert", !.id = nextId]]
  /\ nextId' = nextId + 1
  /\ UNCHANGED <<journals, markers>>

RollbackTo(s) == tx' = [tx EXCEPT ![s] = Idle]

\* Mutant of InsertDraft: references are not unique.
InsertDraft_NotUnique(s) ==
  /\ tx[s].pc = "insert"
  /\ tx' = [tx EXCEPT ![s].pc = "seal"]
  /\ UNCHANGED <<journals, markers, nextId>>

\* JournalEntry.objects.create: the unique reference decides.
InsertDraft(s) ==
  /\ tx[s].pc = "insert"
  /\ ~Waiting(s)
  /\ IF \E j \in Visible(s) : j.ref = tx[s].ref
       THEN RollbackTo(s)
       ELSE tx' = [tx EXCEPT ![s].pc = "seal"]
  /\ UNCHANGED <<journals, markers, nextId>>

\* Mutant of Seal: the predecessor is taken to be the journal one id before.
Seal_ByNumber(s) ==
  LET j == [id |-> tx[s].id, ref |-> tx[s].ref, lines |-> tx[s].lines,
            reverses |-> tx[s].rev, key |-> tx[s].key,
            prev |-> IF tx[s].id = 1 THEN <<>> ELSE <<tx[s].id - 1>>]
  IN /\ tx[s].pc = "seal"
     /\ IF Postable(tx[s].lines)
          THEN tx' = [tx EXCEPT ![s] = [@ EXCEPT !.pc = "posted", !.own = tx[s].own \cup {j}]]
          ELSE RollbackTo(s)
     /\ UNCHANGED <<journals, markers, nextId>>

\* The entries are checked, the tip of the chain is read, without a lock, and
\* the journal turns POSTED with its hashes; a refused list rolls back.
Seal(s) ==
  LET j == [id |-> tx[s].id, ref |-> tx[s].ref, lines |-> tx[s].lines,
            reverses |-> tx[s].rev, prev |-> TipHash(Visible(s)), key |-> tx[s].key]
  IN /\ tx[s].pc = "seal"
     /\ IF Postable(tx[s].lines)
          THEN tx' = [tx EXCEPT ![s] = [@ EXCEPT !.pc = "posted", !.own = tx[s].own \cup {j}]]
          ELSE RollbackTo(s)
     /\ UNCHANGED <<journals, markers, nextId>>

\* Mutant of RecordMarker: an existing marker is taken for the own one.
RecordMarker_GetOrCreate(s) ==
  /\ tx[s].pc = "posted"
  /\ tx[s].key # NoKey
  /\ tx' = [tx EXCEPT ![s].pc = "marked"]
  /\ UNCHANGED <<journals, markers, nextId>>

\* Mutant of RecordMarker: a taken key is tried again.
RecordMarker_Retries(s) ==
  /\ tx[s].pc = "posted"
  /\ tx[s].key # NoKey
  /\ ~Waiting(s)
  /\ \A m \in markers : m.key # tx[s].key
  /\ tx' = [tx EXCEPT ![s].pc = "marked"]
  /\ UNCHANGED <<journals, markers, nextId>>

\* record_idempotent, inside the caller's transaction.
RecordMarker(s) ==
  /\ tx[s].pc = "posted"
  /\ tx[s].key # NoKey
  /\ ~Waiting(s)
  /\ IF \E m \in markers : m.key = tx[s].key
       THEN RollbackTo(s)
       ELSE tx' = [tx EXCEPT ![s].pc = "marked"]
  /\ UNCHANGED <<journals, markers, nextId>>

Commit(s) ==
  /\ \/ tx[s].pc = "marked"
     \/ tx[s].pc = "posted" /\ tx[s].key = NoKey
  /\ journals' = journals \cup tx[s].own
  /\ markers' = IF tx[s].pc = "marked"
                  THEN markers \cup {[key |-> tx[s].key, journal |-> tx[s].id]}
                  ELSE markers
  /\ tx' = [tx EXCEPT ![s] = Idle]
  /\ UNCHANGED nextId

\* The caller raises after the posting, the worker dies, the connection drops.
Rollback(s) ==
  /\ tx[s].pc # "idle"
  /\ RollbackTo(s)
  /\ UNCHANGED <<journals, markers, nextId>>

\* PostgreSQL rolls back a member of a wait cycle.
Deadlocked(s) ==
  \E S \in SUBSET Sessions : s \in S /\ \A t \in S : \E u \in S : WaitsFor(t, u)

BreakDeadlock(s) ==
  /\ Deadlocked(s)
  /\ RollbackTo(s)
  /\ UNCHANGED <<journals, markers, nextId>>

Proceed(s) ==
  AllocateId(s) \/ InsertDraft(s) \/ Seal(s) \/ RecordMarker(s) \/ Commit(s) \/ BreakDeadlock(s)

Next ==
  \E s \in Sessions :
    \/ \E n \in Names, k \in Keys \cup {NoKey}, lines \in Postings : BeginPost(s, n, k, lines)
    \/ \E o \in journals : BeginReverse(s, o)
    \/ \E n \in Names, lines \in Postings : NextPost(s, n, lines)
    \/ Proceed(s)
    \/ Rollback(s)

Spec == Init /\ [][Next]_vars

\* A session that is not waiting keeps executing its statements.
FairSpec == Spec /\ \A s \in Sessions : WF_vars(Proceed(s))

-----------------------------------------------------------------------------
(* Properties.                                                             *)

\* Reconciliation finds no difference: in each currency the balances of the
\* debit-normal accounts (account_balance) equal those of the others, at every
\* moment at which some sessions are half way through a posting.
BooksBalance ==
  \A c \in {Currency[a] : a \in Accounts} :
    LET In(S) == SumFunctionOnSet([a \in Accounts |-> AccountBalance(a)],
                                  {a \in S : Currency[a] = c})
    IN In(DebitNormal) = In(Accounts \ DebitNormal)

\* reverse_journal reads reversed_by without a lock; still a journal is undone
\* at most once, by the mirror image of its own lines.
ReversedOnce ==
  \A j \in journals : j.reverses # 0 =>
    /\ \E o \in journals : o.id = j.reverses /\ j.lines = Mirror(o.lines)
    /\ \A i \in journals : i.reverses = j.reverses => i = j

\* Concurrent requests with one idempotency key post one journal between them,
\* and the marker a replay reads names that journal.
OncePerKey ==
  \A k \in Keys :
    LET posted == {j \in journals : j.key = k}
    IN /\ {m.journal : m \in {n \in markers : n.key = k}} = {j.id : j \in posted}
       /\ \A i, j \in posted : i = j

\* Every chain hash stays verifiable: the journal's predecessor is the genesis
\* or a committed journal, never one whose transaction was rolled back.
ChainRooted ==
  \A j \in journals : j.prev = <<>> \/ \E i \in journals : Chain(i) = j.prev

\* Not true.  What verify_ledger_hash_chain demands: in id order, each journal names the
\* chain hash of the journal just before it.
ChainLinear ==
  \A j \in journals :
    LET before == {i \in journals : i.id < j.id}
    IN IF before = {} THEN j.prev = <<>>
       ELSE \E i \in before : Chain(i) = j.prev /\ \A h \in before : h.id <= i.id

\* No transaction waits for ever, whatever references and keys collide.
TransactionsEnd ==
  \A s \in Sessions : tx[s].pc # "idle" ~> tx[s].pc = "idle"

-----------------------------------------------------------------------------
(* The inductive invariant behind the safety properties, in parts.         *)

\* Ids of written journals come from the sequence's past.
IdsBelow ==
  /\ \A j \in journals : j.id < nextId
  /\ \A s \in Sessions : \A j \in tx[s].own : j.id < nextId
  /\ \A s \in Sessions : tx[s].id < nextId

\* At most one transaction holds a reference, and none holds a committed one.
RefsApart ==
  /\ \A i, j \in journals : i.ref = j.ref => i = j
  /\ \A s \in Sessions : \A j \in tx[s].own :
       /\ \A i \in Visible(s) : i.ref = j.ref => i = j
       /\ \A t \in Sessions \ {s} : ~HoldsRef(t, j.ref)
  /\ \A s \in Sessions : tx[s].pc = "seal" =>
       /\ \A i \in Visible(s) : i.ref # tx[s].ref
       /\ \A t \in Sessions \ {s} : ~HoldsRef(t, tx[s].ref)

\* A reversal carries the reference and the lines its original dictates.
Undoes(ref, lines, rev) ==
  rev # 0 => /\ ref = RevRef(rev)
             /\ \E o \in journals : o.id = rev /\ lines = Mirror(o.lines)

ReversalsShaped ==
  /\ \A j \in journals : Undoes(j.ref, j.lines, j.reverses)
  /\ \A s \in Sessions : \A j \in tx[s].own : Undoes(j.ref, j.lines, j.reverses)
  /\ \A s \in Sessions : Undoes(tx[s].ref, tx[s].lines, tx[s].rev)

\* Every journal a session wrote hangs on one the session sees.
LinksVisible ==
  \A s \in Sessions : \A j \in tx[s].own :
    j.prev = <<>> \/ \E i \in Visible(s) : Chain(i) = j.prev

\* A marker and the journal of its key are committed together and only once.
KeysApart ==
  /\ \A m, n \in markers : m.key = n.key => m = n
  /\ \A m \in markers : \E j \in journals : j.key = m.key /\ j.id = m.journal
  /\ \A j \in journals : j.key # NoKey =>
       \E m \in markers : m.key = j.key /\ m.journal = j.id
  /\ \A i, j \in journals : i.key # NoKey /\ i.key = j.key => i = j

\* A transaction under a key has written one journal once it is posted and
\* none before; one that recorded its marker is alone with the key.
KeyedOwn ==
  \A s \in Sessions :
    /\ \A j \in tx[s].own : j.key = tx[s].key
    /\ tx[s].pc = "idle" => tx[s].own = {}
    /\ tx[s].key # NoKey =>
         CASE tx[s].pc \in {"posted", "marked"} -> \E j \in tx[s].own :
                                     tx[s].own = {j} /\ j.id = tx[s].id
           [] OTHER -> tx[s].own = {}
    /\ tx[s].pc = "marked" =>
         /\ tx[s].key # NoKey
         /\ \A m \in markers : m.key # tx[s].key
         /\ \A t \in Sessions \ {s} : ~HoldsKey(t, tx[s].key)

LInv == /\ TypeOK /\ IdsBelow /\ RefsApart /\ ReversalsShaped
        /\ ChainRooted /\ LinksVisible /\ KeysApart /\ KeyedOwn

\* What is posted moves as much from as to the accounts of one currency.
Balanced(lines) == OneCurrency(lines) /\ Total(lines, "DEBIT") = Total(lines, "CREDIT")

BooksInv ==
  /\ IsFiniteSet(journals)
  /\ \A j \in journals : Balanced(j.lines)
  /\ \A s \in Sessions :
       /\ OneCurrency(tx[s].lines)
       /\ IsFiniteSet(tx[s].own)
       /\ \A j \in tx[s].own : Balanced(j.lines)
=============================================================================
