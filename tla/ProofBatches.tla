---------------------------- MODULE ProofBatches ----------------------------
(***************************************************************************)
(* Sealing posted journals into signed Merkle batches (apps/ledger/        *)
(* proof_batches.py, signing.py, proof_verification.py) while sessions     *)
(* keep posting, and anchoring the batches at an external provider         *)
(* (anchor_service.py, the anchor_ledger_batches command).                 *)
(*                                                                         *)
(* Of the posting engine only what sealing depends on is kept: a journal's *)
(* id is allocated when its row is inserted and the row becomes visible at *)
(* commit, in any order.  A journal stands for its payload hash.           *)
(*                                                                         *)
(* Sealing is one READ COMMITTED transaction that reads and then inserts;  *)
(* an anchoring command runs in autocommit, so that each of its writes is  *)
(* visible at once and survives the death of the process.                  *)
(***************************************************************************)
EXTENDS Merkle, FiniteSets

CONSTANTS
  Sealers,       \* processes that call seal_batch
  Anchorers,     \* processes that run anchor_ledger_batches
  MaxId,         \* bound: journal ids the sequence hands out
  MAX_BATCH_SIZE,
  MaxAnchors,    \* bound: anchor rows
  MaxCommands,   \* bound: runs of anchor_ledger_batches
  MaxCrashes     \* bound: deaths of anchoring processes

ASSUME ProofAssumption ==
  /\ MaxId \in Nat
  /\ MAX_BATCH_SIZE \in Nat \ {0}
  /\ MaxAnchors \in Nat
  /\ MaxCommands \in Nat
  /\ MaxCrashes \in Nat

VARIABLES
  nextId,    \* the id sequence of ledger_journalentry
  writing,   \* ids of journals whose transaction is open
  posted,    \* ids of committed, POSTED journals
  batches,   \* LedgerProofBatch rows
  sealing,   \* what each sealer has read
  anchors,   \* LedgerAnchor rows, by primary key
  store,     \* per process: the polls of the references its provider knows
  run,       \* per process: where its command is
  commands,  \* history: commands started
  crashes    \* history: deaths of anchoring processes

ledgerVars == <<nextId, writing, posted>>
anchorVars == <<anchors, store, run, commands, crashes>>
vars == <<ledgerVars, batches, sealing, anchorVars>>

IdleSeal == [pc |-> "idle", last |-> {}, rows |-> <<>>]
IdleRun  == [pc |-> "idle", todo |-> {}, cur |-> 0, ref |-> 0]

Init ==
  /\ nextId = 1
  /\ writing = {}
  /\ posted = {}
  /\ batches = {}
  /\ sealing = [s \in Sealers |-> IdleSeal]
  /\ anchors = <<>>
  /\ store = [w \in Anchorers |-> <<>>]
  /\ run = [w \in Anchorers |-> IdleRun]
  /\ commands = 0
  /\ crashes = 0

AnchorStatus == {"CREATED", "SUBMITTED", "CONFIRMED", "FAILED", "SUPERSEDED"}

AnchorRow == [batch : 1 .. MaxId, status : AnchorStatus, ref : 0 .. MaxId]
RunPc == {"idle", "submit", "find", "insert", "send", "sent", "refused", "poll", "mined", "confirm"}
RunState == [pc : RunPc, todo : SUBSET (1 .. MaxId + MaxAnchors), cur : 0 .. MaxId + MaxAnchors,
             ref : 0 .. MaxAnchors]

TypeOK ==
  /\ nextId \in 1 .. MaxId + 1
  /\ writing \cup posted \subseteq 1 .. nextId - 1
  /\ \A b \in batches : /\ b.first \in posted /\ b.last \in posted
                        /\ b.sequence \in 1 .. MaxId /\ b.key \in Sealers
                        /\ b.status \in {"SEALED", "ANCHORED"}
  /\ DOMAIN sealing = Sealers
  /\ \A s \in Sealers : /\ sealing[s].pc \in {"idle", "create"}
                        /\ sealing[s].rows \in Seq(posted)
  /\ anchors \in Seq(AnchorRow) /\ Len(anchors) <= MaxAnchors
  /\ DOMAIN store = Anchorers
  /\ \A w \in Anchorers : DOMAIN store[w] \subseteq 1 .. MaxId
  /\ run \in [Anchorers -> RunState]
  /\ commands \in Nat /\ crashes \in Nat

-----------------------------------------------------------------------------
(* Posting.                                                                *)

\* post_journal inserts the row, which takes the next id.
InsertJournal ==
  /\ nextId <= MaxId
  /\ writing' = writing \cup {nextId}
  /\ nextId' = nextId + 1
  /\ UNCHANGED <<posted, batches, sealing, anchorVars>>

CommitJournal(i) ==
  /\ i \in writing
  /\ writing' = writing \ {i}
  /\ posted' = posted \cup {i}
  /\ UNCHANGED <<nextId, batches, sealing, anchorVars>>

RollBackJournal(i) ==
  /\ i \in writing
  /\ writing' = writing \ {i}
  /\ UNCHANGED <<nextId, posted, batches, sealing, anchorVars>>

-----------------------------------------------------------------------------
(* seal_batch.                                                             *)

\* order_by("id").
ById(ids) == CHOOSE rows \in [1 .. Cardinality(ids) -> ids] :
               \A m, n \in DOMAIN rows : m < n => rows[m] < rows[n]

Lower(last) == IF last = {} THEN 0 ELSE (CHOOSE b \in last : TRUE).last + 1

\* Mutant of Selected: every row is taken, whatever its neighbours.
Selected_NoGapCheck(ids) ==
  LET rows == ById(ids)
  IN SubSeq(rows, 1, IF Len(rows) < MAX_BATCH_SIZE THEN Len(rows) ELSE MAX_BATCH_SIZE)

\* The first rows by id, up to MAX_BATCH_SIZE, cut at the first gap.
Selected(ids) ==
  LET rows == ById(ids)
      contiguous == {n \in DOMAIN rows : n <= MAX_BATCH_SIZE /\ rows[n] = rows[1] + n - 1}
  IN SubSeq(rows, 1, Cardinality(contiguous))

\* The last batch by sequence, then the journals after it; with none, None is
\* returned.  One step for the two reads: if a batch appears between them the
\* insert below is refused, and otherwise both could have run at the second.
ReadJournals(s) ==
  LET last == {b \in batches : \A c \in batches : c.sequence <= b.sequence}
      rows == Selected({i \in posted : i >= Lower(last)})
  IN /\ sealing[s].pc = "idle"
     /\ rows # <<>>
     /\ sealing' = [sealing EXCEPT ![s] = [pc |-> "create", last |-> last, rows |-> rows]]
     /\ UNCHANGED <<ledgerVars, batches, anchorVars>>

\* chain_hash over the root and the manifest: it commits to every field of
\* the manifest, the previous batch's hash included.
ManifestHash(b) ==
  <<[sequence |-> b.sequence, first |-> b.first, last |-> b.last, count |-> b.count,
     root |-> b.root, previous |-> b.previous]>>

\* `key` is the process that signs: each one generates its own.
NewBatch(s) ==
  LET last == sealing[s].last
      rows == sealing[s].rows
  IN [sequence |-> IF last = {} THEN 1 ELSE (CHOOSE b \in last : TRUE).sequence + 1,
      first |-> rows[1], last |-> Last(rows), count |-> Len(rows),
      root |-> MerkleRoot(rows),
      previous |-> IF last = {} THEN <<>> ELSE ManifestHash(CHOOSE b \in last : TRUE),
      status |-> "SEALED", key |-> s]

\* Mutant of CreateBatch: the sequence is not unique.
CreateBatch_NotUnique(s) ==
  /\ sealing[s].pc = "create"
  /\ batches' = batches \cup {NewBatch(s)}
  /\ sealing' = [sealing EXCEPT ![s] = IdleSeal]
  /\ UNCHANGED <<ledgerVars, anchorVars>>

\* Mutant of CreateBatch: a taken sequence is retried with the next free one,
\* over what was read before.
CreateBatch_Renumbers(s) ==
  LET taken == {b.sequence : b \in batches}
  IN /\ sealing[s].pc = "create"
     /\ batches' = batches \cup
          {[NewBatch(s) EXCEPT !.sequence = IF @ \in taken THEN Max(taken) + 1 ELSE @]}
     /\ sealing' = [sealing EXCEPT ![s] = IdleSeal]
     /\ UNCHANGED <<ledgerVars, anchorVars>>

\* The insert, which a taken sequence refuses, and the commit.
CreateBatch(s) ==
  /\ sealing[s].pc = "create"
  /\ batches' = IF \E b \in batches : b.sequence = NewBatch(s).sequence
                  THEN batches ELSE batches \cup {NewBatch(s)}
  /\ sealing' = [sealing EXCEPT ![s] = IdleSeal]
  /\ UNCHANGED <<ledgerVars, anchorVars>>

\* The signer raises or the process dies: the transaction leaves nothing.
AbortSeal(s) ==
  /\ sealing[s].pc = "create"
  /\ sealing' = [sealing EXCEPT ![s] = IdleSeal]
  /\ UNCHANGED <<ledgerVars, batches, anchorVars>>

-----------------------------------------------------------------------------
(* Verification.                                                           *)

Batch(n) == CHOOSE b \in batches : b.sequence = n
Holding(j) == {b \in batches : b.first <= j /\ j <= b.last}

\* generate_merkle_proof: the leaves are read again, not those sealed.
InclusionProof(j, b) ==
  GenerateProof(ById({i \in posted : b.first <= i /\ i <= b.last}), j - b.first)

\* verify_batch_signature in process k, over the stored fields.
SignatureValid(b, k) == b.key = k

\* The non-superseded anchor row of the batch with the lowest key, if any.
LiveAnchor(n) ==
  LET live == {a \in DOMAIN anchors : anchors[a].batch = n /\ anchors[a].status # "SUPERSEDED"}
  IN IF live = {} THEN 0 ELSE Min(live)

\* verify_journal, run in process k.
VerifyJournal(j, k) ==
  IF Holding(j) = {} THEN "FAILED"
  ELSE LET b == CHOOSE c \in Holding(j) : TRUE
           a == LiveAnchor(b.sequence)
       IN IF ~VerifyProof(j, InclusionProof(j, b), b.root) THEN "FAILED"
          ELSE IF a = 0 \/ anchors[a].status # "CONFIRMED" THEN "PENDING"
          ELSE IF SignatureValid(b, k) THEN "VERIFIED" ELSE "FAILED"

\* verify_batch_chain, the signatures apart.
ChainVerdict ==
  \A b \in batches :
    LET before == {c \in batches : c.sequence < b.sequence}
    IN /\ b.sequence = Cardinality(before) + 1
       /\ IF before = {} THEN b.previous = <<>>
          ELSE \E c \in before : /\ c.sequence = b.sequence - 1
                                 /\ b.previous = ManifestHash(c)

-----------------------------------------------------------------------------
(* anchor_ledger_batches, in process w.  A batch's reference at the        *)
(* provider is the digest of its commitment: the batch's sequence stands   *)
(* for both.  store[w] is the provider's in-memory chain in that process.  *)

Goto(w, r) == run' = [run EXCEPT ![w] = r]
Skip(w) == [run[w] EXCEPT !.pc = "submit", !.todo = @ \ {run[w].cur}, !.cur = 0]

StartCommand(w) ==
  /\ run[w].pc = "idle"
  /\ batches # {}
  /\ commands < MaxCommands
  /\ commands' = commands + 1
  /\ Goto(w, [IdleRun EXCEPT !.pc = "submit",
                             !.todo = {b.sequence : b \in {c \in batches : c.status = "SEALED"}}])
  /\ UNCHANGED <<ledgerVars, batches, sealing, anchors, store, crashes>>

\* `if not batch.anchors.exists()`
CheckAnchors(w, n) ==
  /\ run[w].pc = "submit"
  /\ n \in run[w].todo
  /\ Goto(w, IF \E a \in DOMAIN anchors : anchors[a].batch = n
               THEN [run[w] EXCEPT !.todo = @ \ {n}]
               ELSE [run[w] EXCEPT !.pc = "find", !.cur = n])
  /\ UNCHANGED <<ledgerVars, batches, sealing, anchors, store, commands, crashes>>

\* anchor_batch: a live anchor is returned, a FAILED one is superseded.
FindExisting(w) ==
  LET a == LiveAnchor(run[w].cur)
  IN /\ run[w].pc = "find"
     /\ IF a = 0 THEN anchors' = anchors /\ Goto(w, [run[w] EXCEPT !.pc = "insert"])
        ELSE IF anchors[a].status = "FAILED"
        THEN /\ anchors' = [anchors EXCEPT ![a].status = "SUPERSEDED"]
             /\ Goto(w, [run[w] EXCEPT !.pc = "insert"])
        ELSE anchors' = anchors /\ Goto(w, Skip(w))
     /\ UNCHANGED <<ledgerVars, batches, sealing, store, commands, crashes>>

InsertAnchor(w) ==
  /\ run[w].pc = "insert"
  /\ Len(anchors) < MaxAnchors
  /\ anchors' = Append(anchors, [batch |-> run[w].cur, status |-> "CREATED", ref |-> 0])
  /\ Goto(w, [run[w] EXCEPT !.pc = "send", !.ref = Len(anchors) + 1])
  /\ UNCHANGED <<ledgerVars, batches, sealing, store, commands, crashes>>

\* provider.submit: it may be unavailable; a known key gives the old reference.
Submit(w) ==
  LET n == run[w].cur
  IN /\ run[w].pc = "send"
     /\ \/ /\ store' = [store EXCEPT ![w] =
                [k \in DOMAIN store[w] \cup {n} |-> IF k \in DOMAIN store[w] THEN store[w][k] ELSE 0]]
           /\ Goto(w, [run[w] EXCEPT !.pc = "sent"])
        \/ store' = store /\ Goto(w, [run[w] EXCEPT !.pc = "refused"])
     /\ UNCHANGED <<ledgerVars, batches, sealing, anchors, commands, crashes>>

RecordSubmission(w) ==
  LET a == run[w].ref
  IN /\ run[w].pc \in {"sent", "refused"}
     /\ anchors' = [anchors EXCEPT ![a] =
          IF run[w].pc = "sent" THEN [@ EXCEPT !.status = "SUBMITTED", !.ref = run[w].cur]
                                ELSE [@ EXCEPT !.status = "FAILED"]]
     /\ Goto(w, [Skip(w) EXCEPT !.ref = 0])
     /\ UNCHANGED <<ledgerVars, batches, sealing, store, commands, crashes>>

\* The second query: the anchors in flight.
StartPolling(w) ==
  /\ run[w].pc = "submit"
  /\ run[w].todo = {}
  /\ Goto(w, [IdleRun EXCEPT !.pc = "poll",
                !.todo = {a \in DOMAIN anchors : anchors[a].status = "SUBMITTED"}])
  /\ UNCHANGED <<ledgerVars, batches, sealing, anchors, store, commands, crashes>>

Polled(w, a) == [run[w] EXCEPT !.pc = "poll", !.todo = @ \ {a}, !.cur = 0]

\* Mutant of GetStatus: the anchor is saved as the provider reports it, before
\* its batch is marked.
GetStatus_SavesFirst(w, a) ==
  LET n == anchors[a].ref
  IN /\ run[w].pc = "poll"
     /\ a \in run[w].todo
     /\ IF n \notin DOMAIN store[w]
          THEN store' = store /\ anchors' = anchors /\ Goto(w, IdleRun)
          ELSE /\ store' = [store EXCEPT ![w][n] = IF @ < 2 THEN @ + 1 ELSE @]
               /\ anchors' = [anchors EXCEPT ![a].status =
                                IF store'[w][n] >= 2 THEN "CONFIRMED" ELSE "SUBMITTED"]
               /\ Goto(w, IF store'[w][n] >= 2 THEN [run[w] EXCEPT !.pc = "mined", !.cur = a]
                                              ELSE Polled(w, a))
     /\ UNCHANGED <<ledgerVars, batches, sealing, commands, crashes>>

\* provider.get_status: a reference this process never submitted raises
\* KeyError, which ends the command; the second poll finds it confirmed, and
\* what was stored is the commitment itself.
GetStatus(w, a) ==
  LET n == anchors[a].ref
  IN /\ run[w].pc = "poll"
     /\ a \in run[w].todo
     /\ IF n \notin DOMAIN store[w]
          THEN store' = store /\ anchors' = anchors /\ Goto(w, IdleRun)
          ELSE /\ store' = [store EXCEPT ![w][n] = IF @ < 2 THEN @ + 1 ELSE @]
               /\ IF store'[w][n] >= 2
                    THEN anchors' = anchors /\ Goto(w, [run[w] EXCEPT !.pc = "mined", !.cur = a])
                    ELSE /\ anchors' = [anchors EXCEPT ![a].status = "SUBMITTED"]
                         /\ Goto(w, Polled(w, a))
     /\ UNCHANGED <<ledgerVars, batches, sealing, commands, crashes>>

\* The batch turns ANCHORED in a statement of its own, before the anchor.
MarkAnchored(w) ==
  LET n == anchors[run[w].cur].batch
  IN /\ run[w].pc = "mined"
     /\ batches' = {IF b.sequence = n THEN [b EXCEPT !.status = "ANCHORED"] ELSE b : b \in batches}
     /\ Goto(w, [run[w] EXCEPT !.pc = "confirm"])
     /\ UNCHANGED <<ledgerVars, sealing, anchors, store, commands, crashes>>

SaveConfirmed(w) ==
  /\ run[w].pc = "confirm"
  /\ anchors' = [anchors EXCEPT ![run[w].cur].status = "CONFIRMED"]
  /\ Goto(w, Polled(w, run[w].cur))
  /\ UNCHANGED <<ledgerVars, batches, sealing, store, commands, crashes>>

EndCommand(w) ==
  /\ run[w].pc = "poll"
  /\ run[w].todo = {}
  /\ Goto(w, IdleRun)
  /\ UNCHANGED <<ledgerVars, batches, sealing, anchors, store, commands, crashes>>

\* The process ends, at the end of a command or in its middle: the next one
\* starts with an empty provider.
Restart(w) ==
  /\ crashes < MaxCrashes
  /\ run[w] # IdleRun \/ store[w] # <<>>
  /\ crashes' = crashes + 1
  /\ store' = [store EXCEPT ![w] = <<>>]
  /\ Goto(w, IdleRun)
  /\ UNCHANGED <<ledgerVars, batches, sealing, anchors, commands>>

Seal(s) == ReadJournals(s) \/ CreateBatch(s) \/ AbortSeal(s)

Anchor(w) ==
  \/ StartCommand(w) \/ (\E n \in run[w].todo : CheckAnchors(w, n)) \/ FindExisting(w)
  \/ InsertAnchor(w) \/ Submit(w) \/ RecordSubmission(w) \/ StartPolling(w)
  \/ (\E a \in run[w].todo : GetStatus(w, a)) \/ MarkAnchored(w) \/ SaveConfirmed(w)
  \/ EndCommand(w) \/ Restart(w)

Next ==
  \/ InsertJournal
  \/ \E i \in writing : CommitJournal(i) \/ RollBackJournal(i)
  \/ \E s \in Sealers : Seal(s)
  \/ \E w \in Anchorers : Anchor(w)

Spec == Init /\ [][Next]_vars

-----------------------------------------------------------------------------
(* Properties.                                                             *)

\* Whatever sealers overlap, verify_batch_chain finds the sequences without a
\* gap and each batch naming the hash of the one before, and no journal is
\* committed to twice.
BatchChainValid ==
  /\ ChainVerdict
  /\ \A j \in posted : Cardinality(Holding(j)) <= 1

\* verify_journal rebuilds the tree from the rows it finds now: whatever was
\* committed or rolled back since, a sealed journal's proof leads to the root
\* that was sealed (for the process that holds the signing key).
SealedProvable ==
  \A j \in posted : \A b \in Holding(j) : VerifyJournal(j, b.key) # "FAILED"

\* A root commits to its journals one by one: the proof generated for one of
\* them verifies for no other journal of the ledger.
ProofsExclusive ==
  \A b \in batches : \A i \in posted \cap (b.first .. b.last) : \A j \in posted :
    VerifyProof(j, InclusionProof(i, b), b.root) => i = j

\* The batch is marked before its anchor is saved, by processes that may die in
\* between: no anchor is ever CONFIRMED while its batch is not ANCHORED.
ConfirmedIsAnchored ==
  \A a \in DOMAIN anchors : anchors[a].status = "CONFIRMED" =>
    Batch(anchors[a].batch).status = "ANCHORED"

\* The sealed manifests and the anchored sequences are the abstract chain.
Manifests == {ManifestHash(b)[1] : b \in batches}
AnchoredOnes == {b.sequence : b \in {c \in batches : c.status = "ANCHORED"}}
Chain == INSTANCE BatchChain WITH chain <- Manifests, anchored <- AnchoredOnes

\* Sealers that overlap and die, anchoring commands that write the same batch
\* rows: whatever seal_batch read, what it commits lands on the top of the chain
\* as it is now, and no later step changes or removes what was sealed.
ChainSpec == Chain!Spec

-----------------------------------------------------------------------------
(* The inductive invariant behind these.                                   *)

\* The ids from `first` to `last`, as leaves are ordered.
IdRun(first, last) == [k \in 1 .. last - first + 1 |-> first + k - 1]

\* A batch commits to a run of posted journals, each once, and has as many
\* batches before it as its sequence says.
BatchSound(b) ==
  /\ b = [sequence |-> b.sequence, first |-> b.first, last |-> b.last, count |-> b.count,
          root |-> b.root, previous |-> b.previous, status |-> b.status, key |-> b.key]
  /\ b.sequence <= b.first /\ b.first <= b.last
  /\ b.first .. b.last \subseteq posted
  /\ b.root = MerkleRoot(IdRun(b.first, b.last))
  /\ b.sequence = 1 => b.previous = <<>>
  /\ b.sequence > 1 => \E c \in batches : c.sequence = b.sequence - 1 /\ b.previous = ManifestHash(c)

BatchesInLine ==
  /\ \E n \in 0 .. MaxId : {b.sequence : b \in batches} = 1 .. n
  /\ \A b, c \in batches : /\ b.sequence = c.sequence => b = c
                           /\ b.sequence < c.sequence => b.last < c.first

\* What a sealer is about to insert: a run of posted journals above the batch it
\* read last, which is still there although it may have been anchored.
SealerSound(s) ==
  LET last == sealing[s].last
      rows == sealing[s].rows
  IN sealing[s].pc = "create" =>
       /\ rows # <<>> /\ rows = IdRun(rows[1], rows[1] + Len(rows) - 1)
       /\ last # {} => \E x \in last : /\ last = {x} /\ x.last < rows[1]
                                       /\ \E b \in batches : ManifestHash(b) = ManifestHash(x)

Sequences == {b.sequence : b \in batches}
Anchored(a) == Batch(anchors[a].batch).status = "ANCHORED"

\* Commands know batches that exist and anchors that exist, and an anchor is
\* only confirmed by one that has marked its batch.
CommandSound(w) ==
  /\ run[w].pc = "submit" => run[w].todo \subseteq Sequences
  /\ run[w].pc \in {"find", "insert", "send", "sent", "refused"} =>
       run[w].todo \subseteq Sequences /\ run[w].cur \in Sequences
  /\ run[w].pc \in {"send", "sent", "refused"} => run[w].ref \in DOMAIN anchors
  /\ run[w].pc \in {"poll", "mined", "confirm"} => run[w].todo \subseteq DOMAIN anchors
  /\ run[w].pc \in {"mined", "confirm"} => run[w].cur \in DOMAIN anchors
  /\ run[w].pc = "confirm" => Anchored(run[w].cur)

BInv ==
  /\ TypeOK
  /\ \A b \in batches : BatchSound(b)
  /\ BatchesInLine
  /\ \A s \in Sealers : SealerSound(s)
  /\ \A a \in DOMAIN anchors : anchors[a].batch \in Sequences
  /\ \A w \in Anchorers : DOMAIN store[w] \subseteq Sequences /\ CommandSound(w)
  /\ ConfirmedIsAnchored

-----------------------------------------------------------------------------
(* What does not hold.                                                     *)

\* Not true.  seal_batch's docstring: "the next batch over posted, not-yet-batched
\* journals".  A journal that commits after one with a higher id was sealed is
\* below the range every later call reads.
NoneLeftBehind ==
  \A j \in posted : \/ Holding(j) # {}
                    \/ \A b \in batches : b.last < j

\* Not true of two commands at a time, which both find no anchor.
OneLiveAnchor ==
  \A a, c \in DOMAIN anchors :
    /\ anchors[a].batch = anchors[c].batch
    /\ anchors[a].status # "SUPERSEDED" /\ anchors[c].status # "SUPERSEDED"
    => a = c

\* Not true.  A command that read the anchor while it was SUBMITTED, and whose
\* provider has it polled once, saves its instance over a CONFIRMED row.
ConfirmedStays ==
  [][\A a \in DOMAIN anchors : anchors[a].status = "CONFIRMED" => anchors'[a].status = "CONFIRMED"]_anchors
=============================================================================
