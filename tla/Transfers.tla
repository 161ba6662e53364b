------------------------------ MODULE Transfers ------------------------------
(***************************************************************************)
(* Money transfers (apps/transfers/services.py) as concurrent PostgreSQL   *)
(* sessions execute them: the customer's request, with its risk gate       *)
(* outside the settlement transaction; the manager's approval and the      *)
(* reversal, which work on a row the caller read earlier; the cron job     *)
(* that settles scheduled transfers in one batch; and the closing of an    *)
(* account (apps/managerops/services.py).                                  *)
(*                                                                         *)
(* READ COMMITTED: each step is a statement that reads what is committed   *)
(* plus what its own session wrote.  SELECT ... FOR UPDATE on an account   *)
(* waits while another session locks it; an insert of a taken idempotency  *)
(* key, or an update of a row, waits for the session that wrote it.        *)
(* Writes become visible, and locks are released, at commit.               *)
(*                                                                         *)
(* The ledger is seen through account_balance: `bal` is the balance the    *)
(* committed journals give an account, `delta` what the journals of the    *)
(* open transaction add.  How journals are posted is module Ledger.        *)
(***************************************************************************)
EXTENDS Integers, FiniteSets, Functions

CONSTANTS
  Sessions,        \* web workers, the cron job, managers
  Accounts,        \* Bankio accounts
  External,        \* the destination of a transfer to a beneficiary
  Keys,            \* idempotency keys
  Requests,        \* what customers ask for: [src, dst, amt, scheduled]
  InitialBalance,  \* [Accounts -> Nat]
  TxLimit,         \* [Accounts -> Nat]
  DailyLimit,      \* [Accounts -> Nat]
  Verdicts,        \* what the risk gate may answer
  Ops,             \* the operations in use
  None             \* no row, no session

Statuses == {"PENDING", "PROCESSING", "COMPLETED", "FAILED", "REVERSED", "UNDER_REVIEW"}

Destinations == Accounts \cup {External}
Amount       == Nat \ {0}

\* A Transfer row.  CREATED is only ever seen by the session that settles the
\* row in the same transaction.  `verdict` is a history field: what the risk
\* gate told the request that created the row.
Request  == [src : Accounts, dst : Destinations, amt : Amount, scheduled : BOOLEAN]
Transfer == [src : Accounts, dst : Destinations, amt : Amount, scheduled : BOOLEAN,
             status : Statuses, verdict : {"ALLOW", "REVIEW", "BLOCK"}]

ASSUME TransfersAssumption ==
  /\ External \notin Accounts
  /\ None \notin Transfer /\ None \notin Sessions
  /\ Requests \subseteq Request
  /\ InitialBalance \in [Accounts -> Nat]
  /\ TxLimit \in [Accounts -> Nat]
  /\ DailyLimit \in [Accounts -> Nat]
  /\ Verdicts \subseteq {"ALLOW", "REVIEW", "BLOCK", "CHALLENGE"}
  /\ Ops \subseteq {"execute", "approve", "reverse", "job", "close"}
  /\ Accounts # {} /\ Keys # {} /\ IsFiniteSet(Keys)

VARIABLES
  transfers,    \* [Keys -> Transfer or None]: committed rows
  bal,          \* [Accounts -> Int]: balance of the committed journals
  status,       \* [Accounts -> {"ACTIVE", "CLOSED"}]
  reversed,     \* keys whose REV- journal is committed
  evaluation,   \* [Keys -> the newest RiskEvaluation of the key]
  lock,         \* [Accounts -> who holds the row FOR UPDATE]
  ses,          \* what each session is doing
  clawback      \* history: [Accounts -> Nat], taken back by reversals

vars == <<transfers, bal, status, reversed, evaluation, lock, ses, clawback>>

Steps == {"idle", "evaluate", "decide", "block", "begin", "lockSrc", "lockDst", "check",
          "insert", "claim", "approveLock", "approveSettle", "undo", "mirror", "jobLock",
          "closeLock", "closeCheck", "commit"}

\* A blank Transfer for sessions that handle none.
NoTransfer == [src |-> CHOOSE a \in Accounts : TRUE, dst |-> External, amt |-> 1,
               scheduled |-> FALSE, status |-> "PROCESSING", verdict |-> "ALLOW"]

Operations == {"execute", "approve", "reverse", "job", "close"}

Crashes == {"none", "Killed", "DuplicateKey", "DuplicateReversal",
            "IllegalTransition", "AlreadyReversed", "NotClosable"}

\* op, pc:   the operation and its next statement
\* key, row: the transfer at hand, as this session knows it
\* todo:     due transfers of the batch still to be settled
\* held:     transfer rows and keys this transaction has locked or written
\* writes, delta: its uncommitted row versions and balance changes
\* crash:    what ended its last operation, other than a return or a
\*           TransferError: the death of the worker, or an IntegrityError (the two
\*           Duplicate...) or ValueError (the other three), by its cause
Session == [op : Operations \cup {"none"}, pc : Steps, key : Keys, row : Transfer,
            todo : SUBSET Keys, held : SUBSET Keys,
            writes : [Keys -> Transfer \cup {None}], delta : [Accounts -> Int],
            crash : Crashes]

NoChange == [a \in Accounts |-> 0]

Idle == [op |-> "none", pc |-> "idle", key |-> CHOOSE k \in Keys : TRUE,
         row |-> NoTransfer, todo |-> {}, held |-> {},
         writes |-> [k \in Keys |-> None], delta |-> NoChange, crash |-> "none"]

\* What is left of a RiskEvaluation is who has still to store its decision, and
\* whether the decision is a REVIEW, which is all that is ever read back.
Evaluation == [by : Sessions \cup {None}, review : BOOLEAN]

TypeOK ==
  /\ transfers \in [Keys -> Transfer \cup {None}]
  /\ bal \in [Accounts -> Int]
  /\ status \in [Accounts -> {"ACTIVE", "CLOSED"}]
  /\ reversed \in SUBSET Keys
  /\ evaluation \in [Keys -> Evaluation]
  /\ lock \in [Accounts -> Sessions \cup {None}]
  /\ ses \in [Sessions -> Session]
  /\ clawback \in [Accounts -> Nat]

Init ==
  /\ transfers = [k \in Keys |-> None]
  /\ bal = InitialBalance
  /\ status = [a \in Accounts |-> "ACTIVE"]
  /\ reversed = {}
  /\ evaluation = [k \in Keys |-> [by |-> None, review |-> FALSE]]
  /\ lock = [a \in Accounts |-> None]
  /\ ses = [s \in Sessions |-> Idle]
  /\ clawback = [a \in Accounts |-> 0]

-----------------------------------------------------------------------------
(* Reads, locks and the end of a transaction.                              *)

data == <<transfers, bal, status, reversed, evaluation, clawback>>

At(s, op, pc) == ses[s].op = op /\ ses[s].pc = pc

\* account_balance as session s sees it.
Balance(s, a) == bal[a] + ses[s].delta[a]

\* daily_outflow_total: completed transfers only, whenever they were settled.
Completed(a) ==
  {k \in Keys : transfers[k] # None /\ transfers[k].src = a /\ transfers[k].status = "COMPLETED"}

\* The amounts of the transfers K.
Amounts(K) == [k \in K |-> transfers[k].amt]
Moved(K) == SumFunction(Amounts(K))

Outflow(a) == Moved(Completed(a))

\* The balance changes of a journal that moves m from src to dst.
Post(delta, src, dst, m) ==
  [a \in Accounts |-> delta[a] - (IF a = src THEN m ELSE 0) + (IF a = dst THEN m ELSE 0)]

KeyHeld(s, k) == \E t \in Sessions \ {s} : k \in ses[t].held

\* Mutant of Free: a plain SELECT, which does not wait.
Free_NoWait(s, a) == TRUE

Free(s, a) == lock[a] \in {None, s}

\* Mutant of Take: get() instead of select_for_update().
Take_Unlocked(s, a) == UNCHANGED lock

Take(s, a) == lock' = [lock EXCEPT ![a] = s]

Released(s) == [a \in Accounts |-> IF lock[a] = s THEN None ELSE lock[a]]

\* The transaction is rolled back; `why` is what the caller's caller sees.
Abandon(s, why) ==
  /\ ses' = [ses EXCEPT ![s] = [Idle EXCEPT !.crash = why]]
  /\ lock' = Released(s)
  /\ UNCHANGED data

Goto(s, pc) == ses' = [ses EXCEPT ![s].pc = pc]

Commit(s) ==
  LET w == ses[s]
  IN /\ w.pc = "commit"
     /\ transfers' = [k \in Keys |-> IF w.writes[k] = None THEN transfers[k] ELSE w.writes[k]]
     /\ bal' = [a \in Accounts |-> bal[a] + w.delta[a]]
     /\ status' = [a \in Accounts |-> IF w.op = "close" /\ a = w.row.src THEN "CLOSED"
                                                                         ELSE status[a]]
     /\ reversed' = IF w.op = "reverse" THEN reversed \cup {w.key} ELSE reversed
     /\ clawback' = [a \in Accounts |-> IF w.op = "reverse" /\ a = w.row.dst
                                          THEN clawback[a] + w.row.amt ELSE clawback[a]]
     /\ ses' = [ses EXCEPT ![s] = Idle]
     /\ lock' = Released(s)
     /\ UNCHANGED evaluation

\* The worker dies, the connection drops.
Crash(s) ==
  /\ ses[s].pc # "idle"
  /\ Abandon(s, "Killed")

-----------------------------------------------------------------------------
(* execute_transfer: the gate.                                             *)

\* A key whose row exists is answered with that row, before the gate.
Execute(s, k, q) ==
  /\ "execute" \in Ops
  /\ ses[s].pc = "idle"
  /\ transfers[k] = None
  /\ ses' = [ses EXCEPT ![s] =
       [Idle EXCEPT !.op = "execute", !.pc = "evaluate", !.key = k,
                    !.row = [src |-> q.src, dst |-> q.dst, amt |-> q.amt,
                             scheduled |-> q.scheduled, status |-> "PROCESSING",
                             verdict |-> "ALLOW"]]]
  /\ UNCHANGED <<data, lock>>

\* evaluate_operation stores the evaluation first and its decision later, both
\* in autocommit.
OpenEvaluation(s) ==
  /\ At(s, "execute", "evaluate")
  /\ evaluation' = [evaluation EXCEPT ![ses[s].key] = [by |-> s, review |-> FALSE]]
  /\ Goto(s, "decide")
  /\ UNCHANGED <<transfers, bal, status, reversed, lock, clawback>>

\* v is the decision as the engine mode lets it act.  ALLOW stands for all that
\* lets the request through: the policy's ALLOW, a mode that does not interfere,
\* an engine failure, a challenge the customer confirmed.
Decide(s, v) ==
  LET k == ses[s].key
  IN /\ At(s, "execute", "decide")
     /\ evaluation' = IF evaluation[k].by = s
                        THEN [evaluation EXCEPT ![k] = [by |-> None, review |-> v = "REVIEW"]]
                        ELSE evaluation
     /\ ses' = [ses EXCEPT ![s] =
          CASE v \in {"ALLOW", "REVIEW"} -> [@ EXCEPT !.pc = "begin", !.row.verdict = v]
            [] v = "BLOCK" -> [@ EXCEPT !.pc = "block", !.row.verdict = v]
            [] v = "CHALLENGE" -> Idle]
     /\ UNCHANGED <<transfers, bal, status, reversed, lock, clawback>>

\* Mutant of RecordBlocked: update_or_create instead of create.
RecordBlocked_Upsert(s) ==
  LET k == ses[s].key
  IN /\ At(s, "execute", "block")
     /\ ~KeyHeld(s, k)
     /\ transfers' = [transfers EXCEPT ![k] = [ses[s].row EXCEPT !.status = "FAILED"]]
     /\ ses' = [ses EXCEPT ![s] = Idle]
     /\ UNCHANGED <<bal, status, reversed, evaluation, lock, clawback>>

\* RISK_BLOCKED: a FAILED row under the key, in autocommit.
RecordBlocked(s) ==
  LET k == ses[s].key
  IN /\ At(s, "execute", "block")
     /\ ~KeyHeld(s, k)
     /\ transfers' = IF transfers[k] = None
                       THEN [transfers EXCEPT ![k] = [ses[s].row EXCEPT !.status = "FAILED"]]
                       ELSE transfers
     /\ ses' = [ses EXCEPT ![s] = [Idle EXCEPT !.crash =
                  IF transfers[k] = None THEN "none" ELSE "DuplicateKey"]]
     /\ UNCHANGED <<bal, status, reversed, evaluation, lock, clawback>>

-----------------------------------------------------------------------------
(* _execute_transfer_atomic.                                               *)

\* The second look at the key, before any lock.
Begin(s) ==
  /\ At(s, "execute", "begin")
  /\ IF transfers[ses[s].key] # None
       THEN Abandon(s, "none")
       ELSE Goto(s, "lockSrc") /\ UNCHANGED <<data, lock>>

\* Mutant of LockSource: it waits for an account that is not active.
LockSource_Waits(s) ==
  LET r == ses[s].row
  IN /\ At(s, "execute", "lockSrc")
     /\ Free(s, r.src)
     /\ status[r.src] = "ACTIVE"
     /\ Take(s, r.src)
     /\ Goto(s, IF r.dst = External THEN "check" ELSE "lockDst")
     /\ UNCHANGED data

LockSource(s) ==
  LET r == ses[s].row
  IN /\ At(s, "execute", "lockSrc")
     /\ Free(s, r.src)
     /\ IF status[r.src] # "ACTIVE"
          THEN Abandon(s, "none")
          ELSE /\ Take(s, r.src)
               /\ Goto(s, IF r.dst = External THEN "check" ELSE "lockDst")
               /\ UNCHANGED data

LockDestination(s) ==
  LET r == ses[s].row
  IN /\ At(s, "execute", "lockDst")
     /\ Free(s, r.dst)
     /\ IF status[r.dst] # "ACTIVE"
          THEN Abandon(s, "none")
          ELSE Take(s, r.dst) /\ Goto(s, "check") /\ UNCHANGED data

\* _post_gate_review_flag: the newest evaluation of the key, whoever made it.
ReviewFlag(k) == evaluation[k].review

\* Limits, funds, and how the transfer starts.
CheckLimits(s) ==
  LET r == ses[s].row
  IN /\ At(s, "execute", "check")
     /\ IF \/ r.amt > TxLimit[r.src]
           \/ Outflow(r.src) + r.amt > DailyLimit[r.src]
           \/ Balance(s, r.src) < r.amt
          THEN Abandon(s, "none")
          ELSE /\ ses' = [ses EXCEPT ![s] = [@ EXCEPT !.pc = "insert", !.row.status =
                    IF ReviewFlag(ses[s].key) THEN "UNDER_REVIEW"
                    ELSE IF r.scheduled THEN "PENDING" ELSE "COMPLETED"]]
               /\ UNCHANGED <<data, lock>>

\* The row, and for a transfer that neither waits nor is reviewed its journal.
InsertTransfer(s) ==
  LET k == ses[s].key
      r == ses[s].row
  IN /\ At(s, "execute", "insert")
     /\ ~KeyHeld(s, k)
     /\ IF transfers[k] # None
          THEN Abandon(s, "DuplicateKey")
          ELSE /\ ses' = [ses EXCEPT ![s] =
                    [@ EXCEPT !.pc = "commit", !.held = {k}, !.writes[k] = r,
                              !.delta = IF r.status = "COMPLETED"
                                          THEN Post(ses[s].delta, r.src, r.dst, r.amt)
                                          ELSE ses[s].delta]]
               /\ UNCHANGED <<data, lock>>

-----------------------------------------------------------------------------
(* approve_transfer and reverse_transfer: on an instance read earlier.     *)

\* The caller fetched the row, without a lock, when it had this status.
Fetch(s, k, op, st, pc) ==
  /\ op \in Ops
  /\ ses[s].pc = "idle"
  /\ transfers[k] # None
  /\ transfers[k].status = st
  /\ ses' = [ses EXCEPT ![s] = [Idle EXCEPT !.op = op, !.pc = pc, !.key = k,
                                            !.row = transfers[k]]]
  /\ UNCHANGED <<data, lock>>

Approve(s, k) == Fetch(s, k, "approve", "UNDER_REVIEW", "claim")

Reverse(s, k) == Fetch(s, k, "reverse", "COMPLETED", "undo")

\* approved_by and UNDER_REVIEW -> PROCESSING, by the instance's own status;
\* refresh_from_db then reads the session's version of the row.
Claim(s) ==
  LET k == ses[s].key
      r == [transfers[k] EXCEPT !.status = "PROCESSING"]
  IN /\ At(s, "approve", "claim")
     /\ ~KeyHeld(s, k)
     /\ ses' = [ses EXCEPT ![s] = [@ EXCEPT !.pc = "approveLock", !.held = {k}, !.row = r,
                                            !.writes[k] = r]]
     /\ UNCHANGED <<data, lock>>

ApproveLock(s) ==
  /\ At(s, "approve", "approveLock")
  /\ Free(s, ses[s].row.src)
  /\ Take(s, ses[s].row.src)
  /\ Goto(s, "approveSettle")
  /\ UNCHANGED data

\* _settle_locked.  With the funds there, _settle posts the journal and asks
\* for PROCESSING once more, a transition PROCESSING does not have: ValueError
\* undoes the transaction.
ApproveSettle(s) ==
  LET k == ses[s].key
      r == ses[s].row
  IN /\ At(s, "approve", "approveSettle")
     /\ IF Balance(s, r.src) < r.amt
          THEN /\ ses' = [ses EXCEPT ![s] =
                    [@ EXCEPT !.pc = "commit", !.writes[k] = [r EXCEPT !.status = "FAILED"]]]
               /\ UNCHANGED <<data, lock>>
          ELSE Abandon(s, "IllegalTransition")

\* reverse_journal looks for a reversal without a lock.
Undo(s) ==
  /\ At(s, "reverse", "undo")
  /\ IF ses[s].key \in reversed
       THEN Abandon(s, "AlreadyReversed")
       ELSE Goto(s, "mirror") /\ UNCHANGED <<data, lock>>

\* Mutant of PostMirror: the reversal's reference is not unique.
PostMirror_NotUnique(s) ==
  LET k == ses[s].key
      r == ses[s].row
  IN /\ At(s, "reverse", "mirror")
     /\ ~KeyHeld(s, k)
     /\ ses' = [ses EXCEPT ![s] =
          [@ EXCEPT !.pc = "commit", !.held = {k}, !.writes[k] = [r EXCEPT !.status = "REVERSED"],
                    !.delta = Post(ses[s].delta, r.dst, r.src, r.amt)]]
     /\ UNCHANGED <<data, lock>>

\* The unique REV- reference, the mirrored journal, the row.
PostMirror(s) ==
  LET k == ses[s].key
      r == ses[s].row
  IN /\ At(s, "reverse", "mirror")
     /\ ~KeyHeld(s, k)
     /\ IF k \in reversed
          THEN Abandon(s, "DuplicateReversal")
          ELSE /\ ses' = [ses EXCEPT ![s] =
                    [@ EXCEPT !.pc = "commit", !.held = {k},
                              !.writes[k] = [r EXCEPT !.status = "REVERSED"],
                              !.delta = Post(ses[s].delta, r.dst, r.src, r.amt)]]
               /\ UNCHANGED <<data, lock>>

-----------------------------------------------------------------------------
(* process_due_scheduled: one transaction for all that is due.             *)

Due == {k \in Keys : transfers[k] # None /\ transfers[k].status = "PENDING"}

\* SELECT ... FOR UPDATE of the due rows (time is abstracted: any set of
\* pending transfers may be what is due); the first one is taken up.
StartJob(s, D, k) ==
  /\ "job" \in Ops
  /\ ses[s].pc = "idle"
  /\ D \subseteq Due
  /\ k \in D
  /\ \A d \in D : ~KeyHeld(s, d)
  /\ ses' = [ses EXCEPT ![s] =
       [Idle EXCEPT !.op = "job", !.pc = "jobLock", !.key = k, !.row = transfers[k],
                    !.todo = D \ {k}, !.held = D]]
  /\ UNCHANGED <<data, lock>>

\* Mutant of SettleDue: a transfer that cannot be settled aborts the batch.
SettleDue_Aborts(s) ==
  LET k == ses[s].key
      r == ses[s].row
  IN /\ At(s, "job", "jobLock")
     /\ Free(s, r.src)
     /\ IF Balance(s, r.src) < r.amt
          THEN Abandon(s, "none")
          ELSE /\ Take(s, r.src)
               /\ ses' = [ses EXCEPT ![s] =
                    [@ EXCEPT !.pc = "commit", !.writes[k] = [r EXCEPT !.status = "COMPLETED"],
                              !.delta = Post(ses[s].delta, r.src, r.dst, r.amt)]]
               /\ UNCHANGED data

\* The source is locked and checked; the transfer is settled or FAILED, and the
\* loop goes to the next one or to the end.
SettleDue(s) ==
  LET k == ses[s].key
      r == ses[s].row
      fails == status[r.src] # "ACTIVE" \/ Balance(s, r.src) < r.amt
      done == [ses[s] EXCEPT
                 !.writes[k] = [r EXCEPT !.status = IF fails THEN "FAILED" ELSE "COMPLETED"],
                 !.delta = IF fails THEN ses[s].delta
                                    ELSE Post(ses[s].delta, r.src, r.dst, r.amt)]
  IN /\ At(s, "job", "jobLock")
     /\ Free(s, r.src)
     /\ Take(s, r.src)
     /\ IF ses[s].todo = {}
          THEN ses' = [ses EXCEPT ![s] = [done EXCEPT !.pc = "commit"]]
          ELSE \E n \in ses[s].todo :
                 ses' = [ses EXCEPT ![s] = [done EXCEPT !.key = n, !.row = transfers[n],
                                                        !.todo = ses[s].todo \ {n}]]
     /\ UNCHANGED data

-----------------------------------------------------------------------------
(* request_account_closure.                                                *)

Close(s, a) ==
  /\ "close" \in Ops
  /\ ses[s].pc = "idle"
  /\ status[a] = "ACTIVE"
  /\ ses' = [ses EXCEPT ![s] = [Idle EXCEPT !.op = "close", !.pc = "closeLock",
                                            !.row = [NoTransfer EXCEPT !.src = a]]]
  /\ UNCHANGED <<data, lock>>

\* Mutant of LockToClose: the account to close is read without its lock.
LockToClose_Unlocked(s) ==
  /\ At(s, "close", "closeLock")
  /\ Goto(s, "closeCheck")
  /\ UNCHANGED <<data, lock>>

LockToClose(s) ==
  /\ At(s, "close", "closeLock")
  /\ Free(s, ses[s].row.src)
  /\ Take(s, ses[s].row.src)
  /\ Goto(s, "closeCheck")
  /\ UNCHANGED data

CheckEmpty(s) ==
  LET a == ses[s].row.src
  IN /\ At(s, "close", "closeCheck")
     /\ IF bal[a] # 0 \/ status[a] = "CLOSED"
          THEN Abandon(s, "NotClosable")
          ELSE Goto(s, "commit") /\ UNCHANGED <<data, lock>>

-----------------------------------------------------------------------------
(* PostgreSQL's deadlock detector.                                         *)

WaitsForAccount(s, t, a) == lock[a] = t /\ t # s

WaitsFor(s, t) ==
  \/ /\ ses[s].pc \in {"lockSrc", "approveLock", "jobLock", "closeLock"}
     /\ WaitsForAccount(s, t, ses[s].row.src)
  \/ ses[s].pc = "lockDst" /\ WaitsForAccount(s, t, ses[s].row.dst)
  \/ /\ ses[s].pc \in {"block", "insert", "claim", "mirror"}
     /\ t # s
     /\ ses[s].key \in ses[t].held

\* One member of a wait cycle gets an OperationalError and is rolled back.
BreakDeadlock(s) ==
  /\ \E S \in SUBSET Sessions : s \in S /\ \A t \in S : \E u \in S : WaitsFor(t, u)
  /\ Abandon(s, "none")

-----------------------------------------------------------------------------

\* The next statement of a session that is in an operation.
Proceed(s) ==
  \/ OpenEvaluation(s) \/ \E v \in Verdicts : Decide(s, v)
  \/ RecordBlocked(s) \/ Begin(s) \/ LockSource(s) \/ LockDestination(s)
  \/ CheckLimits(s) \/ InsertTransfer(s)
  \/ Claim(s) \/ ApproveLock(s) \/ ApproveSettle(s) \/ Undo(s) \/ PostMirror(s)
  \/ SettleDue(s) \/ LockToClose(s) \/ CheckEmpty(s) \/ Commit(s)
  \/ BreakDeadlock(s)

Next ==
  \E s \in Sessions :
    \/ \E k \in Keys, q \in Requests : Execute(s, k, q)
    \/ \E k \in Keys : Approve(s, k) \/ Reverse(s, k)
    \/ \E D \in SUBSET Keys, k \in Keys : StartJob(s, D, k)
    \/ \E a \in Accounts : Close(s, a)
    \/ Proceed(s)
    \/ Crash(s)

Spec == Init /\ [][Next]_vars

\* A session that is not waiting keeps executing its statements; one that waits
\* is not passed over for ever, because PostgreSQL queues the waiters of a lock.
FairSpec == Spec /\ \A s \in Sessions : SF_vars(Proceed(s))

\* cron starts run_scheduled_jobs again and again, sooner or later with all that
\* waits due, and does not kill every run of it.
CronSpec ==
  /\ FairSpec
  /\ SF_vars(\E s \in Sessions, k \in Keys : StartJob(s, Due, k))
  /\ <>[][\A s \in Sessions : ses[s].op = "job" => ~Crash(s)]_vars

-----------------------------------------------------------------------------
(* Properties.                                                             *)

\* The row lock makes check-then-debit atomic: no interleaving of requests,
\* scheduled batches and closings overdraws an account.  Only a reversal can,
\* by what it takes back from a receiver who has spent it.
NoOverdraft == \A a \in Accounts : bal[a] + clawback[a] >= 0

\* Completed transfers to a.
Received(a) ==
  {k \in Keys : transfers[k] # None /\ transfers[k].dst = a /\ transfers[k].status = "COMPLETED"}

\* The ledger and the transfer table tell the same story: a balance is what the
\* account began with and what its completed transfers brought and took.  A
\* posting without its row, a row completed twice or reversed twice breaks it.
MoneyMatchesRows ==
  \A a \in Accounts :
    bal[a] = InitialBalance[a] + Moved(Received(a)) - Moved(Completed(a))

\* Concurrent requests cannot pass the daily limit together: what customers
\* sent at once (not scheduled) stays within it.
AtOnce(a) == {k \in Completed(a) : ~transfers[k].scheduled}

DailyLimitHeld == \A a \in Accounts : Moved(AtOnce(a)) <= DailyLimit[a]

\* What the batch has credited, and what reversals have given back.
ByBatch(a) == {k \in Received(a) : transfers[k].scheduled}

GivenBack(a) ==
  {k \in Keys : transfers[k] # None /\ transfers[k].src = a /\ transfers[k].status = "REVERSED"}

\* An account request_account_closure closed has no money and gets none from
\* requests.  Only the batch and reversals, which credit without its lock, bring
\* it some: it never holds more than they have ever brought it, before it was
\* closed or after.
ClosedStaysEmpty ==
  \A a \in Accounts : status[a] = "CLOSED" => bal[a] <= Moved(ByBatch(a)) + Moved(GivenBack(a))

\* Not true.  Closing needs a zero balance (SOBRE.md), when it happens: the batch
\* credits an account it has not locked, after the closing has looked.
ClosesEmpty ==
  [][\A a \in Accounts : status[a] = "ACTIVE" /\ status'[a] = "CLOSED" => bal'[a] = 0]_vars

\* Not true.  A manager's approval of a transfer under review ends with the transfer
\* settled or FAILED, never with an exception.
ApprovalSettles == \A s \in Sessions : ses[s].crash # "IllegalTransition"

\* Not true.  A retry of a request gets the original transfer, never an
\* IntegrityError: one that waits behind the original looked for its key before.
RetryReturnsOriginal == \A s \in Sessions : ses[s].crash # "DuplicateKey"

\* Not true.  A request the gate routed to review does not settle on its own: the
\* flag is read back from the newest evaluation of the key, whoever made it.
ReviewHonoured ==
  \A k \in Keys : transfers[k] # None /\ transfers[k].verdict = "REVIEW" =>
    transfers[k].status \in {"UNDER_REVIEW", "FAILED"}

\* No operation waits for ever: opposite transfers lock the same two accounts
\* in opposite order, and the deadlock this makes is broken.
OperationsEnd == \A s \in Sessions : ses[s].pc # "idle" ~> ses[s].pc = "idle"

\* A scheduled transfer is settled or FAILED in the end, whatever else competes
\* for its account.
ScheduledSettle ==
  \A k \in Keys : (k \in Due) ~> (k \notin Due)

-----------------------------------------------------------------------------
(* The inductive invariant behind NoOverdraft.                             *)

\* Rows a session fetched or locked exist, and go on existing.
RowsStay ==
  \A s \in Sessions :
    /\ ses[s].op \in {"approve", "reverse", "job"} => transfers[ses[s].key] # None
    /\ \A k \in ses[s].todo : transfers[k] # None

\* What session s will take from account a is there, and s alone may take it.
Covered(s, a) ==
  \/ ses[s].delta[a] >= 0
  \/ lock[a] = s /\ bal[a] + clawback[a] + ses[s].delta[a] >= 0

\* A reversal is kept apart: it debits without a lock, and is clawed back.
Solvent(s) ==
  LET w == ses[s]
  IN /\ \/ w.op \in {"none", "approve", "close"}
        \/ w.op # "job" /\ w.pc # "commit"
        => w.delta = NoChange
     /\ w.op = "reverse" /\ w.pc = "commit" =>
          w.delta = Post(NoChange, w.row.dst, w.row.src, w.row.amt)
     /\ w.op # "reverse" => \A a \in Accounts : Covered(s, a)
     /\ w.op = "execute" /\ w.pc \in {"lockDst", "check", "insert"} => lock[w.row.src] = s
     /\ At(s, "execute", "insert") /\ w.row.status = "COMPLETED" =>
          bal[w.row.src] + clawback[w.row.src] >= w.row.amt

TInv == TypeOK /\ RowsStay /\ NoOverdraft /\ \A s \in Sessions : Solvent(s)

-----------------------------------------------------------------------------
(* Refinement.                                                             *)

\* The committed rows and balances are the abstract book of TransferBook.
Book == INSTANCE TransferBook WITH rows <- transfers, cash <- bal

\* Whatever sessions do inside their transactions, whoever reads the committed
\* rows and balances sees transfers enter once, move along legal transitions
\* only, and money move in the same step.
BookSpec == Book!Spec

-----------------------------------------------------------------------------
(* The inductive invariant behind MoneyMatchesRows, DailyLimitHeld,        *)
(* ClosedStaysEmpty and the refinement: what a session may rely on of the  *)
(* committed row it is about to replace.                                   *)

\* A row or a key is in the hands of one transaction.
HeldOnce == \A s, t \in Sessions : s # t => ses[s].held \cap ses[t].held = {}

\* What the new version of row k brings account a.
Change(w, k, a) ==
  IF w.writes[k] = None THEN 0 ELSE Book!Worth(w.writes[k], a) - Book!Worth(transfers[k], a)

\* The journals a transaction posted are those of the rows it wrote, and it
\* holds these.
Accounted(w) ==
  /\ \A k \in Keys : w.writes[k] # None => k \in w.held
  /\ \A a \in Accounts : w.delta[a] = SumFunction([k \in Keys |-> Change(w, k, a)])

\* A request, up to its check; what it has locked; what it is about to insert.
RequestBacked(s) ==
  LET w == ses[s]
      r == w.row
  IN /\ w.pc # "commit" => w.held = {}
     /\ w.pc = "commit" =>
          w.held = {w.key} /\ transfers[w.key] = None /\ w.writes[w.key] = r
     /\ w.pc \in {"check", "insert", "commit"} /\ r.dst # External =>
          lock[r.dst] = s /\ status[r.dst] = "ACTIVE"
     /\ w.pc \in {"insert", "commit"} =>
          /\ lock[r.src] = s
          /\ r.status \in {"UNDER_REVIEW", "PENDING", "COMPLETED"}
          /\ r.status = "PENDING" => r.scheduled
          /\ r.status = "COMPLETED" =>
               ~r.scheduled /\ Moved(AtOnce(r.src)) + r.amt <= DailyLimit[r.src]

\* A manager's row was fetched earlier; only its status may have changed since.
ReviewBacked(w) ==
  LET q == transfers[w.key]
  IN /\ Book!SameTransfer(q, w.row) /\ q.status \in {"UNDER_REVIEW", "FAILED"}
     /\ w.pc = "claim" => w.held = {}
     /\ w.pc # "claim" => w.held = {w.key}
     /\ w.pc \in {"approveLock", "approveSettle"} => w.writes[w.key].status = "PROCESSING"
     /\ w.pc = "commit" => w.writes[w.key] = [w.row EXCEPT !.status = "FAILED"]

ReversalBacked(w) ==
  LET q == transfers[w.key]
  IN /\ Book!SameTransfer(q, w.row) /\ w.row.status = "COMPLETED"
     /\ q.status \in {"COMPLETED", "REVERSED"}
     /\ w.pc # "commit" => w.held = {}
     /\ w.pc = "commit" => /\ w.held = {w.key} /\ q.status = "COMPLETED"
                           /\ w.writes[w.key] = [w.row EXCEPT !.status = "REVERSED"]

\* The rows of a batch are locked, and wait as they did when it began.
BatchBacked(w) ==
  /\ \A k \in w.held :
       /\ transfers[k] # None /\ transfers[k].status = "PENDING"
       /\ w.writes[k] # None => /\ Book!SameTransfer(transfers[k], w.writes[k])
                                /\ w.writes[k].status \in {"COMPLETED", "FAILED"}
  /\ w.pc # "commit" => /\ w.key \in w.held /\ w.todo \subseteq w.held /\ w.key \notin w.todo
                        /\ \A k \in w.todo \cup {w.key} : w.writes[k] = None
                        /\ w.row = transfers[w.key]

\* The account a session is about to close has no more than it may keep.
ClosingBacked(s) ==
  LET w == ses[s]
      a == w.row.src
  IN /\ w.held = {}
     /\ w.pc \in {"closeCheck", "commit"} => lock[a] = s
     /\ w.pc = "commit" => bal[a] <= Moved(ByBatch(a)) + Moved(GivenBack(a))

Backed(s) ==
  LET w == ses[s]
  IN /\ Accounted(w)
     /\ w.op = "none" => w.held = {}
     /\ w.op = "execute" => RequestBacked(s)
     /\ w.op = "approve" => ReviewBacked(w)
     /\ w.op = "reverse" => ReversalBacked(w)
     /\ w.op = "job" => BatchBacked(w)
     /\ w.op = "close" => ClosingBacked(s)

\* Committed rows: one waits only if it was scheduled, and is REVERSED exactly
\* when its reversal is posted.
RowsSound ==
  \A k \in Keys :
    /\ transfers[k] # None /\ transfers[k].status = "PENDING" => transfers[k].scheduled
    /\ k \in reversed <=> transfers[k] # None /\ transfers[k].status = "REVERSED"

MInv == HeldOnce /\ RowsSound /\ \A s \in Sessions : Backed(s)
=============================================================================
