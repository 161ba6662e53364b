--------------------------- MODULE TransfersProofs ---------------------------
(* Proofs about Transfers for every set of sessions, accounts, keys and      *)
(* requests: type correctness; no interleaving overdraws an account (from    *)
(* TInv); balances and rows agree, the daily limit holds and a closed account*)
(* stays empty (from MInv); Transfers implements TransferBook.  The inductive*)
(* invariants are stated in Transfers.                                       *)
EXTENDS Transfers, TableTheorems

-----------------------------------------------------------------------------
(* Typing.                                                                   *)

\* The session at rest is a session.
LEMMA IdleTyped == Idle \in Session /\ NoTransfer \in Transfer /\ NoChange \in [Accounts -> Int]
<1>. USE TransfersAssumption
<1>1. (CHOOSE a \in Accounts : TRUE) \in Accounts /\ (CHOOSE k \in Keys : TRUE) \in Keys
  OBVIOUS
<1>2. NoTransfer \in Transfer
  BY <1>1 DEF NoTransfer, Transfer, Destinations, Amount, Statuses
<1>3. NoChange \in [Accounts -> Int]
  BY DEF NoChange
<1>. QED
  BY <1>1, <1>2, <1>3 DEF Idle, Session, Operations, Steps, Crashes

\* Posting keeps balance changes integers.
LEMMA PostTyped ==
  ASSUME NEW d \in [Accounts -> Int], NEW src, NEW dst, NEW m \in Int
  PROVE  Post(d, src, dst, m) \in [Accounts -> Int]
BY DEF Post

LEMMA ReleasedTyped ==
  ASSUME lock \in [Accounts -> Sessions \cup {None}], NEW s \in Sessions
  PROVE  Released(s) \in [Accounts -> Sessions \cup {None}]
BY DEF Released

\* A session that goes from one well-formed record to another, while committed
\* rows only get more, leaves everything typed.
LEMMA SessionStep ==
  ASSUME TypeOK, RowsStay, NEW s \in Sessions, NEW w \in Session,
         ses' = [ses EXCEPT ![s] = w],
         w.op \in {"approve", "reverse", "job"} => transfers'[w.key] # None,
         \A k \in w.todo : transfers'[k] # None,
         \A k \in Keys : transfers[k] # None => transfers'[k] # None
  PROVE  ses' \in [Sessions -> Session] /\ RowsStay'
<1>1. ses' \in [Sessions -> Session]
  BY DEF TypeOK
<1>2. ASSUME NEW t \in Sessions
      PROVE  /\ ses'[t].op \in {"approve", "reverse", "job"} => transfers'[ses'[t].key] # None
             /\ \A k \in ses'[t].todo : transfers'[k] # None
  <2>1. CASE t = s
    <3>1. ses'[t] = w
      BY <2>1 DEF TypeOK
    <3>. QED
      BY <3>1
  <2>2. CASE t # s
    <3>1. ses'[t] = ses[t]
      BY <2>2 DEF TypeOK
    <3>2. ses[t].key \in Keys /\ ses[t].todo \subseteq Keys
      BY DEF TypeOK, Session
    <3>. QED
      BY <3>1, <3>2 DEF RowsStay
  <2>. QED
    BY <2>1, <2>2
<1>. QED
  BY <1>1, <1>2 DEF RowsStay

\* A step that only changes the session's record and the locks.
LEMMA LocalStep ==
  ASSUME TypeOK, RowsStay, NEW s \in Sessions, NEW w \in Session,
         ses' = [ses EXCEPT ![s] = w],
         w.op \in {"approve", "reverse", "job"} => transfers[w.key] # None,
         \A k \in w.todo : transfers[k] # None,
         lock' \in [Accounts -> Sessions \cup {None}],
         UNCHANGED data
  PROVE  TypeOK' /\ RowsStay'
<1>1. transfers' = transfers
  BY DEF data
<1>2. ses' \in [Sessions -> Session] /\ RowsStay'
  BY <1>1, SessionStep
<1>. QED
  BY <1>2 DEF TypeOK, data

LEMMA AbandonTyped ==
  ASSUME TypeOK, RowsStay, NEW s \in Sessions, NEW why \in Crashes, Abandon(s, why)
  PROVE  TypeOK' /\ RowsStay'
<1>. DEFINE w == [Idle EXCEPT !.crash = why]
<1>1. w \in Session /\ w.op = "none" /\ w.todo = {}
  BY IdleTyped DEF Session, Idle
<1>2. ses' = [ses EXCEPT ![s] = w] /\ lock' \in [Accounts -> Sessions \cup {None}] /\ UNCHANGED data
  BY ReleasedTyped DEF Abandon, TypeOK
<1>. HIDE DEF w
<1>. QED
  BY <1>1, <1>2, LocalStep

\* The session moves to its next statement and may take a lock.
LEMMA GotoTyped ==
  ASSUME TypeOK, RowsStay, NEW s \in Sessions, NEW pc \in Steps, Goto(s, pc),
         lock' \in [Accounts -> Sessions \cup {None}], UNCHANGED data
  PROVE  TypeOK' /\ RowsStay'
<1>. DEFINE w == [ses[s] EXCEPT !.pc = pc]
<1>1. ses[s] \in Session
  BY DEF TypeOK
<1>2. w \in Session /\ w.op = ses[s].op /\ w.key = ses[s].key /\ w.todo = ses[s].todo
  BY <1>1 DEF Session
<1>3. ses' = [ses EXCEPT ![s] = w]
  BY <1>1 DEF Goto, TypeOK
<1>4. /\ w.op \in {"approve", "reverse", "job"} => transfers[w.key] # None
      /\ \A k \in w.todo : transfers[k] # None
  BY <1>2 DEF RowsStay
<1>. HIDE DEF w
<1>. QED
  BY <1>2, <1>3, <1>4, LocalStep

LEMMA TakeTyped ==
  ASSUME TypeOK, NEW s \in Sessions, NEW a \in Accounts, Take(s, a)
  PROVE  lock' \in [Accounts -> Sessions \cup {None}]
BY DEF TypeOK, Take

\* execute_transfer keeps everything typed.
LEMMA ExecuteTyped ==
  ASSUME TypeOK, RowsStay, NEW s \in Sessions,
         \/ \E k \in Keys, q \in Requests : Execute(s, k, q)
         \/ OpenEvaluation(s) \/ (\E v \in Verdicts : Decide(s, v)) \/ RecordBlocked(s)
         \/ Begin(s) \/ LockSource(s) \/ LockDestination(s) \/ CheckLimits(s) \/ InsertTransfer(s)
  PROVE  TypeOK' /\ RowsStay'
<1>. USE TransfersAssumption
<1>s. /\ ses[s] \in Session /\ ses[s].row \in Transfer /\ ses[s].key \in Keys
      /\ ses[s].row.src \in Accounts /\ ses[s].row.amt \in Nat
      /\ ses[s].writes \in [Keys -> Transfer \cup {None}] /\ ses[s].delta \in [Accounts -> Int]
      /\ ses[s].todo \subseteq Keys
  BY DEF TypeOK, Session, Transfer, Amount
<1>i. Idle \in Session /\ Idle.todo = {} /\ Idle.op = "none"
  BY IdleTyped DEF Idle
<1>1. ASSUME NEW k \in Keys, NEW q \in Requests, Execute(s, k, q)
      PROVE  TypeOK' /\ RowsStay'
  <2>. DEFINE r == [src |-> q.src, dst |-> q.dst, amt |-> q.amt, scheduled |-> q.scheduled,
                    status |-> "PROCESSING", verdict |-> "ALLOW"]
              w == [Idle EXCEPT !.op = "execute", !.pc = "evaluate", !.key = k, !.row = r]
  <2>1. r \in Transfer
    BY DEF Request, Transfer, Statuses
  <2>2. w \in Session /\ w.op = "execute" /\ w.todo = {}
    BY <1>i, <2>1 DEF Session, Operations, Steps, Idle
  <2>3. ses' = [ses EXCEPT ![s] = w] /\ UNCHANGED data
           /\ lock' \in [Accounts -> Sessions \cup {None}]
    BY <1>1 DEF Execute, TypeOK
  <2>. HIDE DEF w
  <2>. QED
    BY <2>2, <2>3, LocalStep
<1>2. CASE OpenEvaluation(s)
  <2>1. Goto(s, "decide") /\ transfers' = transfers
    BY <1>2 DEF OpenEvaluation
  <2>. DEFINE w == [ses[s] EXCEPT !.pc = "decide"]
  <2>2. w \in Session /\ w.op = "execute" /\ w.todo = ses[s].todo
    BY <1>s, <1>2 DEF Session, Steps, OpenEvaluation, At
  <2>3. ses' = [ses EXCEPT ![s] = w]
    BY <2>1, <1>s DEF Goto, TypeOK
  <2>4. evaluation' \in [Keys -> Evaluation]
    BY <1>2, <1>s DEF OpenEvaluation, TypeOK, Evaluation
  <2>5. \A k \in w.todo : transfers'[k] # None
    BY <2>1, <2>2 DEF RowsStay
  <2>. HIDE DEF w
  <2>6. ses' \in [Sessions -> Session] /\ RowsStay'
    BY <2>1, <2>2, <2>3, <2>5, SessionStep
  <2>. QED
    BY <2>4, <2>6, <1>2 DEF TypeOK, OpenEvaluation
<1>3. ASSUME NEW v \in Verdicts, Decide(s, v)
      PROVE  TypeOK' /\ RowsStay'
  <2>. DEFINE w == CASE v \in {"ALLOW", "REVIEW"} -> [ses[s] EXCEPT !.pc = "begin", !.row.verdict = v]
                     [] v = "BLOCK" -> [ses[s] EXCEPT !.pc = "block", !.row.verdict = v]
                     [] v = "CHALLENGE" -> Idle
  <2>1. v \in {"ALLOW", "REVIEW", "BLOCK", "CHALLENGE"}
    OBVIOUS
  <2>2. ASSUME v # "CHALLENGE" PROVE [ses[s].row EXCEPT !.verdict = v] \in Transfer
    BY <1>s, <2>1, <2>2 DEF Transfer
  <2>3. w \in Session /\ w.op \in {"execute", "none"} /\ (w.todo = ses[s].todo \/ w.todo = {})
    <3>1. CASE v = "CHALLENGE"
      BY <3>1, <1>i
    <3>2. CASE v # "CHALLENGE"
      <4>1. ses[s].op = "execute"
        BY <1>3 DEF Decide, At
      <4>. QED
        BY <3>2, <2>1, <2>2, <1>s, <4>1 DEF Session, Steps
    <3>. QED
      BY <3>1, <3>2
  <2>4. ses' = [ses EXCEPT ![s] = w] /\ transfers' = transfers
    BY <1>3, <1>s DEF Decide, TypeOK
  <2>5. evaluation' \in [Keys -> Evaluation]
    <3>1. evaluation \in [Keys -> Evaluation]
      BY DEF TypeOK
    <3>2. [by |-> None, review |-> v = "REVIEW"] \in Evaluation
      BY DEF Evaluation
    <3>3. \/ evaluation' = evaluation
          \/ evaluation' = [evaluation EXCEPT ![ses[s].key] =
                               [by |-> None, review |-> v = "REVIEW"]]
      BY <1>3 DEF Decide
    <3>. QED
      BY <3>1, <3>2, <3>3, <1>s
  <2>6. \A k \in w.todo : transfers'[k] # None
    BY <2>3, <2>4 DEF RowsStay
  <2>. HIDE DEF w
  <2>7. ses' \in [Sessions -> Session] /\ RowsStay'
    BY <2>3, <2>4, <2>6, SessionStep
  <2>. QED
    BY <2>5, <2>7, <1>3 DEF TypeOK, Decide
<1>4. CASE RecordBlocked(s)
  <2>. DEFINE why == IF transfers[ses[s].key] = None THEN "none" ELSE "DuplicateKey"
              w == [Idle EXCEPT !.crash = why]
  <2>1. w \in Session /\ w.op = "none" /\ w.todo = {}
    BY <1>i DEF Session, Idle, Crashes
  <2>2. ses' = [ses EXCEPT ![s] = w]
    BY <1>4 DEF RecordBlocked
  <2>3. [ses[s].row EXCEPT !.status = "FAILED"] \in Transfer
    BY <1>s DEF Transfer, Statuses
  <2>4. /\ transfers' \in [Keys -> Transfer \cup {None}]
        /\ \A k \in Keys : transfers[k] # None => transfers'[k] # None
    BY <1>4, <2>3, <1>s DEF RecordBlocked, TypeOK
  <2>. HIDE DEF w
  <2>5. ses' \in [Sessions -> Session] /\ RowsStay'
    BY <2>1, <2>2, <2>4, SessionStep
  <2>. QED
    BY <2>4, <2>5, <1>4 DEF TypeOK, RecordBlocked
<1>5. CASE Begin(s)
  <2>1. "none" \in Crashes /\ "lockSrc" \in Steps
    BY DEF Crashes, Steps
  <2>2. CASE Abandon(s, "none")
    BY <2>1, <2>2, AbandonTyped
  <2>3. CASE Goto(s, "lockSrc") /\ UNCHANGED <<data, lock>>
    <3>1. lock' \in [Accounts -> Sessions \cup {None}]
      BY <2>3 DEF TypeOK
    <3>. QED
      BY <2>1, <2>3, <3>1, GotoTyped
  <2>. QED
    BY <1>5, <2>2, <2>3 DEF Begin
<1>6. CASE LockSource(s)
  <2>1. "none" \in Crashes /\ "lockDst" \in Steps /\ "check" \in Steps
    BY DEF Crashes, Steps
  <2>2. CASE Abandon(s, "none")
    BY <2>1, <2>2, AbandonTyped
  <2>3. ASSUME NEW pc \in {"lockDst", "check"}, Take(s, ses[s].row.src), Goto(s, pc), UNCHANGED data
        PROVE  TypeOK' /\ RowsStay'
    BY <2>1, <2>3, <1>s, TakeTyped, GotoTyped
  <2>. QED
    BY <1>6, <2>2, <2>3 DEF LockSource
<1>7. CASE LockDestination(s)
  <2>1. "none" \in Crashes /\ "check" \in Steps
    BY DEF Crashes, Steps
  <2>2. CASE Abandon(s, "none")
    BY <2>1, <2>2, AbandonTyped
  <2>3. CASE Take(s, ses[s].row.dst) /\ Goto(s, "check") /\ UNCHANGED data
    <3>1. lock' \in [Accounts -> Sessions \cup {None}]
      BY <2>3 DEF Take, TypeOK
    <3>. QED
      BY <2>1, <2>3, <3>1, GotoTyped
  <2>. QED
    BY <1>7, <2>2, <2>3 DEF LockDestination
<1>8. CASE CheckLimits(s)
  <2>1. "none" \in Crashes
    BY DEF Crashes
  <2>2. CASE Abandon(s, "none")
    BY <2>1, <2>2, AbandonTyped
  <2>3. CASE ~Abandon(s, "none")
    <3>. DEFINE st == IF ReviewFlag(ses[s].key) THEN "UNDER_REVIEW"
                      ELSE IF ses[s].row.scheduled THEN "PENDING" ELSE "COMPLETED"
                w == [ses[s] EXCEPT !.pc = "insert", !.row.status = st]
    <3>1. ses' = [ses EXCEPT ![s] = w] /\ UNCHANGED <<data, lock>>
      BY <1>8, <2>3, <1>s DEF CheckLimits, TypeOK
    <3>2. [ses[s].row EXCEPT !.status = st] \in Transfer
      BY <1>s DEF Transfer, Statuses
    <3>3. w \in Session /\ w.op = "execute" /\ w.todo = ses[s].todo
      BY <1>8, <3>2, <1>s DEF Session, Steps, CheckLimits, At
    <3>4. (\A k \in w.todo : transfers[k] # None) /\ lock' \in [Accounts -> Sessions \cup {None}]
      BY <3>1, <3>3 DEF RowsStay, TypeOK
    <3>. HIDE DEF w
    <3>. QED
      BY <3>1, <3>3, <3>4, LocalStep
  <2>. QED
    BY <2>2, <2>3
<1>9. CASE InsertTransfer(s)
  <2>1. "DuplicateKey" \in Crashes
    BY DEF Crashes
  <2>2. CASE Abandon(s, "DuplicateKey")
    BY <2>1, <2>2, AbandonTyped
  <2>3. CASE ~Abandon(s, "DuplicateKey")
    <3>. DEFINE r == ses[s].row
                d == IF r.status = "COMPLETED" THEN Post(ses[s].delta, r.src, r.dst, r.amt)
                                               ELSE ses[s].delta
                w == [ses[s] EXCEPT !.pc = "commit", !.held = {ses[s].key},
                                    !.writes[ses[s].key] = r, !.delta = d]
    <3>1. ses' = [ses EXCEPT ![s] = w] /\ UNCHANGED <<data, lock>>
      BY <1>9, <2>3, <1>s DEF InsertTransfer, TypeOK
    <3>2. d \in [Accounts -> Int]
      BY <1>s, PostTyped
    <3>3. [ses[s].writes EXCEPT ![ses[s].key] = r] \in [Keys -> Transfer \cup {None}]
      BY <1>s
    <3>. HIDE DEF d
    <3>4. w \in Session /\ w.op = "execute" /\ w.todo = ses[s].todo
      BY <1>9, <3>2, <3>3, <1>s DEF Session, Steps, InsertTransfer, At
    <3>5. (\A k \in w.todo : transfers[k] # None) /\ lock' \in [Accounts -> Sessions \cup {None}]
      BY <3>1, <3>4 DEF RowsStay, TypeOK
    <3>. HIDE DEF w
    <3>. QED
      BY <3>1, <3>4, <3>5, LocalStep
  <2>. QED
    BY <2>2, <2>3
<1>. QED
  BY <1>1, <1>2, <1>3, <1>4, <1>5, <1>6, <1>7, <1>8, <1>9

\* So do approve_transfer, reverse_transfer, the job, the closing, and the end.
LEMMA FetchTyped ==
  ASSUME TypeOK, RowsStay, NEW s \in Sessions, NEW k \in Keys, NEW op \in Operations,
         NEW st, NEW pc \in Steps, Fetch(s, k, op, st, pc)
  PROVE  TypeOK' /\ RowsStay'
<1>. DEFINE w == [Idle EXCEPT !.op = op, !.pc = pc, !.key = k, !.row = transfers[k]]
<1>1. transfers[k] \in Transfer /\ transfers[k] # None
  BY DEF Fetch, TypeOK
<1>2. w \in Session /\ w.todo = {} /\ w.key = k
  BY <1>1, IdleTyped DEF Session, Idle
<1>3. ses' = [ses EXCEPT ![s] = w] /\ UNCHANGED <<data, lock>>
  BY DEF Fetch
<1>4. lock' \in [Accounts -> Sessions \cup {None}]
  BY <1>3 DEF TypeOK
<1>. HIDE DEF w
<1>. QED
  BY <1>1, <1>2, <1>3, <1>4, LocalStep

LEMMA ReviewTyped ==
  ASSUME TypeOK, RowsStay, NEW s \in Sessions,
         \/ \E k \in Keys : Approve(s, k) \/ Reverse(s, k)
         \/ Claim(s) \/ ApproveLock(s) \/ ApproveSettle(s) \/ Undo(s) \/ PostMirror(s)
  PROVE  TypeOK' /\ RowsStay'
<1>. USE TransfersAssumption
<1>s. /\ ses[s] \in Session /\ ses[s].row \in Transfer /\ ses[s].key \in Keys
      /\ ses[s].row.src \in Accounts /\ ses[s].row.amt \in Nat
      /\ ses[s].writes \in [Keys -> Transfer \cup {None}] /\ ses[s].delta \in [Accounts -> Int]
      /\ ses[s].todo \subseteq Keys
  BY DEF TypeOK, Session, Transfer, Amount
<1>l. \A k \in ses[s].todo : transfers[k] # None
  BY DEF RowsStay
<1>1. ASSUME NEW k \in Keys, Approve(s, k) \/ Reverse(s, k)
      PROVE  TypeOK' /\ RowsStay'
  <2>1. {"approve", "reverse"} \subseteq Operations /\ {"claim", "undo"} \subseteq Steps
    BY DEF Operations, Steps
  <2>. QED
    BY <1>1, <2>1, FetchTyped DEF Approve, Reverse
<1>2. CASE Claim(s)
  <2>. DEFINE k == ses[s].key
              r == [transfers[k] EXCEPT !.status = "PROCESSING"]
              w == [ses[s] EXCEPT !.pc = "approveLock", !.held = {k}, !.row = r, !.writes[k] = r]
  <2>1. ses[s].op = "approve" /\ transfers[k] # None
    BY <1>2 DEF Claim, At, RowsStay
  <2>2. r \in Transfer
    BY <2>1, <1>s DEF TypeOK, Transfer, Statuses
  <2>3. [ses[s].writes EXCEPT ![k] = r] \in [Keys -> Transfer \cup {None}]
    BY <2>2, <1>s
  <2>4. ses' = [ses EXCEPT ![s] = w] /\ UNCHANGED <<data, lock>>
    BY <1>2, <1>s DEF Claim, TypeOK
  <2>. HIDE DEF r
  <2>5. w \in Session /\ w.key = k /\ w.todo = ses[s].todo
    BY <2>2, <2>3, <1>s DEF Session, Steps
  <2>6. lock' \in [Accounts -> Sessions \cup {None}]
    BY <2>4 DEF TypeOK
  <2>. HIDE DEF w
  <2>. QED
    BY <2>1, <2>4, <2>5, <2>6, <1>l, LocalStep
<1>3. CASE ApproveLock(s)
  <2>1. "approveSettle" \in Steps
    BY DEF Steps
  <2>. QED
    BY <1>3, <2>1, <1>s, TakeTyped, GotoTyped DEF ApproveLock
<1>4. CASE ApproveSettle(s)
  <2>1. "IllegalTransition" \in Crashes
    BY DEF Crashes
  <2>2. CASE Abandon(s, "IllegalTransition")
    BY <2>1, <2>2, AbandonTyped
  <2>3. CASE ~Abandon(s, "IllegalTransition")
    <3>. DEFINE r == [ses[s].row EXCEPT !.status = "FAILED"]
                w == [ses[s] EXCEPT !.pc = "commit", !.writes[ses[s].key] = r]
    <3>1. ses' = [ses EXCEPT ![s] = w] /\ UNCHANGED <<data, lock>> /\ ses[s].op = "approve"
      BY <1>4, <2>3, <1>s DEF ApproveSettle, At, TypeOK
    <3>2. r \in Transfer
      BY <1>s DEF Transfer, Statuses
    <3>3. [ses[s].writes EXCEPT ![ses[s].key] = r] \in [Keys -> Transfer \cup {None}]
      BY <3>2, <1>s
    <3>. HIDE DEF r
    <3>4. w \in Session /\ w.key = ses[s].key /\ w.todo = ses[s].todo /\ w.op = ses[s].op
      BY <3>3, <1>s DEF Session, Steps
    <3>5. lock' \in [Accounts -> Sessions \cup {None}] /\ transfers[w.key] # None
      BY <3>1, <3>4 DEF TypeOK, RowsStay
    <3>. HIDE DEF w
    <3>. QED
      BY <3>1, <3>4, <3>5, <1>l, LocalStep
  <2>. QED
    BY <2>2, <2>3
<1>5. CASE Undo(s)
  <2>1. "AlreadyReversed" \in Crashes /\ "mirror" \in Steps
    BY DEF Crashes, Steps
  <2>2. CASE Abandon(s, "AlreadyReversed")
    BY <2>1, <2>2, AbandonTyped
  <2>3. CASE Goto(s, "mirror") /\ UNCHANGED <<data, lock>>
    <3>1. lock' \in [Accounts -> Sessions \cup {None}]
      BY <2>3 DEF TypeOK
    <3>. QED
      BY <2>1, <2>3, <3>1, GotoTyped
  <2>. QED
    BY <1>5, <2>2, <2>3 DEF Undo
<1>6. CASE PostMirror(s)
  <2>1. "DuplicateReversal" \in Crashes
    BY DEF Crashes
  <2>2. CASE Abandon(s, "DuplicateReversal")
    BY <2>1, <2>2, AbandonTyped
  <2>3. CASE ~Abandon(s, "DuplicateReversal")
    <3>. DEFINE r == [ses[s].row EXCEPT !.status = "REVERSED"]
                d == Post(ses[s].delta, ses[s].row.dst, ses[s].row.src, ses[s].row.amt)
                w == [ses[s] EXCEPT !.pc = "commit", !.held = {ses[s].key},
                                    !.writes[ses[s].key] = r, !.delta = d]
    <3>1. ses' = [ses EXCEPT ![s] = w] /\ UNCHANGED <<data, lock>> /\ ses[s].op = "reverse"
      BY <1>6, <2>3, <1>s DEF PostMirror, At, TypeOK
    <3>2. r \in Transfer /\ d \in [Accounts -> Int]
      BY <1>s, PostTyped DEF Transfer, Statuses
    <3>3. [ses[s].writes EXCEPT ![ses[s].key] = r] \in [Keys -> Transfer \cup {None}]
      BY <3>2, <1>s
    <3>. HIDE DEF r, d
    <3>4. w \in Session /\ w.key = ses[s].key /\ w.todo = ses[s].todo /\ w.op = ses[s].op
      BY <3>2, <3>3, <1>s DEF Session, Steps
    <3>5. lock' \in [Accounts -> Sessions \cup {None}] /\ transfers[w.key] # None
      BY <3>1, <3>4 DEF TypeOK, RowsStay
    <3>. HIDE DEF w
    <3>. QED
      BY <3>1, <3>4, <3>5, <1>l, LocalStep
  <2>. QED
    BY <2>2, <2>3
<1>. QED
  BY <1>1, <1>2, <1>3, <1>4, <1>5, <1>6

LEMMA JobTyped ==
  ASSUME TypeOK, RowsStay, NEW s \in Sessions,
         \/ \E D \in SUBSET Keys, k \in Keys : StartJob(s, D, k)
         \/ SettleDue(s)
  PROVE  TypeOK' /\ RowsStay'
<1>. USE TransfersAssumption
<1>s. /\ ses[s] \in Session /\ ses[s].row \in Transfer /\ ses[s].key \in Keys
      /\ ses[s].row.src \in Accounts /\ ses[s].row.amt \in Nat
      /\ ses[s].writes \in [Keys -> Transfer \cup {None}] /\ ses[s].delta \in [Accounts -> Int]
      /\ ses[s].todo \subseteq Keys
  BY DEF TypeOK, Session, Transfer, Amount
<1>1. ASSUME NEW D \in SUBSET Keys, NEW k \in Keys, StartJob(s, D, k)
      PROVE  TypeOK' /\ RowsStay'
  <2>. DEFINE w == [Idle EXCEPT !.op = "job", !.pc = "jobLock", !.key = k, !.row = transfers[k],
                                !.todo = D \ {k}, !.held = D]
  <2>1. k \in D /\ \A n \in D : transfers[n] # None
    BY <1>1 DEF StartJob, Due
  <2>2. transfers[k] \in Transfer
    BY <2>1 DEF TypeOK
  <2>3. w \in Session /\ w.key = k /\ w.todo = D \ {k}
    BY <2>2, IdleTyped DEF Session, Operations, Steps, Idle
  <2>4. /\ ses' = [ses EXCEPT ![s] = w] /\ UNCHANGED data
        /\ lock' \in [Accounts -> Sessions \cup {None}]
    BY <1>1 DEF StartJob, TypeOK
  <2>. HIDE DEF w
  <2>. QED
    BY <2>1, <2>3, <2>4, LocalStep
<1>2. CASE SettleDue(s)
  <2>. DEFINE k == ses[s].key
              r == ses[s].row
              fails == status[r.src] # "ACTIVE" \/ Balance(s, r.src) < r.amt
              q == [r EXCEPT !.status = IF fails THEN "FAILED" ELSE "COMPLETED"]
              d == IF fails THEN ses[s].delta ELSE Post(ses[s].delta, r.src, r.dst, r.amt)
              done == [ses[s] EXCEPT !.writes[k] = q, !.delta = d]
  <2>1. q \in Transfer /\ d \in [Accounts -> Int]
    BY <1>s, PostTyped DEF Transfer, Statuses
  <2>2. [ses[s].writes EXCEPT ![k] = q] \in [Keys -> Transfer \cup {None}]
    BY <2>1, <1>s
  <2>3. /\ ses[s].op = "job" /\ UNCHANGED data
        /\ lock' \in [Accounts -> Sessions \cup {None}]
    BY <1>2, <1>s, TakeTyped DEF SettleDue, At
  <2>4. \/ ses[s].todo = {} /\ ses' = [ses EXCEPT ![s] = [done EXCEPT !.pc = "commit"]]
        \/ \E n \in ses[s].todo :
             ses' = [ses EXCEPT ![s] = [done EXCEPT !.key = n, !.row = transfers[n],
                                                    !.todo = ses[s].todo \ {n}]]
    BY <1>2 DEF SettleDue
  <2>5. transfers[k] # None /\ \A n \in ses[s].todo : transfers[n] # None
    BY <2>3 DEF RowsStay
  <2>. HIDE DEF q, d
  <2>6. done \in Session /\ done.op = "job" /\ done.key = k /\ done.todo = ses[s].todo
    BY <2>1, <2>2, <2>3, <1>s DEF Session
  <2>. HIDE DEF done
  <2>7. CASE ses[s].todo = {} /\ ses' = [ses EXCEPT ![s] = [done EXCEPT !.pc = "commit"]]
    <3>. DEFINE w == [done EXCEPT !.pc = "commit"]
    <3>1. w \in Session /\ w.key = k /\ w.todo = {}
      BY <2>6, <2>7 DEF Session, Steps
    <3>2. ses' = [ses EXCEPT ![s] = w]
      BY <2>7
    <3>. HIDE DEF w
    <3>. QED
      BY <2>3, <2>5, <3>1, <3>2, LocalStep
  <2>8. ASSUME NEW n \in ses[s].todo,
               ses' = [ses EXCEPT ![s] = [done EXCEPT !.key = n, !.row = transfers[n],
                                                      !.todo = ses[s].todo \ {n}]]
        PROVE  TypeOK' /\ RowsStay'
    <3>. DEFINE w == [done EXCEPT !.key = n, !.row = transfers[n], !.todo = ses[s].todo \ {n}]
    <3>1. transfers[n] \in Transfer
      BY <2>5, <1>s DEF TypeOK
    <3>2. w \in Session /\ w.key = n /\ w.todo = ses[s].todo \ {n}
      BY <2>6, <3>1, <1>s DEF Session
    <3>3. ses' = [ses EXCEPT ![s] = w]
      BY <2>8
    <3>. HIDE DEF w
    <3>. QED
      BY <2>3, <2>5, <3>2, <3>3, LocalStep
  <2>. QED
    BY <2>4, <2>7, <2>8
<1>. QED
  BY <1>1, <1>2

LEMMA CloseTyped ==
  ASSUME TypeOK, RowsStay, NEW s \in Sessions,
         (\E a \in Accounts : Close(s, a)) \/ LockToClose(s) \/ CheckEmpty(s)
  PROVE  TypeOK' /\ RowsStay'
<1>. USE TransfersAssumption
<1>1. ASSUME NEW a \in Accounts, Close(s, a)
      PROVE  TypeOK' /\ RowsStay'
  <2>. DEFINE w == [Idle EXCEPT !.op = "close", !.pc = "closeLock", !.row = [NoTransfer EXCEPT !.src = a]]
  <2>1. [NoTransfer EXCEPT !.src = a] \in Transfer
    BY IdleTyped DEF Transfer
  <2>2. w \in Session /\ w.op = "close" /\ w.todo = {}
    BY <2>1, IdleTyped DEF Session, Operations, Steps, Idle
  <2>3. /\ ses' = [ses EXCEPT ![s] = w] /\ UNCHANGED data
        /\ lock' \in [Accounts -> Sessions \cup {None}]
    BY <1>1 DEF Close, TypeOK
  <2>. HIDE DEF w
  <2>. QED
    BY <2>2, <2>3, LocalStep
<1>2. CASE LockToClose(s)
  <2>1. "closeCheck" \in Steps /\ ses[s].row.src \in Accounts
    BY DEF Steps, TypeOK, Session, Transfer
  <2>. QED
    BY <1>2, <2>1, TakeTyped, GotoTyped DEF LockToClose
<1>3. CASE CheckEmpty(s)
  <2>1. "NotClosable" \in Crashes /\ "commit" \in Steps
    BY DEF Crashes, Steps
  <2>2. CASE Abandon(s, "NotClosable")
    BY <2>1, <2>2, AbandonTyped
  <2>3. CASE Goto(s, "commit") /\ UNCHANGED <<data, lock>>
    <3>1. lock' \in [Accounts -> Sessions \cup {None}]
      BY <2>3 DEF TypeOK
    <3>. QED
      BY <2>1, <2>3, <3>1, GotoTyped
  <2>. QED
    BY <1>3, <2>2, <2>3 DEF CheckEmpty
<1>. QED
  BY <1>1, <1>2, <1>3

LEMMA CommitTyped ==
  ASSUME TypeOK, RowsStay, NEW s \in Sessions, Commit(s)
  PROVE  TypeOK' /\ RowsStay'
<1>. USE TransfersAssumption
<1>s. /\ ses[s] \in Session /\ ses[s].row \in Transfer /\ ses[s].key \in Keys
      /\ ses[s].row.amt \in Nat
      /\ ses[s].writes \in [Keys -> Transfer \cup {None}] /\ ses[s].delta \in [Accounts -> Int]
  BY DEF TypeOK, Session, Transfer, Amount
<1>1. /\ transfers' \in [Keys -> Transfer \cup {None}]
      /\ \A k \in Keys : transfers[k] # None => transfers'[k] # None
  BY <1>s DEF Commit, TypeOK
<1>2. bal' \in [Accounts -> Int] /\ clawback' \in [Accounts -> Nat]
  BY <1>s DEF Commit, TypeOK
<1>3. status' \in [Accounts -> {"ACTIVE", "CLOSED"}] /\ reversed' \in SUBSET Keys
  BY <1>s DEF Commit, TypeOK
<1>4. lock' \in [Accounts -> Sessions \cup {None}] /\ evaluation' \in [Keys -> Evaluation]
  BY ReleasedTyped DEF Commit, TypeOK
<1>5. ses' = [ses EXCEPT ![s] = Idle]
  BY DEF Commit
<1>6. Idle \in Session /\ Idle.op = "none" /\ Idle.todo = {}
  BY IdleTyped DEF Idle
<1>7. ses' \in [Sessions -> Session] /\ RowsStay'
  BY <1>1, <1>5, <1>6, SessionStep
<1>. QED
  BY <1>1, <1>2, <1>3, <1>4, <1>7 DEF TypeOK

\* Every step keeps everything typed.
LEMMA NextTyped ==
  ASSUME TypeOK, RowsStay, [Next]_vars
  PROVE  TypeOK' /\ RowsStay'
<1>1. CASE UNCHANGED vars
  BY <1>1 DEF vars, TypeOK, RowsStay
<1>2. ASSUME NEW s \in Sessions, Crash(s) \/ BreakDeadlock(s)
      PROVE  TypeOK' /\ RowsStay'
  <2>1. "Killed" \in Crashes /\ "none" \in Crashes
    BY DEF Crashes
  <2>. QED
    BY <1>2, <2>1, AbandonTyped DEF Crash, BreakDeadlock
<1>. QED
  BY <1>1, <1>2, ExecuteTyped, ReviewTyped, JobTyped, CloseTyped, CommitTyped DEF Next, Proceed

LEMMA InitTyped == Init => TypeOK /\ RowsStay
<1>. SUFFICES ASSUME Init PROVE TypeOK /\ RowsStay
  OBVIOUS
<1>1. Idle \in Session /\ Idle.op = "none" /\ Idle.todo = {}
  BY IdleTyped DEF Idle
<1>. QED
  BY <1>1, TransfersAssumption DEF Init, TypeOK, RowsStay, Evaluation

\* Type correctness, for every set of sessions, accounts, keys and requests: in
\* particular a row a session works on was committed and is never gone.
THEOREM TransferTypes == Spec => []TypeOK
<1>1. TypeOK /\ RowsStay /\ [Next]_vars => TypeOK' /\ RowsStay'
  BY NextTyped
<1>. QED
  BY <1>1, InitTyped, PTL DEF Spec

-----------------------------------------------------------------------------
(* No overdraft.                                                             *)

\* A session whose record is as it was stays solvent while its locks stay and
\* the accounts it locks lose nothing.
LEMMA OthersSolvent ==
  ASSUME TypeOK, TypeOK', NEW t \in Sessions, Solvent(t), ses'[t] = ses[t],
         \A a \in Accounts : lock[a] = t =>
           lock'[a] = t /\ bal'[a] + clawback'[a] >= bal[a] + clawback[a]
  PROVE  Solvent(t)'
<1>s. /\ ses[t].row.src \in Accounts /\ ses[t].row.amt \in Int
      /\ ses[t].delta \in [Accounts -> Int]
      /\ \A a \in Accounts : {bal[a], bal'[a], clawback[a], clawback'[a]} \subseteq Int
  BY DEF TypeOK, Session, Transfer, Amount
<1>1. ASSUME NEW a \in Accounts, Covered(t, a) PROVE Covered(t, a)'
  BY <1>1, <1>s DEF Covered
<1>2. ASSUME ses[t].op = "execute", ses[t].pc \in {"lockDst", "check", "insert"}
      PROVE  lock'[ses[t].row.src] = t
  BY <1>2, <1>s DEF Solvent
<1>3. ASSUME ses[t].op = "execute", ses[t].pc = "insert", ses[t].row.status = "COMPLETED"
      PROVE  bal'[ses[t].row.src] + clawback'[ses[t].row.src] >= ses[t].row.amt
  BY <1>3, <1>s DEF Solvent, At
<1>. QED
  BY <1>1, <1>2, <1>3 DEF Solvent, At

\* A step of s that commits nothing.
LEMMA SolventStep ==
  ASSUME TypeOK, TypeOK', \A t \in Sessions : Solvent(t), NEW s \in Sessions,
         \A t \in Sessions \ {s} : ses'[t] = ses[t],
         \A t \in Sessions \ {s}, a \in Accounts : lock[a] = t => lock'[a] = t,
         UNCHANGED <<bal, clawback>>, Solvent(s)'
  PROVE  \A t \in Sessions : Solvent(t)'
<1>1. ASSUME NEW t \in Sessions, t # s PROVE Solvent(t)'
  <2>1. \A a \in Accounts : lock[a] = t =>
          lock'[a] = t /\ bal'[a] + clawback'[a] >= bal[a] + clawback[a]
    BY <1>1 DEF TypeOK
  <2>. QED
    BY <1>1, <2>1, OthersSolvent
<1>. QED
  BY <1>1

\* Without balance changes of its own a session is solvent, if it locks what it
\* has checked.
LEMMA QuietSolvent ==
  ASSUME TypeOK', NEW s \in Sessions, ses'[s].delta = NoChange,
         ses'[s].op = "reverse" => ses'[s].pc # "commit",
         ses'[s].op = "execute" /\ ses'[s].pc \in {"lockDst", "check", "insert"} =>
           lock'[ses'[s].row.src] = s,
         ses'[s].op = "execute" /\ ses'[s].pc = "insert" =>
           bal'[ses'[s].row.src] + clawback'[ses'[s].row.src] >= ses'[s].row.amt
  PROVE  Solvent(s)'
<1>1. \A a \in Accounts : Covered(s, a)'
  BY DEF Covered, NoChange
<1>. QED
  BY <1>1 DEF Solvent, At

\* Locks of the others outlive what s does to its own.
LEMMA LocksStay ==
  ASSUME TypeOK, NEW s \in Sessions, NEW t \in Sessions \ {s}, NEW a \in Accounts, lock[a] = t
  PROVE  /\ Released(s)[a] = t
         /\ \A b : Free(s, b) /\ Take(s, b) => lock'[a] = t
BY TransfersAssumption DEF TypeOK, Released, Free, Take

LEMMA AbandonSolvent ==
  ASSUME TypeOK, TypeOK', \A t \in Sessions : Solvent(t), NEW s \in Sessions, NEW why,
         Abandon(s, why)
  PROVE  \A t \in Sessions : Solvent(t)'
<1>1. /\ \A t \in Sessions \ {s} : ses'[t] = ses[t]
      /\ \A t \in Sessions \ {s}, a \in Accounts : lock[a] = t => lock'[a] = t
      /\ UNCHANGED <<bal, clawback>>
  BY LocksStay DEF Abandon, data, TypeOK
<1>2. ses'[s].delta = NoChange /\ ses'[s].op = "none"
  BY DEF Abandon, Idle, TypeOK
<1>3. Solvent(s)'
  BY <1>2, QuietSolvent
<1>. QED
  BY <1>1, <1>3, SolventStep

\* Before its transaction posts, a session has changed no balance.
LEMMA EarlyQuiet ==
  ASSUME NEW s \in Sessions, Solvent(s), ses[s].op # "job", ses[s].pc # "commit"
  PROVE  ses[s].delta = NoChange
BY DEF Solvent

LEMMA GotoSolvent ==
  ASSUME TypeOK, TypeOK', \A t \in Sessions : Solvent(t), NEW s \in Sessions, NEW pc,
         Goto(s, pc), ses[s].op # "job", ses[s].pc # "commit",
         UNCHANGED <<bal, clawback>>,
         \A t \in Sessions \ {s}, a \in Accounts : lock[a] = t => lock'[a] = t,
         pc # "insert", ses[s].op = "reverse" => pc # "commit",
         ses[s].op = "execute" /\ pc \in {"lockDst", "check"} => lock'[ses[s].row.src] = s
  PROVE  \A t \in Sessions : Solvent(t)'
<1>1. /\ \A t \in Sessions \ {s} : ses'[t] = ses[t]
      /\ ses'[s] = [ses[s] EXCEPT !.pc = pc]
  BY DEF Goto, TypeOK
<1>2. ses'[s].delta = NoChange
  BY <1>1, EarlyQuiet DEF TypeOK, Session
<1>3. ses'[s].op = ses[s].op /\ ses'[s].row = ses[s].row /\ ses'[s].pc = pc
  BY <1>1 DEF TypeOK, Session
<1>4. Solvent(s)'
  BY <1>2, <1>3, QuietSolvent
<1>. QED
  BY <1>1, <1>4, SolventStep

\* A step of s after which its record is w, with no balance changed and no lock
\* of another session touched, keeps all solvent if w is quiet.
LEMMA QuietStep ==
  ASSUME TypeOK, TypeOK', \A t \in Sessions : Solvent(t), NEW s \in Sessions, NEW w,
         ses' = [ses EXCEPT ![s] = w], UNCHANGED <<data, lock>>,
         w.delta = NoChange, w.op = "reverse" => w.pc # "commit",
         w.op = "execute" /\ w.pc \in {"lockDst", "check", "insert"} => lock[w.row.src] = s,
         w.op = "execute" /\ w.pc = "insert" =>
           bal[w.row.src] + clawback[w.row.src] >= w.row.amt
  PROVE  \A t \in Sessions : Solvent(t)'
<1>1. ses'[s] = w /\ \A t \in Sessions \ {s} : ses'[t] = ses[t]
  BY DEF TypeOK
<1>2. UNCHANGED <<bal, clawback>> /\ lock' = lock
  BY DEF data
<1>3. Solvent(s)'
  BY <1>1, <1>2, QuietSolvent
<1>. QED
  BY <1>1, <1>2, <1>3, SolventStep

\* The transaction debits what its own account lock guarantees.
LEMMA DebitCovered ==
  ASSUME TypeOK, NEW s \in Sessions, NEW src \in Accounts, NEW dst, NEW m \in Nat,
         lock[src] = s, bal[src] + clawback[src] + ses[s].delta[src] >= m,
         \A a \in Accounts : Covered(s, a),
         NEW a \in Accounts
  PROVE  LET d == Post(ses[s].delta, src, dst, m)
         IN d[a] >= 0 \/ (lock[a] = s /\ bal[a] + clawback[a] + d[a] >= 0)
<1>1. ses[s].delta[a] \in Int /\ bal[a] \in Int /\ clawback[a] \in Int
  BY DEF TypeOK, Session
<1>2. Post(ses[s].delta, src, dst, m)[a] =
        ses[s].delta[a] - (IF a = src THEN m ELSE 0) + (IF a = dst THEN m ELSE 0)
  BY DEF Post
<1>3. CASE a = src
  BY <1>1, <1>2, <1>3
<1>4. CASE a # src
  BY <1>1, <1>2, <1>4 DEF Covered
<1>. QED
  BY <1>3, <1>4

\* execute_transfer: what it inserts as COMPLETED was checked under the lock.
LEMMA ExecuteSolvent ==
  ASSUME TypeOK, TypeOK', \A t \in Sessions : Solvent(t), NEW s \in Sessions,
         \/ \E k \in Keys, q \in Requests : Execute(s, k, q)
         \/ OpenEvaluation(s) \/ (\E v \in Verdicts : Decide(s, v)) \/ RecordBlocked(s)
         \/ Begin(s) \/ LockSource(s) \/ LockDestination(s) \/ CheckLimits(s) \/ InsertTransfer(s)
  PROVE  \A t \in Sessions : Solvent(t)'
<1>s. /\ ses[s] \in Session /\ ses[s].row \in Transfer
      /\ ses[s].row.src \in Accounts /\ ses[s].row.amt \in Nat
      /\ ses[s].delta \in [Accounts -> Int]
  BY DEF TypeOK, Session, Transfer, Amount
<1>l. \A t \in Sessions \ {s}, a \in Accounts : lock' = lock /\ lock[a] = t => lock'[a] = t
  OBVIOUS
<1>1. ASSUME NEW k \in Keys, NEW q \in Requests, Execute(s, k, q)
      PROVE  \A t \in Sessions : Solvent(t)'
  <2>. DEFINE w == [Idle EXCEPT !.op = "execute", !.pc = "evaluate", !.key = k,
                      !.row = [src |-> q.src, dst |-> q.dst, amt |-> q.amt,
                               scheduled |-> q.scheduled, status |-> "PROCESSING",
                               verdict |-> "ALLOW"]]
  <2>1. w.delta = NoChange /\ w.op = "execute" /\ w.pc = "evaluate"
    BY DEF Idle
  <2>2. ses' = [ses EXCEPT ![s] = w] /\ UNCHANGED <<data, lock>>
    BY <1>1 DEF Execute
  <2>. HIDE DEF w
  <2>. QED
    BY <2>1, <2>2, QuietStep
<1>2. CASE OpenEvaluation(s)
  BY <1>2, <1>l, GotoSolvent DEF OpenEvaluation, At
<1>3. ASSUME NEW v \in Verdicts, Decide(s, v)
      PROVE  \A t \in Sessions : Solvent(t)'
  <2>1. v \in {"ALLOW", "REVIEW", "BLOCK", "CHALLENGE"}
    BY TransfersAssumption
  <2>2. ses[s].delta = NoChange /\ ses[s].op = "execute"
    BY <1>3, EarlyQuiet DEF Decide, At
  <2>3. ses'[s].delta = NoChange /\ ses'[s].pc \in {"begin", "block", "idle"}
    <3>1. CASE v = "CHALLENGE"
      BY <3>1, <1>3 DEF Decide, Idle, TypeOK
    <3>2. CASE v # "CHALLENGE"
      BY <3>2, <2>1, <2>2, <1>3, <1>s DEF Decide, TypeOK, Session
    <3>. QED
      BY <3>1, <3>2
  <2>4. UNCHANGED <<bal, clawback, lock>> /\ \A t \in Sessions \ {s} : ses'[t] = ses[t]
    BY <1>3 DEF Decide, TypeOK
  <2>5. Solvent(s)'
    BY <2>3, QuietSolvent
  <2>. QED
    BY <2>4, <2>5, SolventStep
<1>4. CASE RecordBlocked(s)
  <2>1. ses'[s].delta = NoChange /\ ses'[s].op = "none"
    BY <1>4 DEF RecordBlocked, Idle, TypeOK
  <2>2. UNCHANGED <<bal, clawback, lock>> /\ \A t \in Sessions \ {s} : ses'[t] = ses[t]
    BY <1>4 DEF RecordBlocked, TypeOK
  <2>3. Solvent(s)'
    BY <2>1, QuietSolvent
  <2>. QED
    BY <2>2, <2>3, SolventStep
<1>5. CASE Begin(s)
  <2>1. CASE Abandon(s, "none")
    BY <2>1, AbandonSolvent
  <2>2. CASE Goto(s, "lockSrc") /\ UNCHANGED <<data, lock>>
    BY <1>5, <2>2, <1>l, GotoSolvent DEF Begin, At, data
  <2>. QED
    BY <1>5, <2>1, <2>2 DEF Begin
<1>6. CASE LockSource(s)
  <2>1. CASE Abandon(s, "none")
    BY <2>1, AbandonSolvent
  <2>2. ASSUME NEW pc \in {"lockDst", "check"}, Take(s, ses[s].row.src), Goto(s, pc), UNCHANGED data
        PROVE  \A t \in Sessions : Solvent(t)'
    <3>1. ses[s].op = "execute" /\ ses[s].pc = "lockSrc" /\ Free(s, ses[s].row.src)
      BY <1>6 DEF LockSource, At
    <3>2. \A t \in Sessions \ {s}, a \in Accounts : lock[a] = t => lock'[a] = t
      BY <2>2, <3>1, LocksStay
    <3>3. lock'[ses[s].row.src] = s
      BY <2>2, <1>s DEF Take, TypeOK
    <3>. QED
      BY <2>2, <3>1, <3>2, <3>3, GotoSolvent DEF data
  <2>. QED
    BY <1>6, <2>1, <2>2 DEF LockSource
<1>7. CASE LockDestination(s)
  <2>1. CASE Abandon(s, "none")
    BY <2>1, AbandonSolvent
  <2>2. CASE Take(s, ses[s].row.dst) /\ Goto(s, "check") /\ UNCHANGED data
    <3>1. ses[s].op = "execute" /\ ses[s].pc = "lockDst" /\ Free(s, ses[s].row.dst)
      BY <1>7 DEF LockDestination, At
    <3>2. \A t \in Sessions \ {s}, a \in Accounts : lock[a] = t => lock'[a] = t
      BY <2>2, <3>1, LocksStay
    <3>3. lock'[ses[s].row.src] = s
      <4>1. lock[ses[s].row.src] = s
        BY <3>1 DEF Solvent
      <4>. QED
        BY <4>1, <2>2, <1>s DEF Take, TypeOK
    <3>. QED
      BY <2>2, <3>1, <3>2, <3>3, GotoSolvent DEF data
  <2>. QED
    BY <1>7, <2>1, <2>2 DEF LockDestination
<1>8. CASE CheckLimits(s)
  <2>1. CASE Abandon(s, "none")
    BY <2>1, AbandonSolvent
  <2>2. CASE ~Abandon(s, "none")
    <3>. DEFINE st == IF ReviewFlag(ses[s].key) THEN "UNDER_REVIEW"
                      ELSE IF ses[s].row.scheduled THEN "PENDING" ELSE "COMPLETED"
                w == [ses[s] EXCEPT !.pc = "insert", !.row.status = st]
    <3>1. ses' = [ses EXCEPT ![s] = w] /\ UNCHANGED <<data, lock>>
      BY <1>8, <2>2, <1>s DEF CheckLimits, TypeOK
    <3>2. ~(Balance(s, ses[s].row.src) < ses[s].row.amt)
      BY <1>8, <2>2 DEF CheckLimits
    <3>3. ses[s].op = "execute" /\ ses[s].pc = "check"
      BY <1>8 DEF CheckLimits, At
    <3>4. ses[s].delta = NoChange /\ lock[ses[s].row.src] = s
      BY <3>3, EarlyQuiet DEF Solvent
    <3>5. bal[ses[s].row.src] + clawback[ses[s].row.src] >= ses[s].row.amt
      <4>1. bal[ses[s].row.src] \in Int /\ clawback[ses[s].row.src] \in Nat
        BY <1>s DEF TypeOK
      <4>2. Balance(s, ses[s].row.src) = bal[ses[s].row.src]
        BY <3>4, <4>1, <1>s DEF Balance, NoChange
      <4>. QED
        BY <3>2, <4>1, <4>2, <1>s
    <3>6. /\ w.delta = NoChange /\ w.op = "execute"
          /\ w.row.src = ses[s].row.src /\ w.row.amt = ses[s].row.amt
      BY <3>3, <3>4, <1>s DEF Session, Transfer
    <3>. HIDE DEF w
    <3>. QED
      BY <3>1, <3>4, <3>5, <3>6, QuietStep
  <2>. QED
    BY <2>1, <2>2
<1>9. CASE InsertTransfer(s)
  <2>1. CASE Abandon(s, "DuplicateKey")
    BY <2>1, AbandonSolvent
  <2>2. CASE ~Abandon(s, "DuplicateKey")
    <3>. DEFINE r == ses[s].row
                d == IF r.status = "COMPLETED" THEN Post(ses[s].delta, r.src, r.dst, r.amt)
                                               ELSE ses[s].delta
                w == [ses[s] EXCEPT !.pc = "commit", !.held = {ses[s].key},
                                    !.writes[ses[s].key] = r, !.delta = d]
    <3>1. ses' = [ses EXCEPT ![s] = w] /\ UNCHANGED <<data, lock>>
      BY <1>9, <2>2, <1>s DEF InsertTransfer, TypeOK
    <3>2. ses[s].op = "execute" /\ ses[s].pc = "insert"
      BY <1>9 DEF InsertTransfer, At
    <3>3. ses[s].delta = NoChange /\ \A a \in Accounts : Covered(s, a)
      BY <3>2, EarlyQuiet DEF Solvent
    <3>4. ASSUME NEW a \in Accounts
          PROVE  d[a] >= 0 \/ (lock[a] = s /\ bal[a] + clawback[a] + d[a] >= 0)
      <4>1. CASE r.status = "COMPLETED"
        <5>1. lock[r.src] = s /\ bal[r.src] + clawback[r.src] >= r.amt
          BY <3>2, <4>1 DEF Solvent, At
        <5>2. bal[r.src] + clawback[r.src] + ses[s].delta[r.src] >= r.amt
          BY <5>1, <3>3, <1>s DEF NoChange, TypeOK
        <5>. QED
          BY <4>1, <5>1, <5>2, <3>3, <1>s, DebitCovered
      <4>2. CASE r.status # "COMPLETED"
        BY <4>2, <3>3 DEF Covered
      <4>. QED
        BY <4>1, <4>2
    <3>5. w.delta = d /\ w.op = "execute" /\ w.pc = "commit"
      BY <3>2, <1>s DEF Session
    <3>6. ses'[s] = w /\ (\A t \in Sessions \ {s} : ses'[t] = ses[t])
          /\ bal' = bal /\ clawback' = clawback /\ lock' = lock
      BY <3>1 DEF TypeOK, data
    <3>. HIDE DEF w, d
    <3>7. Solvent(s)'
      BY <3>4, <3>5, <3>6 DEF Solvent, Covered, At
    <3>. QED
      BY <3>6, <3>7, SolventStep
  <2>. QED
    BY <2>1, <2>2
<1>. QED
  BY <1>1, <1>2, <1>3, <1>4, <1>5, <1>6, <1>7, <1>8, <1>9

\* approve_transfer posts nothing, reverse_transfer only what is clawed back.
LEMMA ReviewSolvent ==
  ASSUME TypeOK, TypeOK', \A t \in Sessions : Solvent(t), NEW s \in Sessions,
         \/ \E k \in Keys : Approve(s, k) \/ Reverse(s, k)
         \/ Claim(s) \/ ApproveLock(s) \/ ApproveSettle(s) \/ Undo(s) \/ PostMirror(s)
  PROVE  \A t \in Sessions : Solvent(t)'
<1>s. /\ ses[s] \in Session /\ ses[s].row \in Transfer
      /\ ses[s].row.src \in Accounts /\ ses[s].row.amt \in Nat
      /\ ses[s].delta \in [Accounts -> Int]
  BY DEF TypeOK, Session, Transfer, Amount
<1>l. \A t \in Sessions \ {s}, a \in Accounts : lock' = lock /\ lock[a] = t => lock'[a] = t
  OBVIOUS
<1>1. ASSUME NEW k \in Keys, NEW op \in {"approve", "reverse"}, NEW st, NEW pc \in {"claim", "undo"},
             Fetch(s, k, op, st, pc)
      PROVE  \A t \in Sessions : Solvent(t)'
  <2>. DEFINE w == [Idle EXCEPT !.op = op, !.pc = pc, !.key = k, !.row = transfers[k]]
  <2>1. w.delta = NoChange /\ w.op = op /\ w.pc = pc
    BY DEF Idle
  <2>2. ses' = [ses EXCEPT ![s] = w] /\ UNCHANGED <<data, lock>>
    BY <1>1 DEF Fetch
  <2>. HIDE DEF w
  <2>. QED
    BY <2>1, <2>2, QuietStep
<1>2. CASE Claim(s)
  <2>1. ses[s].op = "approve" /\ ses[s].delta = NoChange
    BY <1>2 DEF Claim, At, Solvent
  <2>2. ses'[s].op = "approve" /\ ses'[s].delta = NoChange
    BY <1>2, <2>1, <1>s DEF Claim, Session, TypeOK
  <2>3. UNCHANGED <<bal, clawback, lock>> /\ \A t \in Sessions \ {s} : ses'[t] = ses[t]
    BY <1>2 DEF Claim, TypeOK, data
  <2>4. Solvent(s)'
    BY <2>2, QuietSolvent
  <2>. QED
    BY <2>3, <2>4, SolventStep
<1>3. CASE ApproveLock(s)
  <2>1. \A t \in Sessions \ {s}, a \in Accounts : lock[a] = t => lock'[a] = t
    BY <1>3, LocksStay DEF ApproveLock
  <2>. QED
    BY <1>3, <2>1, GotoSolvent DEF ApproveLock, At, data
<1>4. CASE ApproveSettle(s)
  <2>1. CASE Abandon(s, "IllegalTransition")
    BY <2>1, AbandonSolvent
  <2>2. CASE ~Abandon(s, "IllegalTransition")
    <3>1. ses[s].op = "approve" /\ ses[s].delta = NoChange
      BY <1>4 DEF ApproveSettle, At, Solvent
    <3>2. ses'[s].op = "approve" /\ ses'[s].delta = NoChange
      <4>. DEFINE w == [ses[s] EXCEPT !.pc = "commit", !.writes[ses[s].key] =
                                        [ses[s].row EXCEPT !.status = "FAILED"]]
      <4>1. ses' = [ses EXCEPT ![s] = w]
        BY <1>4, <2>2 DEF ApproveSettle
      <4>2. w.op = ses[s].op /\ w.delta = ses[s].delta
        BY <1>s DEF Session
      <4>. HIDE DEF w
      <4>. QED
        BY <4>1, <4>2, <3>1 DEF TypeOK
    <3>3. UNCHANGED <<bal, clawback, lock>> /\ \A t \in Sessions \ {s} : ses'[t] = ses[t]
      BY <1>4, <2>2 DEF ApproveSettle, TypeOK, data
    <3>4. Solvent(s)'
      BY <3>2, QuietSolvent
    <3>. QED
      BY <3>3, <3>4, SolventStep
  <2>. QED
    BY <2>1, <2>2
<1>5. CASE Undo(s)
  <2>1. CASE Abandon(s, "AlreadyReversed")
    BY <2>1, AbandonSolvent
  <2>2. CASE Goto(s, "mirror") /\ UNCHANGED <<data, lock>>
    BY <1>5, <2>2, <1>l, GotoSolvent DEF Undo, At, data
  <2>. QED
    BY <1>5, <2>1, <2>2 DEF Undo
<1>6. CASE PostMirror(s)
  <2>1. CASE Abandon(s, "DuplicateReversal")
    BY <2>1, AbandonSolvent
  <2>2. CASE ~Abandon(s, "DuplicateReversal")
    <3>. DEFINE r == ses[s].row
                w == [ses[s] EXCEPT !.pc = "commit", !.held = {ses[s].key},
                                    !.writes[ses[s].key] = [r EXCEPT !.status = "REVERSED"],
                                    !.delta = Post(ses[s].delta, r.dst, r.src, r.amt)]
    <3>1. ses' = [ses EXCEPT ![s] = w] /\ UNCHANGED <<data, lock>>
      BY <1>6, <2>2 DEF PostMirror
    <3>2. ses[s].op = "reverse" /\ ses[s].delta = NoChange
      BY <1>6, EarlyQuiet DEF PostMirror, At
    <3>3. /\ w.op = "reverse" /\ w.row = r /\ w.pc = "commit"
          /\ w.delta = Post(NoChange, r.dst, r.src, r.amt)
      BY <3>2, <1>s DEF Session
    <3>4. ses'[s] = w /\ (\A t \in Sessions \ {s} : ses'[t] = ses[t])
          /\ bal' = bal /\ clawback' = clawback /\ lock' = lock
      BY <3>1 DEF TypeOK, data
    <3>. HIDE DEF w
    <3>5. Solvent(s)'
      BY <3>3, <3>4 DEF Solvent, At
    <3>. QED
      BY <3>4, <3>5, SolventStep
  <2>. QED
    BY <2>1, <2>2
<1>. QED
  BY <1>1, <1>2, <1>3, <1>4, <1>5, <1>6 DEF Approve, Reverse

\* The batch settles a transfer only with the source locked and the funds there.
LEMMA JobSolvent ==
  ASSUME TypeOK, TypeOK', \A t \in Sessions : Solvent(t), NEW s \in Sessions,
         \/ \E D \in SUBSET Keys, k \in Keys : StartJob(s, D, k)
         \/ SettleDue(s)
  PROVE  \A t \in Sessions : Solvent(t)'
<1>s. /\ ses[s] \in Session /\ ses[s].row \in Transfer
      /\ ses[s].row.src \in Accounts /\ ses[s].row.amt \in Nat
      /\ ses[s].delta \in [Accounts -> Int]
  BY DEF TypeOK, Session, Transfer, Amount
<1>1. ASSUME NEW D \in SUBSET Keys, NEW k \in Keys, StartJob(s, D, k)
      PROVE  \A t \in Sessions : Solvent(t)'
  <2>. DEFINE w == [Idle EXCEPT !.op = "job", !.pc = "jobLock", !.key = k, !.row = transfers[k],
                                !.todo = D \ {k}, !.held = D]
  <2>1. w.delta = NoChange /\ w.op = "job"
    BY DEF Idle
  <2>2. ses' = [ses EXCEPT ![s] = w] /\ UNCHANGED <<data, lock>>
    BY <1>1 DEF StartJob
  <2>. HIDE DEF w
  <2>. QED
    BY <2>1, <2>2, QuietStep
<1>2. CASE SettleDue(s)
  <2>. DEFINE r == ses[s].row
              fails == status[r.src] # "ACTIVE" \/ Balance(s, r.src) < r.amt
              d == IF fails THEN ses[s].delta ELSE Post(ses[s].delta, r.src, r.dst, r.amt)
              done == [ses[s] EXCEPT !.writes[ses[s].key] =
                                       [r EXCEPT !.status = IF fails THEN "FAILED" ELSE "COMPLETED"],
                                     !.delta = d]
  <2>1. /\ ses[s].op = "job" /\ Free(s, r.src) /\ Take(s, r.src) /\ UNCHANGED data
        /\ \A a \in Accounts : Covered(s, a)
    BY <1>2 DEF SettleDue, At, Solvent
  <2>2. \/ ses' = [ses EXCEPT ![s] = [done EXCEPT !.pc = "commit"]]
        \/ \E n \in ses[s].todo :
             ses' = [ses EXCEPT ![s] = [done EXCEPT !.key = n, !.row = transfers[n],
                                                    !.todo = ses[s].todo \ {n}]]
    BY <1>2 DEF SettleDue
  <2>3. done.op = "job" /\ done.delta = d
    BY <2>1, <1>s DEF Session
  <2>4. /\ ses'[s].op = "job" /\ ses'[s].delta = d
        /\ \A t \in Sessions \ {s} : ses'[t] = ses[t]
    <3>. HIDE DEF d
    <3>1. done \in [op : {"job"}, pc : Steps, key : Keys, row : {r}, todo : SUBSET Keys,
                    held : SUBSET Keys, writes : {done.writes}, delta : {d}, crash : Crashes]
      BY <2>1, <1>s DEF Session
    <3>. HIDE DEF done
    <3>2. CASE ses' = [ses EXCEPT ![s] = [done EXCEPT !.pc = "commit"]]
      <4>1. ses'[s] = [done EXCEPT !.pc = "commit"] /\ \A t \in Sessions \ {s} : ses'[t] = ses[t]
        BY <3>2 DEF TypeOK
      <4>. QED
        BY <3>1, <4>1
    <3>3. ASSUME NEW n, ses' = [ses EXCEPT ![s] = [done EXCEPT !.key = n, !.row = transfers[n],
                                                               !.todo = ses[s].todo \ {n}]]
          PROVE  /\ ses'[s].op = "job" /\ ses'[s].delta = d
                 /\ \A t \in Sessions \ {s} : ses'[t] = ses[t]
      <4>1. /\ ses'[s] = [done EXCEPT !.key = n, !.row = transfers[n], !.todo = ses[s].todo \ {n}]
            /\ \A t \in Sessions \ {s} : ses'[t] = ses[t]
        BY <3>3 DEF TypeOK
      <4>. QED
        BY <3>1, <4>1
    <3>. QED
      BY <2>2, <3>2, <3>3
  <2>5. lock'[r.src] = s /\ \A a \in Accounts : lock[a] = s => lock'[a] = s
    BY <2>1, <1>s DEF Take, TypeOK
  <2>6. \A t \in Sessions \ {s}, a \in Accounts : lock[a] = t => lock'[a] = t
    BY <2>1, LocksStay
  <2>7. bal' = bal /\ clawback' = clawback
    BY <2>1 DEF data
  <2>8. ASSUME NEW a \in Accounts
        PROVE  d[a] >= 0 \/ (lock'[a] = s /\ bal[a] + clawback[a] + d[a] >= 0)
    <3>0. /\ bal[a] \in Int /\ clawback[a] \in Nat /\ ses[s].delta[a] \in Int
          /\ bal[r.src] \in Int /\ clawback[r.src] \in Nat /\ ses[s].delta[r.src] \in Int
      BY <1>s DEF TypeOK
    <3>1. CASE fails
      BY <3>1, <2>1, <2>5 DEF Covered
    <3>2. CASE ~fails
      <4>1. bal[r.src] + ses[s].delta[r.src] >= r.amt
        BY <3>2, <3>0, <1>s DEF Balance
      <4>2. d = Post(ses[s].delta, r.src, r.dst, r.amt)
        BY <3>2
      <4>3. d[a] = ses[s].delta[a] - (IF a = r.src THEN r.amt ELSE 0) + (IF a = r.dst THEN r.amt ELSE 0)
        BY <4>2 DEF Post
      <4>. HIDE DEF d
      <4>4. CASE a = r.src
        BY <4>1, <4>3, <4>4, <3>0, <2>5, <1>s
      <4>5. CASE a # r.src
        BY <4>3, <4>5, <3>0, <2>1, <2>5, <1>s DEF Covered
      <4>. QED
        BY <4>4, <4>5
    <3>. QED
      BY <3>1, <3>2
  <2>. HIDE DEF d
  <2>9. Solvent(s)'
    BY <2>4, <2>7, <2>8 DEF Solvent, Covered, At
  <2>. QED
    BY <2>4, <2>6, <2>7, <2>9, SolventStep
<1>. QED
  BY <1>1, <1>2

LEMMA CloseSolvent ==
  ASSUME TypeOK, TypeOK', \A t \in Sessions : Solvent(t), NEW s \in Sessions,
         (\E a \in Accounts : Close(s, a)) \/ LockToClose(s) \/ CheckEmpty(s)
  PROVE  \A t \in Sessions : Solvent(t)'
<1>l. \A t \in Sessions \ {s}, a \in Accounts : lock' = lock /\ lock[a] = t => lock'[a] = t
  OBVIOUS
<1>1. ASSUME NEW a \in Accounts, Close(s, a)
      PROVE  \A t \in Sessions : Solvent(t)'
  <2>. DEFINE w == [Idle EXCEPT !.op = "close", !.pc = "closeLock", !.row = [NoTransfer EXCEPT !.src = a]]
  <2>1. w.delta = NoChange /\ w.op = "close"
    BY DEF Idle
  <2>2. ses' = [ses EXCEPT ![s] = w] /\ UNCHANGED <<data, lock>>
    BY <1>1 DEF Close
  <2>. HIDE DEF w
  <2>. QED
    BY <2>1, <2>2, QuietStep
<1>2. CASE LockToClose(s)
  <2>1. \A t \in Sessions \ {s}, a \in Accounts : lock[a] = t => lock'[a] = t
    BY <1>2, LocksStay DEF LockToClose
  <2>. QED
    BY <1>2, <2>1, GotoSolvent DEF LockToClose, At, data
<1>3. CASE CheckEmpty(s)
  <2>1. CASE Abandon(s, "NotClosable")
    BY <2>1, AbandonSolvent
  <2>2. CASE Goto(s, "commit") /\ UNCHANGED <<data, lock>>
    BY <1>3, <2>2, <1>l, GotoSolvent DEF CheckEmpty, At, data
  <2>. QED
    BY <1>3, <2>1, <2>2 DEF CheckEmpty
<1>. QED
  BY <1>1, <1>2, <1>3

\* The balances a commit leaves: covered debits, and reversals clawed back.
LEMMA CommitSolvent ==
  ASSUME TypeOK, TypeOK', NoOverdraft, \A t \in Sessions : Solvent(t), NEW s \in Sessions,
         Commit(s)
  PROVE  NoOverdraft' /\ \A t \in Sessions : Solvent(t)'
<1>s. /\ ses[s].row.amt \in Nat /\ ses[s].delta \in [Accounts -> Int]
  BY DEF TypeOK, Session, Transfer, Amount
<1>1. ASSUME NEW a \in Accounts
      PROVE  /\ bal[a] \in Int /\ clawback[a] \in Nat /\ ses[s].delta[a] \in Int
             /\ bal'[a] = bal[a] + ses[s].delta[a]
             /\ clawback'[a] = clawback[a] +
                  (IF ses[s].op = "reverse" /\ a = ses[s].row.dst THEN ses[s].row.amt ELSE 0)
  BY <1>s DEF TypeOK, Commit
<1>2. ses[s].pc = "commit" /\ lock' = Released(s) /\ ses' = [ses EXCEPT ![s] = Idle]
  BY DEF Commit
<1>3. ASSUME NEW a \in Accounts, ses[s].op = "reverse"
      PROVE  bal'[a] + clawback'[a] >= bal[a] + clawback[a]
  <2>1. ses[s].delta = Post(NoChange, ses[s].row.dst, ses[s].row.src, ses[s].row.amt)
    BY <1>2, <1>3 DEF Solvent
  <2>2. ses[s].delta[a] = 0 - (IF a = ses[s].row.dst THEN ses[s].row.amt ELSE 0)
                            + (IF a = ses[s].row.src THEN ses[s].row.amt ELSE 0)
    BY <2>1 DEF Post, NoChange
  <2>. QED
    BY <2>2, <1>1, <1>3, <1>s
<1>4. ASSUME NEW a \in Accounts, ses[s].op # "reverse"
      PROVE  /\ clawback'[a] = clawback[a]
             /\ bal'[a] >= bal[a] \/ (lock[a] = s /\ bal'[a] + clawback'[a] >= 0)
  <2>1. Covered(s, a)
    BY <1>4 DEF Solvent
  <2>. QED
    BY <2>1, <1>1, <1>4 DEF Covered
<1>5. NoOverdraft'
  <2>1. ASSUME NEW a \in Accounts PROVE bal'[a] + clawback'[a] >= 0
    <3>1. bal[a] + clawback[a] >= 0
      BY DEF NoOverdraft
    <3>2. bal'[a] \in Int /\ clawback'[a] \in Int
      BY DEF TypeOK
    <3>3. CASE ses[s].op = "reverse"
      BY <3>1, <3>2, <3>3, <1>1, <1>3
    <3>4. CASE ses[s].op # "reverse"
      BY <3>1, <3>2, <3>4, <1>1, <1>4
    <3>. QED
      BY <3>3, <3>4
  <2>. QED
    BY <2>1 DEF NoOverdraft
<1>6. ASSUME NEW t \in Sessions, t # s PROVE Solvent(t)'
  <2>1. ses'[t] = ses[t]
    BY <1>2, <1>6 DEF TypeOK
  <2>2. ASSUME NEW a \in Accounts, lock[a] = t
        PROVE  lock'[a] = t /\ bal'[a] + clawback'[a] >= bal[a] + clawback[a]
    <3>1. lock'[a] = t
      BY <2>2, <1>2, <1>6, LocksStay
    <3>2. CASE ses[s].op = "reverse"
      BY <3>1, <3>2, <1>3
    <3>3. CASE ses[s].op # "reverse"
      <4>1. bal'[a] >= bal[a] /\ clawback'[a] = clawback[a]
        BY <3>3, <2>2, <1>6, <1>4
      <4>2. {bal'[a], bal[a], clawback[a]} \subseteq Int
        BY DEF TypeOK
      <4>. QED
        BY <4>1, <4>2, <3>1
    <3>. QED
      BY <3>2, <3>3
  <2>. QED
    BY <2>1, <2>2, OthersSolvent
<1>7. Solvent(s)'
  <2>1. ses'[s].delta = NoChange /\ ses'[s].op = "none"
    BY <1>2 DEF Idle, TypeOK
  <2>. QED
    BY <2>1, QuietSolvent
<1>. QED
  BY <1>5, <1>6, <1>7

\* TInv is inductive.
LEMMA NextInvariant ==
  ASSUME TInv, [Next]_vars
  PROVE  TInv'
<1>1. TypeOK /\ RowsStay /\ NoOverdraft /\ (\A t \in Sessions : Solvent(t)) /\ TypeOK' /\ RowsStay'
  BY NextTyped DEF TInv
<1>2. CASE UNCHANGED vars
  <2>1. NoOverdraft'
    BY <1>1, <1>2 DEF vars, NoOverdraft
  <2>2. \A t \in Sessions : Solvent(t)'
    BY <1>1, <1>2 DEF vars, Solvent, Covered, At
  <2>. QED
    BY <1>1, <2>1, <2>2 DEF TInv
<1>3. ASSUME NEW s \in Sessions, Commit(s) PROVE TInv'
  BY <1>1, <1>3, CommitSolvent DEF TInv
<1>4. ASSUME NEW s \in Sessions,
             \/ \E k \in Keys, q \in Requests : Execute(s, k, q)
             \/ OpenEvaluation(s) \/ (\E v \in Verdicts : Decide(s, v)) \/ RecordBlocked(s)
             \/ Begin(s) \/ LockSource(s) \/ LockDestination(s)
             \/ CheckLimits(s) \/ InsertTransfer(s)
      PROVE  TInv'
  <2>1. UNCHANGED <<bal, clawback>>
    BY <1>4 DEF Execute, OpenEvaluation, Decide, RecordBlocked, Begin, LockSource, LockDestination,
                CheckLimits, InsertTransfer, Abandon, data
  <2>2. NoOverdraft'
    BY <1>1, <2>1 DEF NoOverdraft
  <2>. QED
    BY <1>1, <1>4, <2>2, ExecuteSolvent DEF TInv
<1>5. ASSUME NEW s \in Sessions,
             \/ \E k \in Keys : Approve(s, k) \/ Reverse(s, k)
             \/ Claim(s) \/ ApproveLock(s) \/ ApproveSettle(s) \/ Undo(s) \/ PostMirror(s)
      PROVE  TInv'
  <2>1. UNCHANGED <<bal, clawback>>
    BY <1>5 DEF Approve, Reverse, Fetch, Claim, ApproveLock, ApproveSettle, Undo, PostMirror,
                Abandon, data
  <2>2. NoOverdraft'
    BY <1>1, <2>1 DEF NoOverdraft
  <2>. QED
    BY <1>1, <1>5, <2>2, ReviewSolvent DEF TInv
<1>6. ASSUME NEW s \in Sessions,
             \/ \E D \in SUBSET Keys, k \in Keys : StartJob(s, D, k)
             \/ SettleDue(s)
             \/ (\E a \in Accounts : Close(s, a)) \/ LockToClose(s) \/ CheckEmpty(s)
             \/ Crash(s) \/ BreakDeadlock(s)
      PROVE  TInv'
  <2>1. UNCHANGED <<bal, clawback>>
    BY <1>6 DEF StartJob, SettleDue, Close, LockToClose, CheckEmpty, Crash, BreakDeadlock,
                Abandon, data
  <2>2. NoOverdraft'
    BY <1>1, <2>1 DEF NoOverdraft
  <2>3. \A t \in Sessions : Solvent(t)'
    <3>1. CASE Crash(s) \/ BreakDeadlock(s)
      BY <1>1, <3>1, AbandonSolvent DEF Crash, BreakDeadlock
    <3>. QED
      BY <1>1, <1>6, <3>1, JobSolvent, CloseSolvent
  <2>. QED
    BY <1>1, <2>2, <2>3 DEF TInv
<1>. QED
  BY <1>2, <1>3, <1>4, <1>5, <1>6 DEF Next, Proceed

LEMMA InitInvariant == Init => TInv
<1>. SUFFICES ASSUME Init PROVE TInv
  OBVIOUS
<1>1. TypeOK /\ RowsStay
  BY InitTyped
<1>2. NoOverdraft
  BY TransfersAssumption DEF Init, NoOverdraft
<1>3. ASSUME NEW s \in Sessions PROVE Solvent(s)
  BY <1>3 DEF Init, Solvent, Covered, Idle, NoChange, At
<1>. QED
  BY <1>1, <1>2, <1>3 DEF TInv

\* TInv holds at all times: rows stay, debits are covered by a lock, and the
\* accounts are covered.
THEOREM TransferInvariant == Spec => []TInv
<1>1. TInv /\ [Next]_vars => TInv'
  BY NextInvariant
<1>. QED
  BY <1>1, InitInvariant, PTL DEF Spec

\* No interleaving of requests, approvals, batches, closings, crashes and
\* deadlock victims overdraws an account, but for what reversals take back.
THEOREM TransfersNeverOverdraw == Spec => []NoOverdraft
<1>1. TInv => NoOverdraft
  BY DEF TInv
<1>. QED
  BY <1>1, TransferInvariant, PTL

-----------------------------------------------------------------------------
(* What rows are worth, and sums over them.                                  *)

\* Which fields stay.
LEMMA SameIs ==
  ASSUME NEW r, NEW q
  PROVE  Book!SameTransfer(r, q) <=>
           /\ r.src = q.src /\ r.dst = q.dst /\ r.amt = q.amt
           /\ r.scheduled = q.scheduled /\ r.verdict = q.verdict
BY DEF Book!SameTransfer

\* Two rows that differ in nothing are one row.
LEMMA RowIs ==
  ASSUME NEW r \in Transfer, NEW q \in Transfer, Book!SameTransfer(r, q), r.status = q.status
  PROVE  r = q
BY SameIs DEF Transfer

LEMMA WorthIs ==
  ASSUME NEW r, NEW a
  PROVE  /\ r = None \/ r.status # "COMPLETED" => Book!Worth(r, a) = 0
         /\ r # None /\ r.status = "COMPLETED" => Book!Worth(r, a) =
              (IF r.dst = a THEN r.amt ELSE 0) - (IF r.src = a THEN r.amt ELSE 0)
         /\ r \in Transfer \cup {None} => Book!Worth(r, a) \in Int
BY DEF Book!Worth, Transfer, Amount

\* The rows of K count with their amounts, the others not.
Counted(K) == [k \in Keys |-> IF k \in K THEN transfers[k].amt ELSE 0]

LEMMA MovedIs ==
  ASSUME TypeOK, NEW K \in SUBSET Keys, \A k \in K : transfers[k] # None
  PROVE  /\ Moved(K) = SumFunctionOnSet(Counted(K), Keys)
         /\ Moved(K) \in Nat
         /\ \A k \in Keys : Counted(K)[k] \in Nat
<1>1. ASSUME NEW k \in Keys
      PROVE  /\ Counted(K)[k] \in Nat
             /\ k \in K => Counted(K)[k] = Amounts(K)[k]
             /\ k \notin K => Counted(K)[k] = 0
  BY DEF Counted, Amounts, TypeOK, Transfer, Amount
<1>2. Moved(K) = SumFunctionOnSet(Amounts(K), K)
  BY DEF Moved, SumFunction, Amounts
<1>3. SumFunctionOnSet(Counted(K), Keys) = SumFunctionOnSet(Amounts(K), K)
  BY <1>1, TransfersAssumption, SumPart
<1>4. SumFunctionOnSet(Counted(K), Keys) \in Nat
  BY <1>1, TransfersAssumption, SumInt
<1>. QED
  BY <1>1, <1>2, <1>3, <1>4

\* What the committed rows bring account a.
Brings(a) == [k \in Keys |-> Book!Worth(transfers[k], a)]

LEMMA BringsIs ==
  ASSUME TypeOK, NEW a \in Accounts
  PROVE  SumFunctionOnSet(Brings(a), Keys) = Moved(Received(a)) - Moved(Completed(a))
<1>1. /\ Received(a) \in SUBSET Keys /\ \A k \in Received(a) : transfers[k] # None
      /\ Completed(a) \in SUBSET Keys /\ \A k \in Completed(a) : transfers[k] # None
  BY DEF Received, Completed
<1>2. ASSUME NEW k \in Keys
      PROVE  /\ Brings(a)[k] \in Int /\ Counted(Completed(a))[k] \in Int
             /\ Counted(Received(a))[k] = Brings(a)[k] + Counted(Completed(a))[k]
  <2>1. transfers[k] \in Transfer \cup {None}
    BY DEF TypeOK
  <2>2. transfers[k] # None => transfers[k].amt \in Int
    BY <2>1 DEF Transfer, Amount
  <2>3. CASE transfers[k] = None \/ transfers[k].status # "COMPLETED"
    <3>1. Brings(a)[k] = 0
      BY <2>3, WorthIs DEF Brings
    <3>2. k \notin Received(a) /\ k \notin Completed(a)
      BY <2>3 DEF Received, Completed
    <3>. QED
      BY <3>1, <3>2 DEF Counted
  <2>4. CASE transfers[k] # None /\ transfers[k].status = "COMPLETED"
    <3>1. Brings(a)[k] = (IF transfers[k].dst = a THEN transfers[k].amt ELSE 0)
                         - (IF transfers[k].src = a THEN transfers[k].amt ELSE 0)
      BY <2>4, WorthIs DEF Brings
    <3>2. /\ k \in Received(a) <=> transfers[k].dst = a
          /\ k \in Completed(a) <=> transfers[k].src = a
      BY <2>4 DEF Received, Completed
    <3>. QED
      BY <2>2, <2>4, <3>1, <3>2 DEF Counted
  <2>. QED
    BY <2>3, <2>4
<1>3. SumFunctionOnSet(Counted(Received(a)), Keys)
        = SumFunctionOnSet(Brings(a), Keys) + SumFunctionOnSet(Counted(Completed(a)), Keys)
  BY <1>2, TransfersAssumption, SumsAdd
<1>4. SumFunctionOnSet(Brings(a), Keys) \in Int
  BY <1>2, TransfersAssumption, SumInt
<1>. QED
  BY <1>1, <1>3, <1>4, MovedIs

-----------------------------------------------------------------------------
(* What a session may rely on.                                               *)

\* The changes session s has made, as a table over the rows.
Changes(s, a) == [k \in Keys |-> Change(ses[s], k, a)]

LEMMA ChangesInt ==
  ASSUME TypeOK, NEW s \in Sessions, NEW a \in Accounts, NEW k \in Keys
  PROVE  Changes(s, a)[k] \in Int /\ Changes(s, a)[k] = Change(ses[s], k, a)
<1>1. transfers[k] \in Transfer \cup {None} /\ ses[s].writes[k] \in Transfer \cup {None}
  BY DEF TypeOK, Session
<1>2. Book!Worth(transfers[k], a) \in Int /\ Book!Worth(ses[s].writes[k], a) \in Int
  BY <1>1, WorthIs
<1>. QED
  BY <1>2 DEF Changes, Change

LEMMA AccountedIs ==
  ASSUME NEW s
  PROVE  Accounted(ses[s]) <=>
           /\ \A k \in Keys : ses[s].writes[k] # None => k \in ses[s].held
           /\ \A a \in Accounts : ses[s].delta[a] = SumFunctionOnSet(Changes(s, a), Keys)
BY DEF Accounted, SumFunction, Changes

\* Who has written nothing has posted nothing.
LEMMA NothingAccounted ==
  ASSUME NEW s \in Sessions, \A k \in Keys : ses'[s].writes[k] = None, ses'[s].delta = NoChange
  PROVE  Accounted(ses[s])'
<1>1. ASSUME NEW a \in Accounts
      PROVE  SumFunction([k \in Keys |-> Change(ses[s], k, a)'])  = 0
  <2>1. \A k \in Keys : [i \in Keys |-> Change(ses[s], i, a)'][k] = 0
    BY DEF Change
  <2>2. SumFunctionOnSet([k \in Keys |-> Change(ses[s], k, a)'], Keys) = 0
    BY <2>1, TransfersAssumption, SumZero
  <2>. QED
    BY <2>2 DEF SumFunction
<1>2. \A a \in Accounts : ses'[s].delta[a] = 0
  BY DEF NoChange
<1>. QED
  BY <1>1, <1>2 DEF Accounted

\* What a session wrote stays accounted for while its rows are not replaced.
LEMMA AccountedStays ==
  ASSUME NEW s \in Sessions, Accounted(ses[s]), ses'[s].writes = ses[s].writes,
         ses'[s].delta = ses[s].delta, ses'[s].held = ses[s].held,
         \A k \in ses[s].held : transfers'[k] = transfers[k]
  PROVE  Accounted(ses[s])'
<1>1. ASSUME NEW a \in Accounts, NEW k \in Keys
      PROVE  Change(ses[s], k, a)' = Change(ses[s], k, a)
  BY DEF Accounted, Change
<1>. QED
  BY <1>1 DEF Accounted

\* What account a may keep when it is closed.
Kept(a) == Moved(ByBatch(a)) + Moved(GivenBack(a))

\* Rows stay, they keep everything but their status, and no row leaves these
\* groups of statuses.
RowsKept ==
  \A k \in Keys : transfers[k] # None =>
    /\ Book!SameTransfer(transfers[k], transfers'[k])
    /\ transfers[k].status \in {"UNDER_REVIEW", "FAILED"} =>
         transfers'[k].status \in {"UNDER_REVIEW", "FAILED"}
    /\ transfers[k].status \in {"COMPLETED", "REVERSED"} =>
         transfers'[k].status \in {"COMPLETED", "REVERSED"}

\* Session t, whose record stays, may go on relying on the rows it holds, if no
\* one touches them, and on the accounts it locks, if no one sends from them at
\* once or brings them what they may not keep.
LEMMA OthersBacked ==
  ASSUME TypeOK, RowsStay, NEW t \in Sessions, Backed(t), ses'[t] = ses[t], RowsKept,
         \A k \in ses[t].held : transfers'[k] = transfers[k],
         \A a \in Accounts : lock[a] = t =>
           /\ lock'[a] = t /\ status'[a] = status[a]
           /\ Moved(AtOnce(a))' <= Moved(AtOnce(a))
           /\ bal[a] <= Kept(a) => bal'[a] <= Kept(a)',
         \A a \in Accounts : Moved(AtOnce(a)) \in Int /\ Moved(AtOnce(a))' \in Int
  PROVE  Backed(t)'
<1>s. /\ ses[t] \in Session /\ ses[t].key \in Keys /\ ses[t].row.src \in Accounts
      /\ ses[t].row.dst # External => ses[t].row.dst \in Accounts
      /\ ses[t].row.amt \in Int
  BY DEF TypeOK, Session, Transfer, Destinations, Amount
<1>1. Accounted(ses[t])'
  BY AccountedStays DEF Backed
<1>2. ASSUME ses[t].op = "execute" PROVE RequestBacked(t)'
  <2>1. RequestBacked(t)
    BY <1>2 DEF Backed
  <2>2. ses[t].row.src \in Accounts => DailyLimit[ses[t].row.src] \in Int
    BY TransfersAssumption
  <2>3. ASSUME ses[t].pc = "commit" PROVE transfers'[ses[t].key] = None
    BY <2>1, <2>3 DEF RequestBacked
  <2>4. ASSUME ses[t].pc \in {"check", "insert", "commit"}, ses[t].row.dst # External
        PROVE  lock'[ses[t].row.dst] = t /\ status'[ses[t].row.dst] = "ACTIVE"
    BY <2>1, <2>4, <1>s DEF RequestBacked
  <2>5. ASSUME ses[t].pc \in {"insert", "commit"}, ses[t].row.status = "COMPLETED"
        PROVE  Moved(AtOnce(ses[t].row.src))' + ses[t].row.amt <= DailyLimit[ses[t].row.src]
    <3>1. PICK a \in Accounts : a = ses[t].row.src
      BY <1>s
    <3>2. lock[a] = t /\ Moved(AtOnce(a)) + ses[t].row.amt <= DailyLimit[a]
      BY <2>1, <2>5, <3>1 DEF RequestBacked
    <3>. QED
      BY <3>1, <3>2, <2>2, <1>s
  <2>6. ASSUME ses[t].pc \in {"insert", "commit"} PROVE lock'[ses[t].row.src] = t
    BY <2>1, <2>6, <1>s DEF RequestBacked
  <2>. QED
    BY <2>1, <2>3, <2>4, <2>5, <2>6 DEF RequestBacked
<1>3. ASSUME ses[t].op \in {"approve", "reverse"}
      PROVE  /\ transfers[ses[t].key] # None
             /\ Book!SameTransfer(transfers[ses[t].key], transfers'[ses[t].key])
  BY <1>3, <1>s DEF RowsStay, RowsKept
<1>4. ASSUME ses[t].op = "approve" PROVE ReviewBacked(ses[t])'
  <2>1. ReviewBacked(ses[t])
    BY <1>4 DEF Backed
  <2>. QED
    BY <2>1, <1>3, <1>4, <1>s, SameIs DEF ReviewBacked, RowsKept
<1>5. ASSUME ses[t].op = "reverse" PROVE ReversalBacked(ses[t])'
  <2>1. ReversalBacked(ses[t])
    BY <1>5 DEF Backed
  <2>. QED
    BY <2>1, <1>3, <1>5, <1>s, SameIs DEF ReversalBacked, RowsKept
<1>6. ASSUME ses[t].op = "job" PROVE BatchBacked(ses[t])'
  BY <1>6 DEF Backed, BatchBacked
<1>7. ASSUME ses[t].op = "close" PROVE ClosingBacked(t)'
  <2>1. ClosingBacked(t)
    BY <1>7 DEF Backed
  <2>. QED
    BY <2>1, <1>s DEF ClosingBacked, Kept
<1>. QED
  BY <1>1, <1>2, <1>4, <1>5, <1>6, <1>7 DEF Backed

\* Transfers of an account.
LEMMA AccountSets ==
  ASSUME TypeOK, NEW a \in Accounts
  PROVE  /\ \A K \in {Completed(a), Received(a), AtOnce(a), ByBatch(a), GivenBack(a)} :
              K \in SUBSET Keys /\ \A k \in K : transfers[k] # None
         /\ Moved(AtOnce(a)) \in Nat /\ Moved(ByBatch(a)) \in Nat /\ Moved(GivenBack(a)) \in Nat
         /\ Kept(a) \in Nat
<1>1. \A K \in {Completed(a), Received(a), AtOnce(a), ByBatch(a), GivenBack(a)} :
        K \in SUBSET Keys /\ \A k \in K : transfers[k] # None
  BY DEF Completed, Received, AtOnce, ByBatch, GivenBack
<1>2. Moved(AtOnce(a)) \in Nat /\ Moved(ByBatch(a)) \in Nat /\ Moved(GivenBack(a)) \in Nat
  BY <1>1, MovedIs
<1>. QED
  BY <1>1, <1>2 DEF Kept

\* Nothing but s is about to change.
Locally(s) ==
  /\ UNCHANGED <<transfers, bal, status, reversed>>
  /\ \A t \in Sessions \ {s} : ses'[t] = ses[t]
  /\ \A t \in Sessions \ {s}, a \in Accounts : lock[a] = t => lock'[a] = t

\* A step that commits nothing.
LEMMA LocalBacked ==
  ASSUME TypeOK, RowsStay, MInv, NEW s \in Sessions, Locally(s), Backed(s)',
         \A t \in Sessions \ {s} : ses'[s].held \cap ses[t].held = {}
  PROVE  MInv'
<1>1. RowsKept
  BY SameIs DEF RowsKept, Locally
<1>2. ASSUME NEW a \in Accounts
      PROVE  Moved(AtOnce(a))' = Moved(AtOnce(a)) /\ Kept(a)' = Kept(a)
  BY DEF Locally, Moved, Amounts, AtOnce, Completed, Kept, ByBatch, Received, GivenBack
<1>3. ASSUME NEW t \in Sessions, t # s PROVE Backed(t)'
  <2>1. \A a \in Accounts : Moved(AtOnce(a)) \in Int /\ Moved(AtOnce(a))' \in Int
    BY <1>2, AccountSets
  <2>2. \A a \in Accounts : lock[a] = t =>
           /\ lock'[a] = t /\ status'[a] = status[a]
           /\ Moved(AtOnce(a))' <= Moved(AtOnce(a))
           /\ bal[a] <= Kept(a) => bal'[a] <= Kept(a)'
    BY <1>2, <1>3, <2>1 DEF Locally
  <2>3. Backed(t) /\ ses'[t] = ses[t] /\ \A k \in ses[t].held : transfers'[k] = transfers[k]
    BY <1>3 DEF MInv, Locally
  <2>. QED
    BY <1>1, <2>1, <2>2, <2>3, OthersBacked
<1>4. HeldOnce'
  BY DEF MInv, HeldOnce, Locally
<1>5. RowsSound'
  BY DEF MInv, RowsSound, Locally
<1>. QED
  BY <1>3, <1>4, <1>5 DEF MInv

\* A session that holds no row and has posted nothing.
Blank(s) == ses[s].held = {} /\ (\A k \in Keys : ses[s].writes[k] = None) /\ ses[s].delta = NoChange

LEMMA BlankIs ==
  ASSUME TypeOK, NEW s \in Sessions, Backed(s), Solvent(s), ses[s].op # "job", ses[s].pc # "commit",
         ses[s].op = "approve" => ses[s].pc = "claim"
  PROVE  Blank(s)
<1>1. ses[s].delta = NoChange
  BY EarlyQuiet
<1>2. ses[s].held = {}
  BY DEF Backed, RequestBacked, ReviewBacked, ReversalBacked, ClosingBacked, TypeOK, Session, Operations
<1>. QED
  BY <1>1, <1>2 DEF Blank, Backed, Accounted

\* Session s goes on, with record w, without having written.
LEMMA BlankStep ==
  ASSUME TypeOK, RowsStay, MInv, NEW s \in Sessions, Locally(s), Blank(s)',
         ses'[s].op = "execute" => RequestBacked(s)',
         ses'[s].op = "approve" => ReviewBacked(ses[s])',
         ses'[s].op = "reverse" => ReversalBacked(ses[s])',
         ses'[s].op # "job",
         ses'[s].op = "close" => ClosingBacked(s)'
  PROVE  MInv'
<1>1. Accounted(ses[s])' /\ ses'[s].held = {}
  BY NothingAccounted DEF Blank
<1>2. Backed(s)'
  BY <1>1 DEF Backed
<1>. QED
  BY <1>1, <1>2, LocalBacked

LEMMA AbandonBacked ==
  ASSUME TypeOK, RowsStay, MInv, NEW s \in Sessions, NEW why, Abandon(s, why)
  PROVE  MInv'
<1>1. ses'[s] = [Idle EXCEPT !.crash = why] /\ (\A t \in Sessions \ {s} : ses'[t] = ses[t])
      /\ lock' = Released(s) /\ UNCHANGED data
  BY DEF Abandon, TypeOK
<1>2. Locally(s)
  BY <1>1, LocksStay DEF Locally, data
<1>3. Blank(s)' /\ ses'[s].op = "none"
  BY <1>1 DEF Idle, Blank
<1>. QED
  BY <1>2, <1>3, BlankStep

\* The same in the state after a step.
ChangesTyped == \A s \in Sessions, a \in Accounts, k \in Keys : Change(ses[s], k, a) \in Int

LEMMA ChangesAfter ==
  TypeOK' => \A s \in Sessions, a \in Accounts, k \in Keys : Change(ses[s], k, a)' \in Int
<1>1. TypeOK => ChangesTyped
  BY ChangesInt DEF ChangesTyped
<1>2. TypeOK' => ChangesTyped'
  BY <1>1, PTL
<1>. QED
  BY <1>2 DEF ChangesTyped

LEMMA ChangeAfter ==
  ASSUME NEW s, NEW k, NEW a
  PROVE  Change(ses[s], k, a)' =
           IF ses'[s].writes[k] = None THEN 0
           ELSE Book!Worth(ses'[s].writes[k], a) - Book!Worth(transfers'[k], a)
BY DEF Change, Book!Worth

\* A session that has written one row has posted what this row changes.
LEMMA OneAccounted ==
  ASSUME TypeOK', NEW s \in Sessions, NEW k \in Keys, k \in ses'[s].held,
         \A j \in Keys \ {k} : ses'[s].writes[j] = None,
         \A a \in Accounts : ses'[s].delta[a] = Change(ses[s], k, a)'
  PROVE  Accounted(ses[s])'
<1>1. ASSUME NEW a \in Accounts
      PROVE  SumFunction([j \in Keys |-> Change(ses[s], j, a)']) = Change(ses[s], k, a)'
  <2>. DEFINE f == [j \in Keys |-> Change(ses[s], j, a)']
  <2>1. \A j \in Keys : f[j] \in Int
    BY ChangesAfter
  <2>2. \A j \in Keys \ {k} : f[j] = 0
    BY DEF Change
  <2>3. SumFunctionOnSet(f, Keys) = f[k]
    <3>. HIDE DEF f
    <3>. QED
      BY <2>1, <2>2, TransfersAssumption, SumOne
  <2>4. SumFunction(f) = SumFunctionOnSet(f, Keys)
    BY DEF SumFunction
  <2>. QED
    BY <2>3, <2>4
<1>. QED
  BY <1>1 DEF Accounted

LEMMA GotoFields ==
  ASSUME TypeOK, NEW s \in Sessions, NEW pc, Goto(s, pc)
  PROVE  /\ ses'[s].pc = pc /\ ses'[s].op = ses[s].op /\ ses'[s].key = ses[s].key
         /\ ses'[s].row = ses[s].row /\ ses'[s].held = ses[s].held /\ ses'[s].todo = ses[s].todo
         /\ ses'[s].writes = ses[s].writes /\ ses'[s].delta = ses[s].delta
         /\ \A t \in Sessions \ {s} : ses'[t] = ses[t]
BY DEF Goto, TypeOK, Session

\* What is sent at once is part of what is sent.
LEMMA AtOnceWithin ==
  ASSUME TypeOK, NEW a \in Accounts
  PROVE  Moved(AtOnce(a)) <= Outflow(a)
<1>1. /\ AtOnce(a) \in SUBSET Keys /\ \A k \in AtOnce(a) : transfers[k] # None
      /\ Completed(a) \in SUBSET Keys /\ \A k \in Completed(a) : transfers[k] # None
  BY AccountSets
<1>2. ASSUME NEW k \in Keys
      PROVE  /\ Counted(AtOnce(a))[k] \in Int /\ Counted(Completed(a))[k] \in Int
             /\ Counted(AtOnce(a))[k] <= Counted(Completed(a))[k]
  <2>1. Counted(AtOnce(a))[k] \in Nat /\ Counted(Completed(a))[k] \in Nat
    BY <1>1, MovedIs
  <2>2. k \in AtOnce(a) => Counted(AtOnce(a))[k] = Counted(Completed(a))[k]
    BY DEF Counted, AtOnce
  <2>3. k \notin AtOnce(a) => Counted(AtOnce(a))[k] = 0
    BY DEF Counted
  <2>. QED
    BY <2>1, <2>2, <2>3
<1>3. SumFunctionOnSet(Counted(AtOnce(a)), Keys) <= SumFunctionOnSet(Counted(Completed(a)), Keys)
  BY <1>2, TransfersAssumption, SumMonotone
<1>. QED
  BY <1>1, <1>3, MovedIs DEF Outflow

\* A step of a session that is blank, and that goes on or gives up.
LEMMA GotoBacked ==
  ASSUME TypeOK, RowsStay, MInv, NEW s \in Sessions, NEW pc, Goto(s, pc), Blank(s),
         UNCHANGED <<transfers, bal, status, reversed>>,
         \A t \in Sessions \ {s}, a \in Accounts : lock[a] = t => lock'[a] = t,
         ses[s].op = "execute" => RequestBacked(s)',
         ses[s].op = "approve" => ReviewBacked(ses[s])',
         ses[s].op = "reverse" => ReversalBacked(ses[s])',
         ses[s].op # "job",
         ses[s].op = "close" => ClosingBacked(s)'
  PROVE  MInv'
<1>1. Blank(s)' /\ Locally(s) /\ ses'[s].op = ses[s].op
  BY GotoFields DEF Blank, Locally
<1>. QED
  BY <1>1, BlankStep

\* The journal of a transfer, and its mirror.
LEMMA PostedIs ==
  ASSUME NEW r \in Transfer, r.status = "COMPLETED", NEW a \in Accounts
  PROVE  /\ Post(NoChange, r.src, r.dst, r.amt)[a] = Book!Worth(r, a)
         /\ Post(NoChange, r.dst, r.src, r.amt)[a] = 0 - Book!Worth(r, a)
<1>1. Book!Worth(r, a) = (IF r.dst = a THEN r.amt ELSE 0) - (IF r.src = a THEN r.amt ELSE 0)
  BY WorthIs, TransfersAssumption
<1>2. r.amt \in Int
  BY DEF Transfer, Amount
<1>3. NoChange[a] = 0
  BY DEF NoChange
<1>. QED
  BY <1>1, <1>2, <1>3 DEF Post

\* execute_transfer up to its commit.
LEMMA ExecuteBacked ==
  ASSUME TInv, MInv, TypeOK', NEW s \in Sessions,
         \/ \E k \in Keys, q \in Requests : Execute(s, k, q)
         \/ OpenEvaluation(s) \/ (\E v \in Verdicts : Decide(s, v))
         \/ Begin(s) \/ LockSource(s) \/ LockDestination(s) \/ CheckLimits(s) \/ InsertTransfer(s)
  PROVE  MInv'
<1>. USE TransfersAssumption
<1>t. TypeOK /\ RowsStay /\ Solvent(s) /\ Backed(s)
  BY DEF TInv, MInv
<1>s. /\ ses[s] \in Session /\ ses[s].row \in Transfer /\ ses[s].key \in Keys
      /\ ses[s].row.src \in Accounts /\ ses[s].row.amt \in Nat
      /\ ses[s].row.dst # External => ses[s].row.dst \in Accounts
  BY <1>t DEF TypeOK, Session, Transfer, Amount, Destinations
<1>q. ASSUME ses[s].op = "execute", ses[s].pc # "commit"
      PROVE  Blank(s) /\ RequestBacked(s)
  BY <1>t, <1>q, BlankIs DEF Backed
<1>1. ASSUME NEW k \in Keys, NEW q \in Requests, Execute(s, k, q)
      PROVE  MInv'
  <2>. DEFINE r == [src |-> q.src, dst |-> q.dst, amt |-> q.amt, scheduled |-> q.scheduled,
                    status |-> "PROCESSING", verdict |-> "ALLOW"]
              w == [Idle EXCEPT !.op = "execute", !.pc = "evaluate", !.key = k, !.row = r]
  <2>1. ses' = [ses EXCEPT ![s] = w] /\ UNCHANGED <<data, lock>>
    BY <1>1 DEF Execute
  <2>. HIDE DEF r
  <2>2. ses'[s] = w /\ Locally(s)
    BY <2>1, <1>t DEF TypeOK, Locally, data
  <2>3. Blank(s)' /\ ses'[s].op = "execute" /\ ses'[s].pc = "evaluate" /\ ses'[s].held = {}
    BY <2>2 DEF Idle, Blank
  <2>4. RequestBacked(s)'
    BY <2>3 DEF RequestBacked
  <2>. QED
    BY <2>2, <2>3, <2>4, <1>t, BlankStep
<1>2. CASE OpenEvaluation(s)
  <2>1. At(s, "execute", "evaluate") /\ Goto(s, "decide") /\ Blank(s)
        /\ UNCHANGED <<transfers, bal, status, reversed, lock>>
    BY <1>2, <1>q DEF OpenEvaluation, At
  <2>2. RequestBacked(s)'
    BY <2>1, <1>t, GotoFields DEF RequestBacked, Blank
  <2>. QED
    BY <2>1, <2>2, <1>t, GotoBacked DEF At
<1>3. ASSUME NEW v \in Verdicts, Decide(s, v)
      PROVE  MInv'
  <2>1. At(s, "execute", "decide") /\ Blank(s) /\ Locally(s)
    BY <1>3, <1>t, <1>q DEF Decide, At, Locally, TypeOK
  <2>2. /\ ses'[s].held = {} /\ ses'[s].delta = NoChange
        /\ \A k \in Keys : ses'[s].writes[k] = None
        /\ \/ ses'[s].op = "execute" /\ ses'[s].pc \in {"begin", "block"}
           \/ ses'[s].op = "none"
    <3>1. CASE v = "CHALLENGE"
      <4>1. ses' = [ses EXCEPT ![s] = Idle]
        BY <1>3, <3>1 DEF Decide
      <4>. QED
        BY <4>1, <1>t DEF TypeOK, Idle
    <3>2. CASE v # "CHALLENGE"
      <4>1. v \in {"ALLOW", "REVIEW", "BLOCK"}
        BY <3>2
      <4>2. PICK pc \in {"begin", "block"} : ses' = [ses EXCEPT ![s] = [ses[s] EXCEPT !.pc = pc, !.row.verdict = v]]
        BY <1>3, <1>s, <1>t, <4>1 DEF Decide
      <4>3. ses'[s] = [ses[s] EXCEPT !.pc = pc, !.row.verdict = v]
        BY <4>2, <1>t DEF TypeOK
      <4>4. /\ ses'[s].op = ses[s].op /\ ses'[s].pc = pc /\ ses'[s].held = ses[s].held
            /\ ses'[s].writes = ses[s].writes /\ ses'[s].delta = ses[s].delta
        BY <4>3, <1>s DEF Session
      <4>. QED
        BY <2>1, <4>4 DEF At, Blank
    <3>. QED
      BY <3>1, <3>2
  <2>3. ses'[s].op = "execute" => RequestBacked(s)'
    BY <2>2 DEF RequestBacked
  <2>4. Blank(s)'
    BY <2>2 DEF Blank
  <2>. QED
    BY <2>1, <2>2, <2>3, <2>4, <1>t, BlankStep
<1>5. CASE Begin(s)
  <2>1. CASE Abandon(s, "none")
    BY <2>1, <1>t, AbandonBacked
  <2>2. CASE Goto(s, "lockSrc") /\ UNCHANGED <<data, lock>>
    <3>1. At(s, "execute", "begin") /\ Blank(s) /\ UNCHANGED <<transfers, bal, status, reversed>>
      BY <1>5, <1>q, <2>2 DEF Begin, At, data
    <3>2. RequestBacked(s)'
      BY <2>2, <3>1, <1>t, GotoFields DEF RequestBacked, Blank
    <3>. QED
      BY <2>2, <3>1, <3>2, <1>t, GotoBacked DEF At
  <2>. QED
    BY <1>5, <2>1, <2>2 DEF Begin
<1>6. CASE LockSource(s)
  <2>1. CASE Abandon(s, "none")
    BY <2>1, <1>t, AbandonBacked
  <2>2. ASSUME NEW pc, pc = (IF ses[s].row.dst = External THEN "check" ELSE "lockDst"),
               Take(s, ses[s].row.src), Goto(s, pc), UNCHANGED data
        PROVE  MInv'
    <3>1. /\ At(s, "execute", "lockSrc") /\ Blank(s) /\ UNCHANGED <<transfers, bal, status, reversed>>
          /\ \A t \in Sessions \ {s}, a \in Accounts : lock[a] = t => lock'[a] = t
      BY <1>6, <1>t, <1>q, <2>2, LocksStay DEF LockSource, At, data
    <3>2. RequestBacked(s)'
      BY <2>2, <3>1, <1>t, GotoFields DEF RequestBacked, Blank
    <3>. QED
      BY <2>2, <3>1, <3>2, <1>t, GotoBacked DEF At
  <2>. QED
    BY <1>6, <2>1, <2>2 DEF LockSource
<1>7. CASE LockDestination(s)
  <2>1. CASE Abandon(s, "none")
    BY <2>1, <1>t, AbandonBacked
  <2>2. CASE status[ses[s].row.dst] = "ACTIVE" /\ Take(s, ses[s].row.dst) /\ Goto(s, "check") /\ UNCHANGED data
    <3>1. /\ At(s, "execute", "lockDst") /\ Blank(s) /\ UNCHANGED <<transfers, bal, status, reversed>>
          /\ \A t \in Sessions \ {s}, a \in Accounts : lock[a] = t => lock'[a] = t
      BY <1>7, <1>t, <1>q, <2>2, LocksStay DEF LockDestination, At, data
    <3>2. ses[s].row.dst # External => lock'[ses[s].row.dst] = s
      BY <2>2, <1>s, <1>t DEF Take, TypeOK
    <3>3. RequestBacked(s)'
      BY <2>2, <3>1, <3>2, <1>t, GotoFields DEF RequestBacked, Blank
    <3>. QED
      BY <2>2, <3>1, <3>3, <1>t, GotoBacked DEF At
  <2>. QED
    BY <1>7, <2>1, <2>2 DEF LockDestination
<1>8. CASE CheckLimits(s)
  <2>1. CASE Abandon(s, "none")
    BY <2>1, <1>t, AbandonBacked
  <2>2. CASE ~Abandon(s, "none")
    <3>. DEFINE st == IF ReviewFlag(ses[s].key) THEN "UNDER_REVIEW"
                      ELSE IF ses[s].row.scheduled THEN "PENDING" ELSE "COMPLETED"
                w == [ses[s] EXCEPT !.pc = "insert", !.row.status = st]
                a == ses[s].row.src
    <3>1. ses' = [ses EXCEPT ![s] = w] /\ UNCHANGED <<data, lock>>
      BY <1>8, <2>2, <1>s, <1>t DEF CheckLimits, TypeOK
    <3>2. ~(Outflow(a) + ses[s].row.amt > DailyLimit[a]) /\ At(s, "execute", "check")
      BY <1>8, <2>2 DEF CheckLimits
    <3>3. Blank(s) /\ RequestBacked(s) /\ lock[a] = s
      BY <3>2, <1>q, <1>t DEF At, Solvent
    <3>4. Moved(AtOnce(a)) + ses[s].row.amt <= DailyLimit[a]
      <4>1. Moved(AtOnce(a)) <= Outflow(a) /\ Moved(AtOnce(a)) \in Int /\ Outflow(a) \in Int
        BY <1>s, <1>t, AtOnceWithin, AccountSets, MovedIs DEF Outflow
      <4>2. DailyLimit[a] \in Int
        BY <1>s
      <4>. QED
        BY <3>2, <4>1, <4>2, <1>s
    <3>5. /\ w.op = "execute" /\ w.pc = "insert" /\ w.held = ses[s].held
          /\ w.writes = ses[s].writes /\ w.delta = ses[s].delta
          /\ w.row.src = a /\ w.row.amt = ses[s].row.amt /\ w.row.dst = ses[s].row.dst
          /\ w.row.scheduled = ses[s].row.scheduled /\ w.row.status = st
      BY <3>2, <1>s DEF At, Session, Transfer
    <3>6. /\ st \in {"UNDER_REVIEW", "PENDING", "COMPLETED"}
          /\ st = "PENDING" => ses[s].row.scheduled
          /\ st = "COMPLETED" => ~ses[s].row.scheduled
      OBVIOUS
    <3>7. ses'[s] = w /\ (\A t \in Sessions \ {s} : ses'[t] = ses[t])
      BY <3>1, <1>t DEF TypeOK
    <3>8. UNCHANGED <<transfers, bal, status, reversed, lock>>
      BY <3>1 DEF data
    <3>. HIDE DEF w, st
    <3>9. Locally(s) /\ Blank(s)'
      BY <3>3, <3>5, <3>7, <3>8 DEF Locally, Blank
    <3>11. RequestBacked(s)'
      <4>1. a = ses'[s].row.src /\ ses'[s].pc = "insert"
        BY <3>5, <3>7
      <4>2. Moved(AtOnce(ses[s].row.src))' = Moved(AtOnce(a))
        BY <3>8, <4>1 DEF Moved, Amounts, AtOnce, Completed
      <4>3. ses'[s].row.dst # External => lock'[ses'[s].row.dst] = s /\ status'[ses'[s].row.dst] = "ACTIVE"
        BY <3>2, <3>3, <3>5, <3>7, <3>8 DEF RequestBacked, At
      <4>4. lock'[ses'[s].row.src] = s
        BY <3>3, <3>8, <4>1
      <4>5. ses'[s].row.status = "COMPLETED" =>
              ~ses'[s].row.scheduled
              /\ Moved(AtOnce(ses[s].row.src))' + ses'[s].row.amt <= DailyLimit[ses'[s].row.src]
        BY <3>4, <3>5, <3>6, <3>7, <4>1, <4>2
      <4>6. /\ ses'[s].row.status \in {"UNDER_REVIEW", "PENDING", "COMPLETED"}
            /\ ses'[s].row.status = "PENDING" => ses'[s].row.scheduled
        BY <3>5, <3>6, <3>7
      <4>7. ses'[s].held = {}
        BY <3>9 DEF Blank
      <4>. HIDE DEF a
      <4>. QED
        BY <4>1, <4>3, <4>4, <4>5, <4>6, <4>7 DEF RequestBacked
    <3>12. ses'[s].op = "execute"
      BY <3>5, <3>7
    <3>. QED
      BY <3>9, <3>11, <3>12, <1>t, BlankStep
  <2>. QED
    BY <2>1, <2>2
<1>9. CASE InsertTransfer(s)
  <2>1. CASE Abandon(s, "DuplicateKey")
    BY <2>1, <1>t, AbandonBacked
  <2>2. CASE ~Abandon(s, "DuplicateKey")
    <3>k. PICK k \in Keys : k = ses[s].key
      BY <1>s
    <3>. DEFINE r == ses[s].row
                d == IF r.status = "COMPLETED" THEN Post(ses[s].delta, r.src, r.dst, r.amt)
                                               ELSE ses[s].delta
                w == [ses[s] EXCEPT !.pc = "commit", !.held = {k}, !.writes[k] = r, !.delta = d]
    <3>1. ses' = [ses EXCEPT ![s] = w] /\ UNCHANGED <<data, lock>>
      BY <3>k, <1>9, <2>2, <1>s, <1>t DEF InsertTransfer, TypeOK
    <3>2. At(s, "execute", "insert") /\ ~KeyHeld(s, k) /\ transfers[k] = None
      BY <3>k, <1>9, <2>2 DEF InsertTransfer
    <3>3. Blank(s) /\ RequestBacked(s)
      BY <3>2, <1>q DEF At
    <3>4. /\ w.op = "execute" /\ w.pc = "commit" /\ w.held = {k} /\ w.key = k /\ w.row = r
          /\ w.writes[k] = r /\ w.delta = d
          /\ \A j \in Keys \ {k} : w.writes[j] = ses[s].writes[j]
      BY <3>k, <3>2, <1>s DEF At, Session
    <3>5. ses'[s] = w /\ (\A t \in Sessions \ {s} : ses'[t] = ses[t])
      BY <3>1, <1>t DEF TypeOK
    <3>6. UNCHANGED <<transfers, bal, status, reversed, lock>>
      BY <3>1 DEF data
    <3>7. ASSUME NEW a \in Accounts PROVE d[a] = Book!Worth(r, a)
      <4>1. CASE r.status = "COMPLETED"
        BY <4>1, <3>3, <1>s, PostedIs DEF Blank
      <4>2. CASE r.status # "COMPLETED"
        BY <4>2, <3>3, WorthIs DEF Blank, NoChange
      <4>. QED
        BY <4>1, <4>2
    <3>. HIDE DEF w, d
    <3>8. Locally(s)
      BY <3>5, <3>6 DEF Locally
    <3>9. r # None
      BY <1>s
    <3>10. Accounted(ses[s])'
      <4>1. \A a \in Accounts : ses'[s].delta[a] = Change(ses[s], k, a)'
        <5>1. ASSUME NEW a \in Accounts PROVE ses'[s].delta[a] = Change(ses[s], k, a)'
          <6>1. Book!Worth(None, a) = 0 /\ Book!Worth(r, a) \in Int
            BY <1>s, WorthIs
          <6>2. Change(ses[s], k, a)' = Book!Worth(r, a) - Book!Worth(None, a)
            BY <3>2, <3>4, <3>5, <3>6, <3>9, ChangeAfter
          <6>. QED
            BY <3>4, <3>5, <3>7, <6>1, <6>2
        <5>. QED
          BY <5>1
      <4>2. k \in ses'[s].held /\ \A j \in Keys \ {k} : ses'[s].writes[j] = None
        BY <3>3, <3>4, <3>5 DEF Blank
      <4>. QED
        BY <4>1, <4>2, OneAccounted
    <3>11. RequestBacked(s)'
      <4>1. /\ ses'[s].held = {ses'[s].key} /\ transfers'[ses'[s].key] = None
            /\ ses'[s].writes[ses'[s].key] = ses'[s].row /\ ses'[s].row = ses[s].row
            /\ ses'[s].pc = "commit"
        BY <3>2, <3>4, <3>5, <3>6
      <4>2. Moved(AtOnce(ses[s].row.src))' = Moved(AtOnce(ses[s].row.src))
        BY <3>6, <4>1 DEF Moved, Amounts, AtOnce, Completed
      <4>. QED
        BY <3>2, <3>3, <3>6, <4>1, <4>2 DEF RequestBacked, At
    <3>12. Backed(s)'
      BY <3>4, <3>5, <3>10, <3>11 DEF Backed
    <3>13. \A t \in Sessions \ {s} : ses'[s].held \cap ses[t].held = {}
      BY <3>2, <3>4, <3>5 DEF KeyHeld
    <3>. QED
      BY <3>8, <3>12, <3>13, <1>t, LocalBacked
  <2>. QED
    BY <2>1, <2>2
<1>. QED
  BY <1>1, <1>2, <1>3, <1>5, <1>6, <1>7, <1>8, <1>9

\* approve_transfer and reverse_transfer up to their commit.
LEMMA ManagerBacked ==
  ASSUME TInv, MInv, TypeOK', NEW s \in Sessions,
         \/ \E k \in Keys : Approve(s, k) \/ Reverse(s, k)
         \/ Claim(s) \/ ApproveLock(s) \/ ApproveSettle(s) \/ Undo(s) \/ PostMirror(s)
  PROVE  MInv'
<1>. USE TransfersAssumption
<1>t. TypeOK /\ RowsStay /\ Solvent(s) /\ Backed(s)
  BY DEF TInv, MInv
<1>s. /\ ses[s] \in Session /\ ses[s].row \in Transfer /\ ses[s].key \in Keys
      /\ ses[s].row.src \in Accounts
  BY <1>t DEF TypeOK, Session, Transfer
<1>1. ASSUME NEW k \in Keys, NEW op \in {"approve", "reverse"}, NEW st, NEW pc,
             op = "approve" => st = "UNDER_REVIEW" /\ pc = "claim",
             op = "reverse" => st = "COMPLETED" /\ pc = "undo",
             Fetch(s, k, op, st, pc)
      PROVE  MInv'
  <2>. DEFINE w == [Idle EXCEPT !.op = op, !.pc = pc, !.key = k, !.row = transfers[k]]
  <2>1. ses' = [ses EXCEPT ![s] = w] /\ UNCHANGED <<data, lock>> /\ transfers[k].status = st
    BY <1>1 DEF Fetch
  <2>2. /\ w.op = op /\ w.pc = pc /\ w.key = k /\ w.row = transfers[k] /\ w.held = {}
        /\ w.delta = NoChange /\ \A j \in Keys : w.writes[j] = None
    BY DEF Idle
  <2>3. ses'[s] = w /\ Locally(s)
    BY <2>1, <1>t DEF TypeOK, Locally, data
  <2>. HIDE DEF w
  <2>4. Blank(s)'
    BY <2>2, <2>3 DEF Blank
  <2>5. Book!SameTransfer(transfers'[ses'[s].key], ses'[s].row) /\ ses'[s].row = transfers'[ses'[s].key]
    BY <2>1, <2>2, <2>3, SameIs DEF data
  <2>6. op = "approve" => ReviewBacked(ses[s])'
    BY <1>1, <2>1, <2>2, <2>3, <2>5 DEF ReviewBacked
  <2>7. op = "reverse" => ReversalBacked(ses[s])'
    BY <1>1, <2>1, <2>2, <2>3, <2>5 DEF ReversalBacked
  <2>. QED
    BY <2>2, <2>3, <2>4, <2>6, <2>7, <1>t, BlankStep
<1>2. CASE Claim(s)
  <2>1. PICK k \in Keys : k = ses[s].key
    BY <1>s
  <2>. DEFINE r == [transfers[k] EXCEPT !.status = "PROCESSING"]
              w == [ses[s] EXCEPT !.pc = "approveLock", !.held = {k}, !.row = r, !.writes[k] = r]
  <2>2. At(s, "approve", "claim") /\ ~KeyHeld(s, k) /\ ses' = [ses EXCEPT ![s] = w]
        /\ UNCHANGED <<data, lock>>
    BY <1>2, <2>1, <1>t, <1>s DEF Claim, TypeOK
  <2>3. Blank(s) /\ ReviewBacked(ses[s])
    BY <2>2, <1>t, BlankIs DEF At, Backed
  <2>4. transfers[k] \in Transfer /\ transfers[k].status \in {"UNDER_REVIEW", "FAILED"}
    BY <2>1, <2>2, <2>3, <1>t DEF RowsStay, At, TypeOK, ReviewBacked
  <2>5. r \in Transfer /\ r.status = "PROCESSING" /\ Book!SameTransfer(transfers[k], r)
    BY <2>4, SameIs DEF Transfer, Statuses
  <2>. HIDE DEF r
  <2>6. /\ w.op = "approve" /\ w.pc = "approveLock" /\ w.held = {k} /\ w.key = k /\ w.row = r
        /\ w.writes[k] = r /\ w.delta = ses[s].delta
        /\ \A j \in Keys \ {k} : w.writes[j] = ses[s].writes[j]
    BY <2>1, <2>2, <1>s DEF At, Session
  <2>7. ses'[s] = w /\ Locally(s)
    BY <2>2, <1>t DEF TypeOK, Locally, data
  <2>. HIDE DEF w
  <2>8. Accounted(ses[s])'
    <3>1. ASSUME NEW a \in Accounts PROVE ses'[s].delta[a] = Change(ses[s], k, a)'
      <4>1. Book!Worth(transfers[k], a) = 0 /\ Book!Worth(r, a) = 0
        BY <2>4, <2>5, WorthIs
      <4>2. Change(ses[s], k, a)' = 0
        <5>1. ses'[s].writes[k] = r /\ transfers'[k] = transfers[k]
          BY <2>6, <2>7 DEF Locally
        <5>. QED
          BY <5>1, <4>1, ChangeAfter
      <4>. QED
        BY <4>2, <2>3, <2>6, <2>7 DEF Blank, NoChange
    <3>2. k \in ses'[s].held /\ \A j \in Keys \ {k} : ses'[s].writes[j] = None
      BY <2>3, <2>6, <2>7 DEF Blank
    <3>. QED
      BY <3>1, <3>2, OneAccounted
  <2>9. ReviewBacked(ses[s])'
    BY <2>4, <2>5, <2>6, <2>7 DEF ReviewBacked, Locally
  <2>10. Backed(s)'
    BY <2>6, <2>7, <2>8, <2>9 DEF Backed
  <2>11. \A t \in Sessions \ {s} : ses'[s].held \cap ses[t].held = {}
    BY <2>2, <2>6, <2>7 DEF KeyHeld
  <2>. QED
    BY <2>7, <2>10, <2>11, <1>t, LocalBacked
<1>3. CASE ApproveLock(s)
  <2>1. /\ At(s, "approve", "approveLock") /\ Goto(s, "approveSettle")
        /\ Free(s, ses[s].row.src) /\ Take(s, ses[s].row.src) /\ UNCHANGED data
    BY <1>3 DEF ApproveLock
  <2>2. Locally(s)
    BY <2>1, <1>t, LocksStay, GotoFields DEF Locally, data
  <2>3. Accounted(ses[s])' /\ ReviewBacked(ses[s])
    <3>1. Accounted(ses[s]) /\ ReviewBacked(ses[s])
      BY <2>1, <1>t DEF Backed, At
    <3>2. /\ ses'[s].writes = ses[s].writes /\ ses'[s].delta = ses[s].delta
          /\ ses'[s].held = ses[s].held /\ \A k \in ses[s].held : transfers'[k] = transfers[k]
      BY <2>1, <1>t, GotoFields DEF data
    <3>. QED
      BY <3>1, <3>2, AccountedStays
  <2>4. ReviewBacked(ses[s])'
    BY <2>1, <2>2, <2>3, <1>t, GotoFields DEF ReviewBacked, Locally, At
  <2>5. Backed(s)' /\ ses'[s].held = ses[s].held
    BY <2>1, <2>3, <2>4, <1>t, GotoFields DEF Backed, At
  <2>6. \A t \in Sessions \ {s} : ses'[s].held \cap ses[t].held = {}
    BY <2>5 DEF MInv, HeldOnce
  <2>. QED
    BY <2>2, <2>5, <2>6, <1>t, LocalBacked
<1>4. CASE ApproveSettle(s)
  <2>1. CASE Abandon(s, "IllegalTransition")
    BY <2>1, <1>t, AbandonBacked
  <2>2. CASE ~Abandon(s, "IllegalTransition")
    <3>1. PICK k \in Keys : k = ses[s].key
      BY <1>s
    <3>. DEFINE r == [ses[s].row EXCEPT !.status = "FAILED"]
                w == [ses[s] EXCEPT !.pc = "commit", !.writes[k] = r]
    <3>2. At(s, "approve", "approveSettle") /\ ses' = [ses EXCEPT ![s] = w] /\ UNCHANGED <<data, lock>>
      BY <1>4, <2>2, <3>1, <1>t, <1>s DEF ApproveSettle, TypeOK
    <3>3. Accounted(ses[s]) /\ ReviewBacked(ses[s]) /\ ses[s].delta = NoChange /\ ses[s].held = {k}
      BY <3>1, <3>2, <1>t DEF At, Backed, Solvent, ReviewBacked
    <3>4. r \in Transfer /\ r.status = "FAILED"
      BY <1>s DEF Transfer, Statuses
    <3>5. /\ w.op = "approve" /\ w.pc = "commit" /\ w.held = {k} /\ w.key = k /\ w.row = ses[s].row
          /\ w.writes[k] = r /\ w.delta = ses[s].delta
          /\ \A j \in Keys \ {k} : w.writes[j] = ses[s].writes[j]
      BY <3>1, <3>2, <3>3, <1>s DEF At, Session
    <3>6. ses'[s] = w /\ Locally(s)
      BY <3>2, <1>t DEF TypeOK, Locally, data
    <3>. HIDE DEF w, r
    <3>7. Accounted(ses[s])'
      <4>1. ASSUME NEW a \in Accounts PROVE ses'[s].delta[a] = Change(ses[s], k, a)'
        <5>1. transfers[k].status # "COMPLETED"
          BY <3>1, <3>3 DEF ReviewBacked
        <5>2. Book!Worth(transfers[k], a) = 0 /\ Book!Worth(r, a) = 0
          BY <5>1, <3>4, WorthIs
        <5>3. Change(ses[s], k, a)' = 0
          <6>1. ses'[s].writes[k] = r /\ transfers'[k] = transfers[k]
            BY <3>5, <3>6 DEF Locally
          <6>. QED
            BY <6>1, <5>2, ChangeAfter
        <5>. QED
          BY <5>3, <3>3, <3>5, <3>6 DEF NoChange
      <4>2. k \in ses'[s].held /\ \A j \in Keys \ {k} : ses'[s].writes[j] = None
        BY <3>3, <3>5, <3>6 DEF Accounted
      <4>. QED
        BY <4>1, <4>2, OneAccounted
    <3>8. ReviewBacked(ses[s])'
      BY <3>1, <3>3, <3>5, <3>6 DEF ReviewBacked, Locally, r
    <3>9. Backed(s)'
      BY <3>5, <3>6, <3>7, <3>8 DEF Backed
    <3>10. \A t \in Sessions \ {s} : ses'[s].held \cap ses[t].held = {}
      BY <3>3, <3>5, <3>6 DEF MInv, HeldOnce
    <3>. QED
      BY <3>6, <3>9, <3>10, <1>t, LocalBacked
  <2>. QED
    BY <2>1, <2>2
<1>5. CASE Undo(s)
  <2>1. CASE Abandon(s, "AlreadyReversed")
    BY <2>1, <1>t, AbandonBacked
  <2>2. CASE Goto(s, "mirror") /\ UNCHANGED <<data, lock>>
    <3>1. At(s, "reverse", "undo") /\ UNCHANGED <<transfers, bal, status, reversed>>
      BY <1>5, <2>2 DEF Undo, data
    <3>2. Blank(s) /\ ReversalBacked(ses[s])
      BY <3>1, <1>t, BlankIs DEF At, Backed
    <3>3. ReversalBacked(ses[s])'
      BY <2>2, <3>1, <3>2, <1>t, GotoFields DEF ReversalBacked, At
    <3>. QED
      BY <2>2, <3>1, <3>2, <3>3, <1>t, GotoBacked DEF At
  <2>. QED
    BY <1>5, <2>1, <2>2 DEF Undo
<1>6. CASE PostMirror(s)
  <2>1. CASE Abandon(s, "DuplicateReversal")
    BY <2>1, <1>t, AbandonBacked
  <2>2. CASE ~Abandon(s, "DuplicateReversal")
    <3>1. PICK k \in Keys : k = ses[s].key
      BY <1>s
    <3>2. PICK r \in Transfer : r = ses[s].row
      BY <1>s
    <3>. DEFINE q == [r EXCEPT !.status = "REVERSED"]
                d == Post(ses[s].delta, r.dst, r.src, r.amt)
                w == [ses[s] EXCEPT !.pc = "commit", !.held = {k}, !.writes[k] = q, !.delta = d]
    <3>3. /\ At(s, "reverse", "mirror") /\ ~KeyHeld(s, k) /\ k \notin reversed
          /\ ses' = [ses EXCEPT ![s] = w] /\ UNCHANGED <<data, lock>>
      BY <1>6, <2>2, <3>1, <3>2, <1>t, <1>s DEF PostMirror, TypeOK
    <3>4. Blank(s) /\ ReversalBacked(ses[s])
      BY <3>3, <1>t, BlankIs DEF At, Backed
    <3>5. transfers[k] \in Transfer /\ transfers[k] # None
      BY <3>1, <3>3, <1>t DEF RowsStay, At, TypeOK
    <3>6. transfers[k] = r /\ r.status = "COMPLETED"
      <4>1. transfers[k].status # "REVERSED"
        BY <3>3, <3>5 DEF MInv, RowsSound
      <4>2. /\ transfers[k].status = "COMPLETED" /\ r.status = "COMPLETED"
            /\ Book!SameTransfer(transfers[k], r)
        BY <3>1, <3>2, <3>4, <4>1 DEF ReversalBacked
      <4>. QED
        BY <3>5, <4>2, RowIs
    <3>7. q \in Transfer /\ q.status = "REVERSED"
      BY DEF Transfer, Statuses
    <3>8. /\ w.op = "reverse" /\ w.pc = "commit" /\ w.held = {k} /\ w.key = k /\ w.row = r
          /\ w.writes[k] = q /\ w.delta = d
          /\ \A j \in Keys \ {k} : w.writes[j] = ses[s].writes[j]
      BY <3>1, <3>2, <3>3, <1>s DEF At, Session
    <3>9. ses'[s] = w /\ Locally(s)
      BY <3>3, <1>t DEF TypeOK, Locally, data
    <3>10. \A a \in Accounts : d[a] = 0 - Book!Worth(r, a)
      BY <3>4, <3>6, PostedIs DEF Blank
    <3>. HIDE DEF w, d, q
    <3>11. Accounted(ses[s])'
      <4>1. ASSUME NEW a \in Accounts PROVE ses'[s].delta[a] = Change(ses[s], k, a)'
        <5>1. Book!Worth(q, a) = 0
          BY <3>7, WorthIs
        <5>2. Change(ses[s], k, a)' = Book!Worth(q, a) - Book!Worth(r, a)
          <6>1. ses'[s].writes[k] = q /\ transfers'[k] = r /\ q # None
            BY <3>6, <3>7, <3>8, <3>9 DEF Locally
          <6>. QED
            BY <6>1, ChangeAfter
        <5>. QED
          BY <5>1, <5>2, <3>8, <3>9, <3>10
      <4>2. k \in ses'[s].held /\ \A j \in Keys \ {k} : ses'[s].writes[j] = None
        BY <3>4, <3>8, <3>9 DEF Blank
      <4>. QED
        BY <4>1, <4>2, OneAccounted
    <3>12. ReversalBacked(ses[s])'
      <4>1. transfers'[ses'[s].key] = r /\ ses'[s].row = r
        BY <3>6, <3>8, <3>9 DEF Locally
      <4>. QED
        BY <4>1, <3>6, <3>8, <3>9, SameIs DEF ReversalBacked, q
    <3>13. Backed(s)'
      BY <3>8, <3>9, <3>11, <3>12 DEF Backed
    <3>14. \A t \in Sessions \ {s} : ses'[s].held \cap ses[t].held = {}
      BY <3>3, <3>8, <3>9 DEF KeyHeld
    <3>. QED
      BY <3>9, <3>13, <3>14, <1>t, LocalBacked
  <2>. QED
    BY <2>1, <2>2
<1>7. ASSUME NEW k \in Keys, Approve(s, k) \/ Reverse(s, k)
      PROVE  MInv'
  <2>1. CASE Approve(s, k)
    BY <2>1, <1>1 DEF Approve
  <2>2. CASE Reverse(s, k)
    BY <2>2, <1>1 DEF Reverse
  <2>. QED
    BY <1>7, <2>1, <2>2
<1>. QED
  BY <1>2, <1>3, <1>4, <1>5, <1>6, <1>7

\* A session that writes one more row posts what this row changes.
LEMMA OneMoreAccounted ==
  ASSUME TypeOK, TypeOK', NEW s \in Sessions, NEW k \in Keys, Accounted(ses[s]),
         ses[s].writes[k] = None, k \in ses[s].held, ses'[s].held = ses[s].held,
         transfers' = transfers, \A j \in Keys \ {k} : ses'[s].writes[j] = ses[s].writes[j],
         \A a \in Accounts : ses'[s].delta[a] = ses[s].delta[a] + Change(ses[s], k, a)'
  PROVE  Accounted(ses[s])'
<1>1. ASSUME NEW a \in Accounts
      PROVE  ses'[s].delta[a] = SumFunction([j \in Keys |-> Change(ses[s], j, a)'])
  <2>. DEFINE f == Changes(s, a)
              g == [j \in Keys |-> Change(ses[s], j, a)']
  <2>1. \A j \in Keys : f[j] \in Int /\ f[j] = Change(ses[s], j, a) /\ g[j] \in Int /\ g[j] = Change(ses[s], j, a)'
    BY ChangesInt, ChangesAfter
  <2>2. \A j \in Keys \ {k} : f[j] = g[j]
    <3>1. ASSUME NEW j \in Keys \ {k} PROVE Change(ses[s], j, a)' = Change(ses[s], j, a)
      BY ChangeAfter DEF Change
    <3>. QED
      BY <3>1, <2>1
  <2>3. f[k] = 0
    BY <2>1 DEF Change
  <2>4. SumFunction(g) = SumFunctionOnSet(g, Keys)
    BY DEF SumFunction
  <2>5. ses[s].delta[a] = SumFunctionOnSet(f, Keys)
    BY AccountedIs
  <2>6. g[k] = Change(ses[s], k, a)'
    BY <2>1
  <2>. HIDE DEF f, g
  <2>7. /\ SumFunctionOnSet(f, Keys) = f[k] + SumFunctionOnSet(f, Keys \ {k})
        /\ SumFunctionOnSet(g, Keys) = g[k] + SumFunctionOnSet(g, Keys \ {k})
    BY <2>1, TransfersAssumption, SumTake
  <2>8. SumFunctionOnSet(f, Keys \ {k}) = SumFunctionOnSet(g, Keys \ {k})
    BY <2>2, TransfersAssumption, FS_RemoveElement, SumSame
  <2>9. SumFunctionOnSet(f, Keys \ {k}) \in Int
    BY <2>1, TransfersAssumption, FS_RemoveElement, SumInt
  <2>10. ses'[s].delta[a] = ses[s].delta[a] + g[k] /\ g[k] \in Int
    BY <2>1, <2>6
  <2>. QED
    <3>1. PICK x \in Int : x = SumFunctionOnSet(f, Keys \ {k})
      BY <2>9
    <3>2. ses'[s].delta[a] = SumFunction(g)
      BY <2>3, <2>4, <2>5, <2>7, <2>8, <2>10, <3>1
    <3>. QED
      BY <3>2 DEF g
<1>2. \A j \in Keys : ses'[s].writes[j] # None => j \in ses'[s].held
  BY DEF Accounted
<1>. QED
  BY <1>1, <1>2 DEF Accounted

\* process_due_scheduled up to its commit.
LEMMA JobBacked ==
  ASSUME TInv, MInv, TypeOK', NEW s \in Sessions,
         \/ \E D \in SUBSET Keys, k \in Keys : StartJob(s, D, k)
         \/ SettleDue(s)
  PROVE  MInv'
<1>. USE TransfersAssumption
<1>t. TypeOK /\ RowsStay /\ Solvent(s) /\ Backed(s)
  BY DEF TInv, MInv
<1>s. /\ ses[s] \in Session /\ ses[s].row \in Transfer /\ ses[s].key \in Keys
      /\ ses[s].row.src \in Accounts /\ ses[s].delta \in [Accounts -> Int]
  BY <1>t DEF TypeOK, Session, Transfer
<1>1. ASSUME NEW D \in SUBSET Keys, NEW k \in Keys, StartJob(s, D, k)
      PROVE  MInv'
  <2>. DEFINE w == [Idle EXCEPT !.op = "job", !.pc = "jobLock", !.key = k, !.row = transfers[k],
                                !.todo = D \ {k}, !.held = D]
  <2>1. /\ ses' = [ses EXCEPT ![s] = w] /\ UNCHANGED <<data, lock>>
        /\ D \subseteq Due /\ k \in D /\ \A d \in D : ~KeyHeld(s, d)
    BY <1>1 DEF StartJob
  <2>2. /\ w.op = "job" /\ w.pc = "jobLock" /\ w.key = k /\ w.row = transfers[k] /\ w.held = D
        /\ w.todo = D \ {k} /\ w.delta = NoChange /\ \A j \in Keys : w.writes[j] = None
    BY DEF Idle
  <2>3. ses'[s] = w /\ Locally(s)
    BY <2>1, <1>t DEF TypeOK, Locally, data
  <2>. HIDE DEF w
  <2>4. Accounted(ses[s])'
    BY <2>2, <2>3, NothingAccounted
  <2>5. BatchBacked(ses[s])'
    BY <2>1, <2>2, <2>3 DEF BatchBacked, Due, Locally
  <2>6. Backed(s)'
    BY <2>2, <2>3, <2>4, <2>5 DEF Backed
  <2>7. \A t \in Sessions \ {s} : ses'[s].held \cap ses[t].held = {}
    BY <2>1, <2>2, <2>3 DEF KeyHeld
  <2>. QED
    BY <2>3, <2>6, <2>7, <1>t, LocalBacked
<1>2. CASE SettleDue(s)
  <2>1. PICK k \in Keys : k = ses[s].key
    BY <1>s
  <2>2. PICK r \in Transfer : r = ses[s].row
    BY <1>s
  <2>. DEFINE fails == status[r.src] # "ACTIVE" \/ Balance(s, r.src) < r.amt
              q == [r EXCEPT !.status = IF fails THEN "FAILED" ELSE "COMPLETED"]
              d == IF fails THEN ses[s].delta ELSE Post(ses[s].delta, r.src, r.dst, r.amt)
              done == [ses[s] EXCEPT !.writes[k] = q, !.delta = d]
  <2>3. At(s, "job", "jobLock") /\ Free(s, r.src) /\ Take(s, r.src) /\ UNCHANGED data
    BY <1>2, <2>2 DEF SettleDue
  <2>4. \/ ses' = [ses EXCEPT ![s] = [done EXCEPT !.pc = "commit"]]
        \/ \E n \in ses[s].todo :
             ses' = [ses EXCEPT ![s] = [done EXCEPT !.key = n, !.row = transfers[n],
                                                    !.todo = ses[s].todo \ {n}]]
    BY <1>2, <2>1, <2>2 DEF SettleDue
  <2>5. q \in Transfer /\ q.status \in {"FAILED", "COMPLETED"} /\ Book!SameTransfer(r, q)
        /\ q # None /\ q.src = r.src /\ q.dst = r.dst /\ q.amt = r.amt
        /\ q.status = IF fails THEN "FAILED" ELSE "COMPLETED"
    BY SameIs DEF Transfer, Statuses
  <2>. HIDE DEF q
  <2>6. ASSUME NEW a \in Accounts PROVE d[a] = ses[s].delta[a] + Book!Worth(q, a)
    <3>0. ses[s].delta[a] \in Int
      BY <1>s
    <3>1. CASE fails
      <4>1. Book!Worth(q, a) = 0
        BY <3>1, <2>5, WorthIs
      <4>. QED
        BY <4>1, <3>0, <3>1
    <3>2. CASE ~fails
      <4>1. Book!Worth(q, a) = (IF r.dst = a THEN r.amt ELSE 0) - (IF r.src = a THEN r.amt ELSE 0)
        BY <3>2, <2>5, WorthIs
      <4>2. d[a] = ses[s].delta[a] - (IF a = r.src THEN r.amt ELSE 0) + (IF a = r.dst THEN r.amt ELSE 0)
        BY <3>2 DEF Post
      <4>3. r.amt \in Int
        BY DEF Transfer, Amount
      <4>. HIDE DEF d
      <4>. QED
        BY <4>1, <4>2, <4>3, <3>0
    <3>. QED
      BY <3>1, <3>2
  <2>. HIDE DEF fails, d
  <2>7. /\ done \in [op : {"job"}, pc : {"jobLock"}, key : Keys, row : {r}, todo : {ses[s].todo},
                     held : {ses[s].held}, writes : {done.writes}, delta : {d}, crash : Crashes]
        /\ done.writes[k] = q /\ \A j \in Keys \ {k} : done.writes[j] = ses[s].writes[j]
    BY <2>1, <2>2, <2>3, <1>s DEF Session, At
  <2>. HIDE DEF done
  <2>8. /\ ses'[s].op = "job" /\ ses'[s].delta = d /\ ses'[s].held = ses[s].held
        /\ ses'[s].writes[k] = q /\ \A j \in Keys \ {k} : ses'[s].writes[j] = ses[s].writes[j]
        /\ \A t \in Sessions \ {s} : ses'[t] = ses[t]
        /\ \/ ses'[s].pc = "commit"
           \/ \E n \in ses[s].todo : /\ ses'[s].key = n /\ ses'[s].row = transfers[n]
                                     /\ ses'[s].todo = ses[s].todo \ {n}
    <3>1. CASE ses' = [ses EXCEPT ![s] = [done EXCEPT !.pc = "commit"]]
      <4>1. ses'[s] = [done EXCEPT !.pc = "commit"] /\ \A t \in Sessions \ {s} : ses'[t] = ses[t]
        BY <3>1, <1>t DEF TypeOK
      <4>. QED
        BY <2>7, <4>1
    <3>2. ASSUME NEW n \in ses[s].todo,
                 ses' = [ses EXCEPT ![s] = [done EXCEPT !.key = n, !.row = transfers[n],
                                                        !.todo = ses[s].todo \ {n}]]
          PROVE  /\ ses'[s].op = "job" /\ ses'[s].delta = d /\ ses'[s].held = ses[s].held
                 /\ ses'[s].writes[k] = q /\ \A j \in Keys \ {k} : ses'[s].writes[j] = ses[s].writes[j]
                 /\ \A t \in Sessions \ {s} : ses'[t] = ses[t]
                 /\ ses'[s].key = n /\ ses'[s].row = transfers[n] /\ ses'[s].todo = ses[s].todo \ {n}
      <4>1. /\ ses'[s] = [done EXCEPT !.key = n, !.row = transfers[n], !.todo = ses[s].todo \ {n}]
            /\ \A t \in Sessions \ {s} : ses'[t] = ses[t]
        BY <3>2, <1>t DEF TypeOK
      <4>. QED
        BY <2>7, <4>1
    <3>. QED
      BY <2>4, <3>1, <3>2
  <2>9. Accounted(ses[s]) /\ BatchBacked(ses[s])
    BY <2>3, <1>t DEF Backed, At
  <2>10. /\ k \in ses[s].held /\ ses[s].todo \subseteq ses[s].held /\ k \notin ses[s].todo
         /\ \A j \in ses[s].todo \cup {k} : ses[s].writes[j] = None
         /\ r = transfers[k] /\ r.status = "PENDING"
    BY <2>1, <2>2, <2>3, <2>9 DEF BatchBacked, At
  <2>11. transfers' = transfers
    BY <2>3 DEF data
  <2>12. Accounted(ses[s])'
    <3>1. ASSUME NEW a \in Accounts PROVE ses'[s].delta[a] = ses[s].delta[a] + Change(ses[s], k, a)'
      <4>1. Book!Worth(transfers'[k], a) = 0 /\ Book!Worth(q, a) \in Int
        BY <2>5, <2>10, <2>11, WorthIs
      <4>2. Change(ses[s], k, a)' = Book!Worth(q, a)
        <5>1. ses'[s].writes[k] = q /\ q # None
          BY <2>5, <2>8
        <5>2. Change(ses[s], k, a)' = Book!Worth(q, a) - Book!Worth(transfers'[k], a)
          BY <5>1, ChangeAfter
        <5>. QED
          BY <4>1, <5>2
      <4>. QED
        BY <4>2, <2>6, <2>8
    <3>. QED
      BY <3>1, <2>8, <2>9, <2>10, <2>11, <1>t, OneMoreAccounted
  <2>13. BatchBacked(ses[s])'
    <3>1. ASSUME NEW j \in ses'[s].held
          PROVE  /\ transfers'[j] # None /\ transfers'[j].status = "PENDING"
                 /\ ses'[s].writes[j] # None =>
                      /\ Book!SameTransfer(transfers'[j], ses'[s].writes[j])
                      /\ ses'[s].writes[j].status \in {"COMPLETED", "FAILED"}
      <4>1. CASE j = k
        BY <4>1, <2>5, <2>8, <2>9, <2>10, <2>11 DEF BatchBacked
      <4>2. CASE j # k
        <5>1. j \in ses[s].held /\ ses[s].held \subseteq Keys
          BY <2>8, <1>s DEF Session
        <5>2. ses'[s].writes[j] = ses[s].writes[j]
          BY <4>2, <5>1, <2>8
        <5>. QED
          BY <5>1, <5>2, <2>9, <2>11 DEF BatchBacked
      <4>. QED
        BY <4>1, <4>2
    <3>2. ASSUME ses'[s].pc # "commit"
          PROVE  /\ ses'[s].key \in ses'[s].held /\ ses'[s].todo \subseteq ses'[s].held
                 /\ ses'[s].key \notin ses'[s].todo
                 /\ \A j \in ses'[s].todo \cup {ses'[s].key} : ses'[s].writes[j] = None
                 /\ ses'[s].row = transfers'[ses'[s].key]
      <4>1. PICK n \in ses[s].todo : /\ ses'[s].key = n /\ ses'[s].row = transfers[n]
                                     /\ ses'[s].todo = ses[s].todo \ {n}
        BY <3>2, <2>8
      <4>2. ses[s].todo \subseteq Keys \ {k}
        BY <2>10, <1>s DEF Session
      <4>. QED
        BY <4>1, <4>2, <2>8, <2>10, <2>11
    <3>. QED
      BY <3>1, <3>2, SameIs DEF BatchBacked, Book!SameTransfer
  <2>14. Backed(s)'
    BY <2>8, <2>12, <2>13 DEF Backed
  <2>15. Locally(s)
    BY <2>3, <2>8, <1>s, <1>t, <2>2, LocksStay DEF Locally, data
  <2>16. \A t \in Sessions \ {s} : ses'[s].held \cap ses[t].held = {}
    BY <2>8 DEF MInv, HeldOnce
  <2>. QED
    BY <2>14, <2>15, <2>16, <1>t, LocalBacked
<1>. QED
  BY <1>1, <1>2

\* request_account_closure up to its commit.
LEMMA CloseBacked ==
  ASSUME TInv, MInv, TypeOK', NEW s \in Sessions,
         (\E a \in Accounts : Close(s, a)) \/ LockToClose(s) \/ CheckEmpty(s)
  PROVE  MInv'
<1>. USE TransfersAssumption
<1>t. TypeOK /\ RowsStay /\ Solvent(s) /\ Backed(s)
  BY DEF TInv, MInv
<1>s. ses[s] \in Session /\ ses[s].row.src \in Accounts
  BY <1>t DEF TypeOK, Session, Transfer
<1>1. ASSUME NEW a \in Accounts, Close(s, a)
      PROVE  MInv'
  <2>. DEFINE w == [Idle EXCEPT !.op = "close", !.pc = "closeLock", !.row = [NoTransfer EXCEPT !.src = a]]
  <2>1. ses' = [ses EXCEPT ![s] = w] /\ UNCHANGED <<data, lock>>
    BY <1>1 DEF Close
  <2>2. /\ w.op = "close" /\ w.pc = "closeLock" /\ w.held = {} /\ w.delta = NoChange
        /\ \A j \in Keys : w.writes[j] = None
    BY DEF Idle
  <2>3. ses'[s] = w /\ Locally(s)
    BY <2>1, <1>t DEF TypeOK, Locally, data
  <2>. HIDE DEF w
  <2>4. Blank(s)' /\ ClosingBacked(s)'
    BY <2>2, <2>3 DEF Blank, ClosingBacked
  <2>. QED
    BY <2>2, <2>3, <2>4, <1>t, BlankStep
<1>2. CASE LockToClose(s)
  <2>1. /\ At(s, "close", "closeLock") /\ Free(s, ses[s].row.src) /\ Take(s, ses[s].row.src)
        /\ Goto(s, "closeCheck") /\ UNCHANGED data
    BY <1>2 DEF LockToClose
  <2>2. Blank(s)
    BY <2>1, <1>t, BlankIs DEF At
  <2>3. /\ lock'[ses[s].row.src] = s
        /\ \A t \in Sessions \ {s}, a \in Accounts : lock[a] = t => lock'[a] = t
    <3>1. lock'[ses[s].row.src] = s
      BY <2>1, <1>s, <1>t DEF Take, TypeOK
    <3>. QED
      BY <2>1, <3>1, <1>t, LocksStay
  <2>4. ClosingBacked(s)'
    BY <2>1, <2>2, <2>3, <1>t, GotoFields DEF ClosingBacked, Blank
  <2>. QED
    BY <2>1, <2>2, <2>3, <2>4, <1>t, GotoBacked DEF At, data
<1>3. CASE CheckEmpty(s)
  <2>1. CASE Abandon(s, "NotClosable")
    BY <2>1, <1>t, AbandonBacked
  <2>2. CASE ~Abandon(s, "NotClosable")
    <3>1. /\ At(s, "close", "closeCheck") /\ Goto(s, "commit") /\ UNCHANGED <<data, lock>>
          /\ bal[ses[s].row.src] = 0
      BY <1>3, <2>2 DEF CheckEmpty
    <3>2. Blank(s) /\ ClosingBacked(s)
      BY <3>1, <1>t, BlankIs DEF At, Backed
    <3>3. ClosingBacked(s)'
      <4>1. /\ ses'[s].held = {} /\ ses'[s].row = ses[s].row /\ lock'[ses[s].row.src] = s
            /\ bal'[ses[s].row.src] = 0
        BY <3>1, <3>2, <1>t, GotoFields DEF ClosingBacked, At, data
      <4>2. PICK a \in Accounts : a = ses[s].row.src
        BY <1>s
      <4>3. Moved(ByBatch(a))' \in Nat /\ Moved(GivenBack(a))' \in Nat
        <5>1. Moved(ByBatch(a)) \in Nat /\ Moved(GivenBack(a)) \in Nat
          BY <1>t, AccountSets
        <5>2. transfers' = transfers
          BY <3>1 DEF data
        <5>. QED
          BY <5>1, <5>2 DEF Moved, Amounts, ByBatch, Received, GivenBack
      <4>4. a = ses'[s].row.src
        BY <4>1, <4>2
      <4>5. 0 <= Moved(ByBatch(a))' + Moved(GivenBack(a))'
        BY <4>3
      <4>. QED
        BY <4>1, <4>2, <4>4, <4>5 DEF ClosingBacked
    <3>. QED
      BY <3>1, <3>2, <3>3, <1>t, GotoBacked DEF At, data
  <2>. QED
    BY <2>1, <2>2
<1>. QED
  BY <1>1, <1>2, <1>3

-----------------------------------------------------------------------------
(* What a commit does to the rows, and with them to the money.               *)

\* What transfer r has sent from account a at once, and what it lets a keep.
SentNow(r, a) ==
  IF r # None /\ r.src = a /\ r.status = "COMPLETED" /\ ~r.scheduled THEN r.amt ELSE 0

KeptOf(r, a) ==
  (IF r # None /\ r.dst = a /\ r.status = "COMPLETED" /\ r.scheduled THEN r.amt ELSE 0)
  + (IF r # None /\ r.src = a /\ r.status = "REVERSED" THEN r.amt ELSE 0)

SentRows(a) == [k \in Keys |-> SentNow(transfers[k], a)]
KeptRows(a) == [k \in Keys |-> KeptOf(transfers[k], a)]

AccountSums ==
  \A a \in Accounts :
    /\ Moved(AtOnce(a)) = SumFunctionOnSet(SentRows(a), Keys)
    /\ Kept(a) = SumFunctionOnSet(KeptRows(a), Keys)
    /\ Moved(AtOnce(a)) \in Nat /\ Kept(a) \in Nat

LEMMA SumsNow == TypeOK => AccountSums
<1>. SUFFICES ASSUME TypeOK, NEW a \in Accounts
              PROVE  /\ Moved(AtOnce(a)) = SumFunctionOnSet(SentRows(a), Keys)
                     /\ Kept(a) = SumFunctionOnSet(KeptRows(a), Keys)
                     /\ Moved(AtOnce(a)) \in Nat /\ Kept(a) \in Nat
  BY DEF AccountSums
<1>1. \A K \in {AtOnce(a), ByBatch(a), GivenBack(a)} :
        K \in SUBSET Keys /\ \A k \in K : transfers[k] # None
  BY AccountSets
<1>2. \A K \in {AtOnce(a), ByBatch(a), GivenBack(a)} :
        /\ Moved(K) = SumFunctionOnSet(Counted(K), Keys)
        /\ \A k \in Keys : Counted(K)[k] \in Nat
  BY <1>1, MovedIs
<1>3. \A k \in Keys : Counted(AtOnce(a))[k] = SentRows(a)[k]
  BY DEF Counted, AtOnce, Completed, SentRows, SentNow
<1>4. \A k \in Keys : KeptRows(a)[k] = Counted(ByBatch(a))[k] + Counted(GivenBack(a))[k]
  BY DEF Counted, ByBatch, Received, GivenBack, KeptRows, KeptOf
<1>5. SumFunctionOnSet(Counted(AtOnce(a)), Keys) = SumFunctionOnSet(SentRows(a), Keys)
  BY <1>3, TransfersAssumption, SumSame
<1>6. SumFunctionOnSet(KeptRows(a), Keys)
        = SumFunctionOnSet(Counted(ByBatch(a)), Keys) + SumFunctionOnSet(Counted(GivenBack(a)), Keys)
  BY <1>2, <1>4, TransfersAssumption, SumsAdd
<1>7. Moved(AtOnce(a)) \in Nat /\ Kept(a) \in Nat
  BY AccountSets
<1>. QED
  BY <1>2, <1>5, <1>6, <1>7 DEF Kept

LEMMA SumsAfter ==
  ASSUME TypeOK', NEW a \in Accounts
  PROVE  /\ Moved(AtOnce(a))' = SumFunctionOnSet([k \in Keys |-> SentNow(transfers'[k], a)], Keys)
         /\ Kept(a)' = SumFunctionOnSet([k \in Keys |-> KeptOf(transfers'[k], a)], Keys)
         /\ Moved(AtOnce(a))' \in Nat /\ Kept(a)' \in Nat
<1>1. AccountSums'
  BY SumsNow, PTL
<1>. QED
  BY <1>1 DEF AccountSums, SentRows, KeptRows, SentNow, KeptOf

LEMMA RowMoney ==
  ASSUME NEW r \in Transfer \cup {None}, NEW a
  PROVE  SentNow(r, a) \in Nat /\ KeptOf(r, a) \in Nat /\ Book!Worth(r, a) \in Int
<1>1. r # None => r.amt \in Nat
  BY DEF Transfer, Amount
<1>2. SentNow(r, a) \in Nat
  BY <1>1 DEF SentNow
<1>3. KeptOf(r, a) \in Nat
  BY <1>1 DEF KeptOf
<1>. QED
  BY <1>2, <1>3, WorthIs

\* A row p becomes q, and no money that the other sessions do not know of moves.
RowMoves(p, q) ==
  \/ q = p
  \/ /\ p = None /\ q # None /\ q.status \in {"UNDER_REVIEW", "PENDING", "FAILED"}
     /\ q.status = "PENDING" => q.scheduled
  \/ /\ p # None /\ q # None /\ Book!SameTransfer(p, q)
     /\ \/ p.status = "UNDER_REVIEW" /\ q.status = "FAILED"
        \/ p.status = "PENDING" /\ q.status = "COMPLETED" /\ p.scheduled
        \/ p.status = "PENDING" /\ q.status = "FAILED"
        \/ p.status = "COMPLETED" /\ q.status = "REVERSED"

LEMMA RowMovesIs ==
  ASSUME NEW p \in Transfer \cup {None}, NEW q \in Transfer \cup {None}, RowMoves(p, q), NEW a
  PROVE  /\ SentNow(q, a) <= SentNow(p, a)
         /\ Book!Worth(q, a) - Book!Worth(p, a) <= KeptOf(q, a) - KeptOf(p, a)
<1>t. /\ SentNow(p, a) \in Nat /\ KeptOf(p, a) \in Nat /\ Book!Worth(p, a) \in Int
      /\ SentNow(q, a) \in Nat /\ KeptOf(q, a) \in Nat /\ Book!Worth(q, a) \in Int
  BY RowMoney
<1>1. CASE q = p
  BY <1>1, <1>t
<1>2. CASE p = None /\ q # None /\ q.status \in {"UNDER_REVIEW", "PENDING", "FAILED"}
  BY <1>2, <1>t, WorthIs DEF SentNow, KeptOf
<1>3. CASE p # None /\ q # None /\ Book!SameTransfer(p, q)
           /\ \/ p.status = "UNDER_REVIEW" /\ q.status = "FAILED"
              \/ p.status = "PENDING" /\ q.status = "COMPLETED" /\ p.scheduled
              \/ p.status = "PENDING" /\ q.status = "FAILED"
              \/ p.status = "COMPLETED" /\ q.status = "REVERSED"
  <2>1. /\ q.src = p.src /\ q.dst = p.dst /\ q.amt = p.amt /\ q.scheduled = p.scheduled
        /\ p.amt \in Nat
    BY <1>3, SameIs DEF Transfer, Amount
  <2>2. CASE q.status = "FAILED" /\ p.status \in {"UNDER_REVIEW", "PENDING"}
    BY <2>2, <1>3, <1>t, WorthIs DEF SentNow, KeptOf
  <2>3. CASE p.status = "PENDING" /\ q.status = "COMPLETED" /\ p.scheduled
    <3>1. SentNow(q, a) = 0 /\ Book!Worth(p, a) = 0 /\ KeptOf(p, a) = 0
      BY <2>1, <2>3, WorthIs DEF SentNow, KeptOf
    <3>2. KeptOf(q, a) = IF p.dst = a THEN p.amt ELSE 0
      BY <1>3, <2>1, <2>3 DEF KeptOf
    <3>3. Book!Worth(q, a) = (IF p.dst = a THEN p.amt ELSE 0) - (IF p.src = a THEN p.amt ELSE 0)
      BY <1>3, <2>1, <2>3, WorthIs
    <3>. QED
      BY <1>t, <2>1, <3>1, <3>2, <3>3
  <2>4. CASE p.status = "COMPLETED" /\ q.status = "REVERSED"
    <3>1. SentNow(q, a) = 0 /\ Book!Worth(q, a) = 0
      BY <2>4, WorthIs DEF SentNow
    <3>2. /\ KeptOf(q, a) = IF p.src = a THEN p.amt ELSE 0
          /\ KeptOf(p, a) = IF p.dst = a /\ p.scheduled THEN p.amt ELSE 0
      BY <1>3, <2>1, <2>4 DEF KeptOf
    <3>3. Book!Worth(p, a) = (IF p.dst = a THEN p.amt ELSE 0) - (IF p.src = a THEN p.amt ELSE 0)
      BY <1>3, <2>4, WorthIs
    <3>. QED
      BY <1>t, <2>1, <3>1, <3>2, <3>3
  <2>. QED
    BY <1>3, <2>2, <2>3, <2>4
<1>. QED
  BY <1>1, <1>2, <1>3 DEF RowMoves

\* A request commits the transfer it has settled at once.
Enters(s, k) ==
  /\ ses[s].op = "execute" /\ ses[s].pc = "commit" /\ k = ses[s].key
  /\ transfers[k] = None /\ transfers'[k] = ses[s].row
  /\ ses[s].row \in Transfer /\ ses[s].row.status = "COMPLETED" /\ ~ses[s].row.scheduled

LEMMA EntersIs ==
  ASSUME NEW s, NEW k, Enters(s, k), NEW a
  PROVE  /\ SentNow(transfers[k], a) = 0 /\ KeptOf(transfers[k], a) = 0
         /\ Book!Worth(transfers[k], a) = 0 /\ KeptOf(transfers'[k], a) = 0
         /\ SentNow(transfers'[k], a) = IF a = ses[s].row.src THEN ses[s].row.amt ELSE 0
         /\ a # ses[s].row.dst => Book!Worth(transfers'[k], a) <= 0
<1>1. /\ transfers[k] = None /\ transfers'[k] = ses[s].row /\ ses[s].row # None
      /\ ses[s].row.status = "COMPLETED" /\ ~ses[s].row.scheduled /\ ses[s].row.amt \in Nat
  BY TransfersAssumption DEF Enters, Transfer, Amount
<1>2. Book!Worth(transfers[k], a) = 0
  BY <1>1, WorthIs
<1>3. Book!Worth(ses[s].row, a) =
        (IF ses[s].row.dst = a THEN ses[s].row.amt ELSE 0) - (IF ses[s].row.src = a THEN ses[s].row.amt ELSE 0)
  BY <1>1, WorthIs
<1>4. a # ses[s].row.dst => Book!Worth(ses[s].row, a) <= 0
  BY <1>1, <1>3
<1>. QED
  BY <1>1, <1>2, <1>4 DEF SentNow, KeptOf

\* What the changed rows bring account a.
Brought(a) ==
  SumFunctionOnSet([k \in Keys |-> Book!Worth(transfers'[k], a) - Book!Worth(transfers[k], a)], Keys)

\* The steps that change rows: money follows them.
RowsStep(s) ==
  /\ \A k \in Keys : RowMoves(transfers[k], transfers'[k]) \/ Enters(s, k)
  /\ bal' = [a \in Accounts |-> bal[a] + Brought(a)]

\* Only a transfer settled at once counts for the daily limit, and only its
\* receiver gets money that an account may not keep.
LEMMA RowsStepIs ==
  ASSUME TypeOK, TypeOK', NEW s, RowsStep(s), NEW a \in Accounts
  PROVE  /\ (\A k \in Keys : Enters(s, k) => a # ses[s].row.src) =>
              Moved(AtOnce(a))' <= Moved(AtOnce(a))
         /\ (\E k \in Keys : Enters(s, k)) => Moved(AtOnce(a))' <= Moved(AtOnce(a)) + ses[s].row.amt
         /\ (\A k \in Keys : Enters(s, k) => a # ses[s].row.dst) =>
              (bal[a] <= Kept(a) => bal'[a] <= Kept(a)')
<1>. DEFINE p == SentRows(a)
            q == [k \in Keys |-> SentNow(transfers'[k], a)]
            m == KeptRows(a)
            n == [k \in Keys |-> KeptOf(transfers'[k], a)]
            d == [k \in Keys |-> Book!Worth(transfers'[k], a) - Book!Worth(transfers[k], a)]
            e == [k \in Keys |-> n[k] - m[k]]
<1>1. \A k \in Keys : transfers[k] \in Transfer \cup {None} /\ transfers'[k] \in Transfer \cup {None}
  BY DEF TypeOK
<1>2. \A k \in Keys : p[k] \in Nat /\ q[k] \in Nat /\ m[k] \in Nat /\ n[k] \in Nat /\ d[k] \in Int
  BY <1>1, RowMoney DEF SentRows, KeptRows
<1>3. \A k \in Keys : RowMoves(transfers[k], transfers'[k]) => q[k] <= p[k] /\ d[k] <= n[k] - m[k]
  BY <1>1, RowMovesIs DEF SentRows, KeptRows
<1>4. \A k \in Keys : Enters(s, k) =>
        /\ p[k] = 0 /\ m[k] = 0 /\ n[k] = 0
        /\ q[k] = IF a = ses[s].row.src THEN ses[s].row.amt ELSE 0
        /\ a # ses[s].row.dst => d[k] <= 0
  <2>1. ASSUME NEW k \in Keys, Enters(s, k)
        PROVE  /\ p[k] = 0 /\ m[k] = 0 /\ n[k] = 0
               /\ q[k] = IF a = ses[s].row.src THEN ses[s].row.amt ELSE 0
               /\ a # ses[s].row.dst => d[k] <= 0
    <3>1. Book!Worth(transfers'[k], a) \in Int
      BY <1>1, RowMoney
    <3>. QED
      BY <2>1, <3>1, EntersIs DEF SentRows, KeptRows
  <2>. QED
    BY <2>1
<1>5. /\ Moved(AtOnce(a)) = SumFunctionOnSet(p, Keys) /\ Kept(a) = SumFunctionOnSet(m, Keys)
      /\ Moved(AtOnce(a))' = SumFunctionOnSet(q, Keys) /\ Kept(a)' = SumFunctionOnSet(n, Keys)
      /\ bal'[a] = bal[a] + SumFunctionOnSet(d, Keys)
  BY SumsNow, SumsAfter DEF AccountSums, RowsStep, Brought
<1>m. \A k \in Keys : e[k] \in Int /\ n[k] = m[k] + e[k] /\ e[k] = n[k] - m[k]
  BY <1>2
<1>e. \A i, j \in Keys : Enters(s, i) /\ Enters(s, j) => i = j
  BY DEF Enters
<1>6. \A k \in Keys : RowMoves(transfers[k], transfers'[k]) \/ Enters(s, k)
  BY DEF RowsStep
<1>. HIDE DEF p, q, m, n, d, e
<1>7. ASSUME \A k \in Keys : Enters(s, k) => a # ses[s].row.src
      PROVE  Moved(AtOnce(a))' <= Moved(AtOnce(a))
  <2>1. \A k \in Keys : q[k] <= p[k]
    BY <1>2, <1>3, <1>4, <1>6, <1>7
  <2>. QED
    BY <1>2, <1>5, <2>1, TransfersAssumption, SumMonotone
<1>8. ASSUME NEW k \in Keys, Enters(s, k)
      PROVE  Moved(AtOnce(a))' <= Moved(AtOnce(a)) + ses[s].row.amt
  <2>1. ses[s].row.amt \in Nat
    BY <1>8 DEF Enters, Transfer, Amount
  <2>2. \A j \in Keys \ {k} : q[j] <= p[j]
    BY <1>3, <1>6, <1>8, <1>e
  <2>3. q[k] <= p[k] + ses[s].row.amt
    BY <1>4, <1>8, <2>1
  <2>. QED
    BY <1>2, <1>5, <2>1, <2>2, <2>3, TransfersAssumption, SumMoves
<1>9. ASSUME \A k \in Keys : Enters(s, k) => a # ses[s].row.dst, bal[a] <= Kept(a)
      PROVE  bal'[a] <= Kept(a)'
  <2>1. \A k \in Keys : d[k] <= e[k]
    BY <1>2, <1>3, <1>4, <1>6, <1>9, <1>m
  <2>2. SumFunctionOnSet(d, Keys) <= SumFunctionOnSet(e, Keys)
    BY <1>2, <1>m, <2>1, TransfersAssumption, SumMonotone
  <2>3. SumFunctionOnSet(n, Keys) = SumFunctionOnSet(m, Keys) + SumFunctionOnSet(e, Keys)
    BY <1>2, <1>m, TransfersAssumption, SumsAdd
  <2>4. /\ SumFunctionOnSet(d, Keys) \in Int /\ SumFunctionOnSet(e, Keys) \in Int
        /\ SumFunctionOnSet(m, Keys) \in Int
    BY <1>2, <1>m, TransfersAssumption, SumInt
  <2>5. bal[a] \in Int
    BY DEF TypeOK
  <2>6. PICK i \in Int, j \in Int, x \in Int : /\ i = SumFunctionOnSet(d, Keys)
                                               /\ j = SumFunctionOnSet(e, Keys)
                                               /\ x = SumFunctionOnSet(m, Keys)
    BY <2>4
  <2>. QED
    BY <1>5, <1>9, <2>2, <2>3, <2>5, <2>6
<1>. QED
  BY <1>7, <1>8, <1>9

\* What the others rely on stays through a step that changes the rows of s.
LEMMA RowsStepBacked ==
  ASSUME TInv, MInv, TypeOK', NEW s \in Sessions, RowsStep(s),
         \A t \in Sessions \ {s} : /\ ses'[t] = ses[t]
                                   /\ \A k \in ses[t].held : transfers'[k] = transfers[k]
                                   /\ \A a \in Accounts : lock[a] = t =>
                                        lock'[a] = t /\ status'[a] = status[a],
         Blank(s)', ses'[s].op = "none", RowsSound'
  PROVE  MInv'
<1>t. TypeOK /\ RowsStay /\ Backed(s)
  BY DEF TInv, MInv
<1>1. RowsKept
  <2>1. ASSUME NEW k \in Keys, transfers[k] # None
        PROVE  /\ Book!SameTransfer(transfers[k], transfers'[k])
               /\ transfers[k].status \in {"UNDER_REVIEW", "FAILED"} =>
                    transfers'[k].status \in {"UNDER_REVIEW", "FAILED"}
               /\ transfers[k].status \in {"COMPLETED", "REVERSED"} =>
                    transfers'[k].status \in {"COMPLETED", "REVERSED"}
    <3>1. RowMoves(transfers[k], transfers'[k])
      BY <2>1 DEF RowsStep, Enters
    <3>. QED
      BY <2>1, <3>1, SameIs DEF RowMoves
  <2>. QED
    BY <2>1 DEF RowsKept
<1>2. ASSUME NEW k \in Keys, Enters(s, k)
      PROVE  /\ lock[ses[s].row.src] = s
             /\ ses[s].row.dst # External => lock[ses[s].row.dst] = s
  BY <1>t, <1>2 DEF Enters, Backed, RequestBacked
<1>3. ASSUME NEW t \in Sessions, t # s PROVE Backed(t)'
  <2>1. ASSUME NEW a \in Accounts, lock[a] = t
        PROVE  /\ lock'[a] = t /\ status'[a] = status[a]
               /\ Moved(AtOnce(a))' <= Moved(AtOnce(a))
               /\ bal[a] <= Kept(a) => bal'[a] <= Kept(a)'
    <3>1. \A k \in Keys : Enters(s, k) => a # ses[s].row.src /\ a # ses[s].row.dst
      BY <1>2, <1>3, <2>1, TransfersAssumption
    <3>. QED
      BY <1>t, <1>3, <2>1, <3>1, RowsStepIs
  <2>2. \A a \in Accounts : Moved(AtOnce(a)) \in Int /\ Moved(AtOnce(a))' \in Int
    <3>1. ASSUME NEW a \in Accounts PROVE Moved(AtOnce(a)) \in Nat /\ Moved(AtOnce(a))' \in Nat
      BY <1>t, AccountSets, SumsAfter
    <3>. QED
      BY <3>1
  <2>3. Backed(t) /\ ses'[t] = ses[t] /\ \A k \in ses[t].held : transfers'[k] = transfers[k]
    BY <1>3 DEF MInv
  <2>. QED
    BY <1>t, <1>1, <2>1, <2>2, <2>3, OthersBacked
<1>4. Backed(s)'
  <2>1. Accounted(ses[s])' /\ ses'[s].held = {}
    BY NothingAccounted DEF Blank
  <2>. QED
    BY <2>1 DEF Backed
<1>5. HeldOnce'
  BY DEF MInv, HeldOnce, Blank
<1>. QED
  BY <1>3, <1>4, <1>5 DEF MInv

\* What a session that commits has written.
LEMMA WritesMove ==
  ASSUME TInv, MInv, NEW s \in Sessions, Commit(s), NEW k \in Keys
  PROVE  /\ transfers'[k] = (IF ses[s].writes[k] = None THEN transfers[k] ELSE ses[s].writes[k])
         /\ RowMoves(transfers[k], transfers'[k]) \/ Enters(s, k)
         /\ ses[s].op # "reverse" => \/ transfers'[k] = transfers[k]
                                     \/ /\ transfers'[k].status # "REVERSED"
                                        /\ transfers[k] = None \/ transfers[k].status # "REVERSED"
         /\ transfers'[k] # transfers[k] => k \in ses[s].held
<1>. USE TransfersAssumption
<1>t. /\ TypeOK /\ RowsStay /\ Backed(s) /\ ses[s].pc = "commit"
      /\ ses[s] \in Session /\ ses[s].row \in Transfer /\ ses[s].key \in Keys
      /\ ses[s].writes[k] \in Transfer \cup {None} /\ transfers[k] \in Transfer \cup {None}
  BY DEF TInv, MInv, Commit, TypeOK, Session
<1>1. transfers'[k] = (IF ses[s].writes[k] = None THEN transfers[k] ELSE ses[s].writes[k])
  BY DEF Commit
<1>2. CASE ses[s].writes[k] = None
  BY <1>1, <1>2 DEF RowMoves
<1>3. CASE ses[s].writes[k] # None
  <2>1. k \in ses[s].held /\ transfers'[k] = ses[s].writes[k] /\ ses[s].writes[k] \in Transfer
        /\ transfers'[k] # None
    BY <1>1, <1>3, <1>t DEF Backed, Accounted
  <2>2. ses[s].op \in {"none", "execute", "approve", "reverse", "job", "close"}
    BY <1>t DEF Session, Operations
  <2>3. CASE ses[s].op \in {"none", "close"}
    BY <1>t, <2>1, <2>3 DEF Backed, ClosingBacked
  <2>4. CASE ses[s].op = "execute"
    <3>1. /\ k = ses[s].key /\ transfers[k] = None /\ transfers'[k] = ses[s].row
          /\ ses[s].row.status \in {"UNDER_REVIEW", "PENDING", "COMPLETED"}
          /\ ses[s].row.status = "PENDING" => ses[s].row.scheduled
          /\ ses[s].row.status = "COMPLETED" => ~ses[s].row.scheduled
      BY <1>t, <2>1, <2>4 DEF Backed, RequestBacked
    <3>2. CASE ses[s].row.status = "COMPLETED"
      BY <1>1, <1>t, <2>1, <2>4, <3>1, <3>2 DEF Enters
    <3>3. CASE ses[s].row.status # "COMPLETED"
      BY <1>1, <2>1, <3>1, <3>3 DEF RowMoves
    <3>. QED
      BY <3>2, <3>3
  <2>5. CASE ses[s].op = "approve"
    <3>1. /\ k = ses[s].key /\ transfers[k] # None
          /\ Book!SameTransfer(transfers[k], ses[s].row)
          /\ transfers[k].status \in {"UNDER_REVIEW", "FAILED"}
          /\ transfers'[k] = [ses[s].row EXCEPT !.status = "FAILED"]
      BY <1>t, <2>1, <2>5 DEF Backed, ReviewBacked, RowsStay
    <3>2. transfers'[k].status = "FAILED" /\ Book!SameTransfer(transfers[k], transfers'[k])
      BY <3>1, <1>t, SameIs DEF Transfer
    <3>3. CASE transfers[k].status = "FAILED"
      <4>1. transfers'[k] = transfers[k]
        BY <1>t, <2>1, <3>1, <3>2, <3>3, RowIs
      <4>. QED
        BY <1>1, <2>1, <4>1 DEF RowMoves
    <3>4. CASE transfers[k].status = "UNDER_REVIEW"
      BY <1>1, <2>1, <3>1, <3>2, <3>4 DEF RowMoves
    <3>. QED
      BY <3>1, <3>3, <3>4
  <2>6. CASE ses[s].op = "reverse"
    <3>1. /\ k = ses[s].key /\ transfers[k] # None
          /\ Book!SameTransfer(transfers[k], ses[s].row)
          /\ transfers[k].status = "COMPLETED"
          /\ transfers'[k] = [ses[s].row EXCEPT !.status = "REVERSED"]
      BY <1>t, <2>1, <2>6 DEF Backed, ReversalBacked, RowsStay
    <3>2. transfers'[k].status = "REVERSED" /\ Book!SameTransfer(transfers[k], transfers'[k])
      BY <3>1, <1>t, SameIs DEF Transfer
    <3>. QED
      BY <1>1, <2>1, <2>6, <3>1, <3>2 DEF RowMoves
  <2>7. CASE ses[s].op = "job"
    <3>1. /\ transfers[k] # None /\ transfers[k].status = "PENDING"
          /\ Book!SameTransfer(transfers[k], transfers'[k])
          /\ transfers'[k].status \in {"COMPLETED", "FAILED"}
      BY <1>t, <1>3, <2>1, <2>7 DEF Backed, BatchBacked
    <3>2. transfers[k].scheduled
      BY <3>1 DEF MInv, RowsSound
    <3>. QED
      BY <1>1, <2>1, <3>1, <3>2 DEF RowMoves
  <2>. QED
    BY <2>2, <2>3, <2>4, <2>5, <2>6, <2>7
<1>. QED
  BY <1>2, <1>3

LEMMA CommitMoves ==
  ASSUME TInv, MInv, TypeOK', NEW s \in Sessions, Commit(s)
  PROVE  RowsStep(s)
<1>t. TypeOK /\ Accounted(ses[s])
  BY DEF TInv, MInv, Backed
<1>1. \A k \in Keys : RowMoves(transfers[k], transfers'[k]) \/ Enters(s, k)
  BY WritesMove
<1>2. ASSUME NEW a \in Accounts PROVE ses[s].delta[a] = Brought(a)
  <2>. DEFINE f == Changes(s, a)
              g == [k \in Keys |-> Book!Worth(transfers'[k], a) - Book!Worth(transfers[k], a)]
  <2>1. ASSUME NEW k \in Keys PROVE f[k] = g[k]
    <3>1. f[k] = Change(ses[s], k, a) /\ Book!Worth(transfers[k], a) \in Int
      BY <1>t, ChangesInt, WorthIs DEF TypeOK
    <3>2. transfers'[k] = (IF ses[s].writes[k] = None THEN transfers[k] ELSE ses[s].writes[k])
      BY WritesMove
    <3>3. CASE ses[s].writes[k] = None
      <4>1. f[k] = 0 /\ transfers'[k] = transfers[k]
        BY <3>1, <3>2, <3>3 DEF Change
      <4>. QED
        BY <3>1, <4>1
    <3>4. CASE ses[s].writes[k] # None
      BY <3>1, <3>2, <3>4 DEF Change
    <3>. QED
      BY <3>3, <3>4
  <2>2. SumFunctionOnSet(f, Keys) = SumFunctionOnSet(g, Keys)
    <3>. HIDE DEF f, g
    <3>. QED
      BY <2>1, TransfersAssumption, SumSame
  <2>. QED
    BY <1>t, <2>2, AccountedIs DEF Brought
<1>3. bal' = [a \in Accounts |-> bal[a] + ses[s].delta[a]]
  BY DEF Commit
<1>. QED
  BY <1>1, <1>2, <1>3 DEF RowsStep

LEMMA CommitBacked ==
  ASSUME TInv, MInv, TypeOK', NEW s \in Sessions, Commit(s)
  PROVE  MInv'
<1>. USE TransfersAssumption
<1>t. /\ TypeOK /\ RowsStay /\ Backed(s) /\ ses[s].pc = "commit"
      /\ ses[s] \in Session /\ ses[s].row \in Transfer /\ ses[s].key \in Keys
  BY DEF TInv, MInv, Commit, TypeOK, Session
<1>1. /\ ses'[s] = Idle /\ \A t \in Sessions \ {s} : ses'[t] = ses[t]
      /\ lock' = Released(s)
  BY <1>t DEF Commit, TypeOK
<1>2. ASSUME NEW t \in Sessions, t # s, NEW k \in ses[t].held
      PROVE  transfers'[k] = transfers[k]
  <2>1. k \in Keys /\ k \notin ses[s].held
    BY <1>2, <1>t DEF TypeOK, Session, MInv, HeldOnce
  <2>. QED
    BY <2>1, WritesMove
<1>3. ASSUME NEW t \in Sessions, t # s, NEW a \in Accounts, lock[a] = t
      PROVE  lock'[a] = t /\ status'[a] = status[a]
  <2>1. lock'[a] = t
    BY <1>1, <1>3, <1>t, LocksStay
  <2>2. ses[s].op = "close" => lock[ses[s].row.src] = s
    BY <1>t DEF Backed, ClosingBacked
  <2>3. ~(ses[s].op = "close" /\ a = ses[s].row.src)
    BY <1>3, <2>2
  <2>4. status'[a] = IF ses[s].op = "close" /\ a = ses[s].row.src THEN "CLOSED" ELSE status[a]
    BY DEF Commit
  <2>. QED
    BY <2>1, <2>3, <2>4
<1>4. Blank(s)' /\ ses'[s].op = "none"
  BY <1>1 DEF Blank, Idle
<1>5. RowsSound'
  <2>1. ASSUME NEW k \in Keys, transfers'[k] # None, transfers'[k].status = "PENDING"
        PROVE  transfers'[k].scheduled
    <3>1. RowMoves(transfers[k], transfers'[k])
      BY <2>1, WritesMove DEF Enters
    <3>. QED
      BY <2>1, <3>1 DEF RowMoves, MInv, RowsSound
  <2>2. ASSUME NEW k \in Keys
        PROVE  k \in reversed' <=> transfers'[k] # None /\ transfers'[k].status = "REVERSED"
    <3>1. k \in reversed <=> transfers[k] # None /\ transfers[k].status = "REVERSED"
      BY DEF MInv, RowsSound
    <3>2. CASE ses[s].op # "reverse"
      <4>1. reversed' = reversed
        BY <3>2 DEF Commit
      <4>2. \/ transfers'[k] = transfers[k]
            \/ /\ transfers'[k].status # "REVERSED"
               /\ transfers[k] = None \/ transfers[k].status # "REVERSED"
        BY <3>2, WritesMove
      <4>. QED
        BY <3>1, <4>1, <4>2
    <3>3. CASE ses[s].op = "reverse"
      <4>1. reversed' = reversed \cup {ses[s].key}
        BY <3>3 DEF Commit
      <4>2. CASE k = ses[s].key
        <5>1. /\ ses[s].writes[k] = [ses[s].row EXCEPT !.status = "REVERSED"]
          BY <1>t, <3>3, <4>2 DEF Backed, ReversalBacked
        <5>2. ses[s].writes[k] \in Transfer /\ ses[s].writes[k].status = "REVERSED"
          BY <1>t, <5>1 DEF Transfer, Statuses
        <5>3. transfers'[k] # None /\ transfers'[k].status = "REVERSED"
          BY <5>2, WritesMove
        <5>. QED
          BY <4>1, <4>2, <5>3
      <4>3. CASE k # ses[s].key
        <5>1. transfers'[k] = transfers[k]
          BY <1>t, <3>3, <4>3, WritesMove DEF Backed, ReversalBacked
        <5>. QED
          BY <3>1, <4>1, <4>3, <5>1
      <4>. QED
        BY <4>2, <4>3
    <3>. QED
      BY <3>2, <3>3
  <2>. QED
    BY <2>1, <2>2 DEF RowsSound
<1>6. RowsStep(s)
  BY CommitMoves
<1>. QED
  BY <1>1, <1>2, <1>3, <1>4, <1>5, <1>6, RowsStepBacked

\* RecordBlocked enters a row that moves no money.
LEMMA BlockedMoves ==
  ASSUME TInv, MInv, TypeOK', NEW s \in Sessions, RecordBlocked(s)
  PROVE  RowsStep(s) /\ MInv'
<1>. USE TransfersAssumption
<1>t. TypeOK /\ RowsStay /\ Backed(s)
  BY DEF TInv, MInv
<1>s. ses[s] \in Session /\ ses[s].row \in Transfer /\ ses[s].key \in Keys
  BY <1>t DEF TypeOK, Session
<1>1. PICK k \in Keys : k = ses[s].key
  BY <1>s
<1>2. PICK q \in Transfer : q = [ses[s].row EXCEPT !.status = "FAILED"] /\ q.status = "FAILED"
  <2>. DEFINE r == [ses[s].row EXCEPT !.status = "FAILED"]
  <2>1. r \in Transfer /\ r.status = "FAILED"
    BY <1>s DEF Transfer, Statuses
  <2>. HIDE DEF r
  <2>2. \E q \in Transfer : q = r /\ q.status = "FAILED"
    BY <2>1
  <2>. QED
    BY <2>2 DEF r
<1>3. /\ ~KeyHeld(s, k) /\ UNCHANGED <<bal, status, reversed, lock>>
      /\ transfers' = IF transfers[k] = None THEN [transfers EXCEPT ![k] = q] ELSE transfers
  BY <1>1, <1>2 DEF RecordBlocked
<1>4. /\ \A t \in Sessions \ {s} : ses'[t] = ses[t]
      /\ Blank(s)' /\ ses'[s].op = "none"
  <2>1. PICK why : ses' = [ses EXCEPT ![s] = [Idle EXCEPT !.crash = why]]
    BY DEF RecordBlocked
  <2>2. ses'[s] = [Idle EXCEPT !.crash = why] /\ \A t \in Sessions \ {s} : ses'[t] = ses[t]
    BY <2>1, <1>t DEF TypeOK
  <2>. QED
    BY <2>2 DEF Idle, Blank
<1>5. ASSUME NEW j \in Keys
      PROVE  \/ transfers'[j] = transfers[j]
             \/ j = k /\ transfers[j] = None /\ transfers'[j] = q
  BY <1>3, <1>t DEF TypeOK
<1>6. ASSUME NEW j \in Keys
      PROVE  /\ RowMoves(transfers[j], transfers'[j])
             /\ \A a \in Accounts : Book!Worth(transfers'[j], a) - Book!Worth(transfers[j], a) = 0
  <2>1. CASE transfers'[j] = transfers[j]
    <3>1. \A a \in Accounts : Book!Worth(transfers[j], a) \in Int
      BY <1>t, WorthIs DEF TypeOK
    <3>. QED
      BY <2>1, <3>1 DEF RowMoves
  <2>2. CASE transfers[j] = None /\ transfers'[j] = q
    <3>1. \A a \in Accounts : Book!Worth(q, a) = 0 /\ Book!Worth(None, a) = 0
      BY <1>2, WorthIs
    <3>2. RowMoves(transfers[j], transfers'[j])
      BY <1>2, <2>2 DEF RowMoves
    <3>. QED
      BY <2>2, <3>1, <3>2
  <2>. QED
    BY <1>5, <2>1, <2>2
<1>7. RowsStep(s)
  <2>1. ASSUME NEW a \in Accounts PROVE bal[a] + Brought(a) = bal[a]
    <3>. DEFINE g == [j \in Keys |-> Book!Worth(transfers'[j], a) - Book!Worth(transfers[j], a)]
    <3>1. \A j \in Keys : g[j] = 0
      BY <1>6
    <3>2. SumFunctionOnSet(g, Keys) = 0
      <4>. HIDE DEF g
      <4>. QED
        BY <3>1, SumZero
    <3>3. bal[a] \in Int
      BY <1>t DEF TypeOK
    <3>. QED
      BY <3>2, <3>3 DEF Brought
  <2>2. bal' = [a \in Accounts |-> bal[a] + Brought(a)]
    BY <1>3, <1>t, <2>1 DEF TypeOK
  <2>. QED
    BY <1>6, <2>2 DEF RowsStep
<1>8. RowsSound'
  <2>1. ASSUME NEW j \in Keys
        PROVE  /\ transfers'[j] # None /\ transfers'[j].status = "PENDING" => transfers'[j].scheduled
               /\ j \in reversed' <=> transfers'[j] # None /\ transfers'[j].status = "REVERSED"
    <3>1. /\ transfers[j] # None /\ transfers[j].status = "PENDING" => transfers[j].scheduled
          /\ j \in reversed <=> transfers[j] # None /\ transfers[j].status = "REVERSED"
      BY DEF MInv, RowsSound
    <3>. QED
      BY <1>2, <1>3, <1>5, <3>1
  <2>. QED
    BY <2>1 DEF RowsSound
<1>9. ASSUME NEW t \in Sessions, t # s, NEW j \in ses[t].held
      PROVE  transfers'[j] = transfers[j]
  <2>1. j \in Keys /\ j # k
    BY <1>3, <1>9, <1>t DEF KeyHeld, TypeOK, Session
  <2>. QED
    BY <1>5, <2>1
<1>. QED
  BY <1>3, <1>4, <1>7, <1>8, <1>9, RowsStepBacked

-----------------------------------------------------------------------------
(* The invariant, and what follows from it.                                  *)

LEMMA InitBacked == Init => MInv
<1>. SUFFICES ASSUME Init PROVE MInv
  OBVIOUS
<1>1. \A s \in Sessions : ses[s] = Idle
  BY DEF Init
<1>i. /\ Idle.op = "none" /\ Idle.held = {} /\ \A k \in Keys : Idle.writes[k] = None
      /\ \A a \in Accounts : Idle.delta[a] = 0
  BY DEF Idle, NoChange
<1>2. ASSUME NEW s \in Sessions PROVE Backed(s)
  <2>1. /\ ses[s].op = "none" /\ ses[s].held = {} /\ \A k \in Keys : ses[s].writes[k] = None
        /\ \A a \in Accounts : ses[s].delta[a] = 0
    BY <1>1, <1>i
  <2>2. ASSUME NEW a \in Accounts PROVE SumFunction([k \in Keys |-> Change(ses[s], k, a)]) = 0
    <3>1. \A k \in Keys : [i \in Keys |-> Change(ses[s], i, a)][k] = 0
      BY <2>1 DEF Change
    <3>. QED
      BY <3>1, TransfersAssumption, SumZero DEF SumFunction
  <2>. QED
    BY <2>1, <2>2 DEF Backed, Accounted
<1>3. HeldOnce
  BY <1>1, <1>i DEF HeldOnce
<1>4. RowsSound
  BY DEF Init, RowsSound
<1>. QED
  BY <1>2, <1>3, <1>4 DEF MInv

\* A step commits rows, or the committed rows and balances stay.
LEMMA StepBacked ==
  ASSUME TInv, MInv, [Next]_vars
  PROVE  /\ MInv'
         /\ \/ UNCHANGED <<transfers, bal, status>>
            \/ \E s \in Sessions : RowsStep(s) /\ (Commit(s) \/ RecordBlocked(s))
<1>1. TInv' /\ TypeOK /\ RowsStay /\ TypeOK'
  BY NextInvariant DEF TInv
<1>2. CASE UNCHANGED vars
  <2>1. \A s \in Sessions : Accounted(ses[s]) <=> Accounted(ses[s])'
    BY <1>2 DEF vars, Accounted, Change, Book!Worth
  <2>2. \A s \in Sessions : RequestBacked(s) <=> RequestBacked(s)'
    BY <1>2 DEF vars, RequestBacked, Moved, Amounts, AtOnce, Completed
  <2>3. \A s \in Sessions : ClosingBacked(s) <=> ClosingBacked(s)'
    BY <1>2 DEF vars, ClosingBacked, Moved, Amounts, ByBatch, Received, GivenBack
  <2>4. ASSUME NEW s \in Sessions
        PROVE  /\ ReviewBacked(ses[s]) <=> ReviewBacked(ses[s])'
               /\ ReversalBacked(ses[s]) <=> ReversalBacked(ses[s])'
               /\ BatchBacked(ses[s]) <=> BatchBacked(ses[s])'
    BY <1>2 DEF vars, ReviewBacked, ReversalBacked, BatchBacked, Book!SameTransfer
  <2>5. \A s \in Sessions : Backed(s)'
    BY <1>2, <2>1, <2>2, <2>3, <2>4 DEF vars, MInv, Backed
  <2>6. HeldOnce' /\ RowsSound'
    BY <1>2 DEF vars, MInv, HeldOnce, RowsSound
  <2>. QED
    BY <1>2, <2>5, <2>6 DEF vars, MInv
<1>3. ASSUME NEW s \in Sessions, Commit(s)
      PROVE  MInv' /\ RowsStep(s)
  BY <1>1, <1>3, CommitBacked, CommitMoves
<1>4. ASSUME NEW s \in Sessions, RecordBlocked(s)
      PROVE  MInv' /\ RowsStep(s)
  BY <1>1, <1>4, BlockedMoves
<1>5. ASSUME NEW s \in Sessions,
             \/ \E k \in Keys, q \in Requests : Execute(s, k, q)
             \/ OpenEvaluation(s) \/ (\E v \in Verdicts : Decide(s, v))
             \/ Begin(s) \/ LockSource(s) \/ LockDestination(s)
             \/ CheckLimits(s) \/ InsertTransfer(s)
      PROVE  MInv' /\ UNCHANGED <<transfers, bal, status>>
  <2>1. UNCHANGED <<transfers, bal, status>>
    BY <1>5 DEF Execute, OpenEvaluation, Decide, Begin, LockSource, LockDestination,
                CheckLimits, InsertTransfer, Abandon, data
  <2>. QED
    BY <1>1, <1>5, <2>1, ExecuteBacked
<1>6. ASSUME NEW s \in Sessions,
             \/ \E k \in Keys : Approve(s, k) \/ Reverse(s, k)
             \/ Claim(s) \/ ApproveLock(s) \/ ApproveSettle(s) \/ Undo(s) \/ PostMirror(s)
      PROVE  MInv' /\ UNCHANGED <<transfers, bal, status>>
  <2>1. UNCHANGED <<transfers, bal, status>>
    BY <1>6 DEF Approve, Reverse, Fetch, Claim, ApproveLock, ApproveSettle, Undo, PostMirror,
                Abandon, data
  <2>. QED
    BY <1>1, <1>6, <2>1, ManagerBacked
<1>7. ASSUME NEW s \in Sessions,
             \/ \E D \in SUBSET Keys, k \in Keys : StartJob(s, D, k)
             \/ SettleDue(s)
             \/ (\E a \in Accounts : Close(s, a)) \/ LockToClose(s) \/ CheckEmpty(s)
             \/ Crash(s) \/ BreakDeadlock(s)
      PROVE  MInv' /\ UNCHANGED <<transfers, bal, status>>
  <2>1. UNCHANGED <<transfers, bal, status>>
    BY <1>7 DEF StartJob, SettleDue, Close, LockToClose, CheckEmpty, Crash, BreakDeadlock,
                Abandon, data
  <2>2. CASE Crash(s) \/ BreakDeadlock(s)
    BY <1>1, <2>1, <2>2, AbandonBacked DEF Crash, BreakDeadlock
  <2>. QED
    BY <1>1, <1>7, <2>1, <2>2, JobBacked, CloseBacked
<1>8. CASE \E s \in Sessions : Commit(s) \/ RecordBlocked(s)
  BY <1>3, <1>4, <1>8
<1>9. CASE ~(\E s \in Sessions : Commit(s) \/ RecordBlocked(s)) /\ Next
  BY <1>5, <1>6, <1>7, <1>9 DEF Next, Proceed
<1>. QED
  BY <1>2, <1>8, <1>9

\* MInv holds at all times: what each open transaction will commit is backed by
\* the rows, keys and accounts it holds, whatever the others do meanwhile.
THEOREM TransfersBacked == Spec => []MInv
<1>1. TInv /\ MInv /\ [Next]_vars => TInv' /\ MInv'
  BY NextInvariant, StepBacked
<1>. QED
  BY <1>1, InitInvariant, InitBacked, PTL DEF Spec

\* Balances are what the committed rows brought.
Balanced ==
  \A a \in Accounts : bal[a] = InitialBalance[a] + SumFunctionOnSet(Brings(a), Keys)

LEMMA InitBalanced == Init => Balanced
<1>. SUFFICES ASSUME Init, NEW a \in Accounts
              PROVE  bal[a] = InitialBalance[a] + SumFunctionOnSet(Brings(a), Keys)
  BY DEF Balanced
<1>1. \A k \in Keys : Brings(a)[k] = 0
  BY WorthIs DEF Init, Brings
<1>2. SumFunctionOnSet(Brings(a), Keys) = 0
  BY <1>1, TransfersAssumption, SumZero
<1>. QED
  BY <1>2, TransfersAssumption DEF Init

LEMMA StepBalanced ==
  ASSUME TypeOK, TypeOK', Balanced, NEW s, RowsStep(s)
  PROVE  Balanced'
<1>1. ASSUME NEW a \in Accounts
      PROVE  bal'[a] = InitialBalance[a] + SumFunctionOnSet([k \in Keys |-> Book!Worth(transfers[k], a)'], Keys)
  <2>. DEFINE f == Brings(a)
              g == [k \in Keys |-> Book!Worth(transfers'[k], a) - Book!Worth(transfers[k], a)]
              h == [k \in Keys |-> Book!Worth(transfers[k], a)']
  <2>1. ASSUME NEW k \in Keys PROVE f[k] \in Int /\ g[k] \in Int /\ h[k] = f[k] + g[k]
    <3>1. transfers[k] \in Transfer \cup {None} /\ transfers'[k] \in Transfer \cup {None}
      BY DEF TypeOK
    <3>2. Book!Worth(transfers[k], a) \in Int /\ Book!Worth(transfers'[k], a) \in Int
      BY <3>1, WorthIs
    <3>3. Book!Worth(transfers[k], a)' = Book!Worth(transfers'[k], a)
      BY DEF Book!Worth
    <3>. QED
      BY <3>2, <3>3 DEF Brings
  <2>2. bal'[a] = bal[a] + SumFunctionOnSet(g, Keys)
    BY DEF RowsStep, Brought
  <2>3. bal[a] = InitialBalance[a] + SumFunctionOnSet(f, Keys)
    BY DEF Balanced
  <2>4. bal'[a] = InitialBalance[a] + SumFunctionOnSet(h, Keys)
    <3>. HIDE DEF f, g, h
    <3>1. SumFunctionOnSet(h, Keys) = SumFunctionOnSet(f, Keys) + SumFunctionOnSet(g, Keys)
      BY <2>1, TransfersAssumption, SumsAdd
    <3>2. PICK i \in Int, j \in Int : i = SumFunctionOnSet(f, Keys) /\ j = SumFunctionOnSet(g, Keys)
      BY <2>1, TransfersAssumption, SumInt
    <3>3. InitialBalance[a] \in Int
      BY TransfersAssumption
    <3>. QED
      BY <2>2, <2>3, <3>1, <3>2, <3>3
  <2>. QED
    BY <2>4
<1>. QED
  BY <1>1 DEF Balanced, Brings

LEMMA BalancedMatches == TypeOK /\ Balanced => MoneyMatchesRows
<1>. SUFFICES ASSUME TypeOK, Balanced, NEW a \in Accounts
              PROVE  bal[a] = InitialBalance[a] + Moved(Received(a)) - Moved(Completed(a))
  BY DEF MoneyMatchesRows
<1>1. bal[a] = InitialBalance[a] + (Moved(Received(a)) - Moved(Completed(a)))
  BY BringsIs DEF Balanced
<1>2. Moved(Received(a)) \in Nat /\ Moved(Completed(a)) \in Nat /\ InitialBalance[a] \in Nat
  BY AccountSets, MovedIs, TransfersAssumption
<1>. QED
  BY <1>1, <1>2

\* The ledger and the transfer table agree at every commit: no interleaving,
\* crash or retry posts a journal without its row, completes a row twice or
\* reverses it twice.
THEOREM TransfersMatchLedger == Spec => []MoneyMatchesRows
<1>1. TInv /\ MInv /\ Balanced /\ [Next]_vars => Balanced'
  <2>. SUFFICES ASSUME TInv, MInv, Balanced, [Next]_vars PROVE Balanced'
    OBVIOUS
  <2>1. CASE UNCHANGED <<transfers, bal, status>>
    BY <2>1 DEF Balanced, Brings, Book!Worth
  <2>2. ASSUME NEW s \in Sessions, RowsStep(s) PROVE Balanced'
    BY <2>2, NextInvariant, StepBalanced DEF TInv
  <2>. QED
    BY <2>1, <2>2, StepBacked
<1>2. TInv /\ Balanced => MoneyMatchesRows
  BY BalancedMatches DEF TInv
<1>. QED
  BY <1>1, <1>2, InitBalanced, TransferInvariant, TransfersBacked, PTL DEF Spec

\* What a request that commits now adds was checked against the limit, and
\* nobody has sent from its account since.
LEMMA StepWithinLimit ==
  ASSUME TInv, MInv, DailyLimitHeld, [Next]_vars
  PROVE  DailyLimitHeld'
<1>t. TypeOK /\ TypeOK'
  BY NextInvariant DEF TInv
<1>1. CASE UNCHANGED <<transfers, bal, status>>
  BY <1>1 DEF DailyLimitHeld, Moved, Amounts, AtOnce, Completed
<1>2. ASSUME NEW s \in Sessions, RowsStep(s), NEW a \in Accounts
      PROVE  Moved(AtOnce(a))' <= DailyLimit[a]
  <2>1. Moved(AtOnce(a)) \in Nat /\ Moved(AtOnce(a))' \in Nat /\ DailyLimit[a] \in Nat
    BY <1>t, AccountSets, SumsAfter, TransfersAssumption
  <2>2. CASE \A k \in Keys : Enters(s, k) => a # ses[s].row.src
    <3>1. Moved(AtOnce(a))' <= Moved(AtOnce(a))
      BY <1>t, <1>2, <2>2, RowsStepIs
    <3>2. Moved(AtOnce(a)) <= DailyLimit[a]
      BY DEF DailyLimitHeld
    <3>. QED
      BY <2>1, <3>1, <3>2
  <2>3. ASSUME NEW k \in Keys, Enters(s, k), a = ses[s].row.src
        PROVE  Moved(AtOnce(a))' <= DailyLimit[a]
    <3>1. Moved(AtOnce(a))' <= Moved(AtOnce(a)) + ses[s].row.amt
      BY <1>t, <1>2, <2>3, RowsStepIs
    <3>2. Moved(AtOnce(a)) + ses[s].row.amt <= DailyLimit[a]
      BY <2>3 DEF Enters, MInv, Backed, RequestBacked
    <3>3. ses[s].row.amt \in Nat
      BY <2>3 DEF Enters, Transfer, Amount
    <3>. QED
      BY <2>1, <3>1, <3>2, <3>3
  <2>. QED
    BY <2>2, <2>3
<1>3. ASSUME NEW s \in Sessions, RowsStep(s) PROVE DailyLimitHeld'
  BY <1>2, <1>3 DEF DailyLimitHeld
<1>. QED
  BY <1>1, <1>3, StepBacked

\* Concurrent requests cannot pass the daily limit together.
THEOREM TransfersWithinLimit == Spec => []DailyLimitHeld
<1>1. Init => DailyLimitHeld
  <2>. SUFFICES ASSUME Init, NEW a \in Accounts PROVE Moved(AtOnce(a)) <= DailyLimit[a]
    BY DEF DailyLimitHeld
  <2>1. AtOnce(a) = {}
    BY DEF Init, AtOnce, Completed
  <2>2. Moved(AtOnce(a)) = 0
    BY <2>1, SumEmpty DEF Moved, Amounts, SumFunction
  <2>. QED
    BY <2>2, TransfersAssumption
<1>. QED
  BY <1>1, StepWithinLimit, TransferInvariant, TransfersBacked, PTL DEF Spec

\* A request brings money only to an account that is active and that it locks,
\* and closing finds the account empty but for what it may keep.
LEMMA StepStaysEmpty ==
  ASSUME TInv, MInv, ClosedStaysEmpty, [Next]_vars
  PROVE  ClosedStaysEmpty'
<1>t. TypeOK /\ TypeOK'
  BY NextInvariant DEF TInv
<1>1. CASE UNCHANGED <<transfers, bal, status>>
  BY <1>1 DEF ClosedStaysEmpty, Moved, Amounts, ByBatch, Received, GivenBack
<1>2. ASSUME NEW s \in Sessions, RowsStep(s), Commit(s) \/ RecordBlocked(s),
             NEW a \in Accounts, status'[a] = "CLOSED"
      PROVE  bal'[a] <= Kept(a)'
  <2>1. \A k \in Keys : Enters(s, k) => a # ses[s].row.dst
    <3>1. ASSUME NEW k \in Keys, Enters(s, k), a = ses[s].row.dst PROVE FALSE
      <4>1. status[a] = "ACTIVE"
        BY <3>1, TransfersAssumption DEF Enters, MInv, Backed, RequestBacked
      <4>2. status'[a] = status[a]
        BY <1>2, <3>1 DEF Commit, RecordBlocked, Enters
      <4>. QED
        BY <1>2, <4>1, <4>2
    <3>. QED
      BY <3>1
  <2>2. bal[a] <= Kept(a)
    <3>1. CASE status[a] = "CLOSED"
      BY <3>1 DEF ClosedStaysEmpty, Kept
    <3>2. CASE status[a] # "CLOSED"
      <4>1. Commit(s) /\ ses[s].op = "close" /\ a = ses[s].row.src
        BY <1>2, <3>2 DEF Commit, RecordBlocked
      <4>. QED
        BY <4>1 DEF Commit, MInv, Backed, ClosingBacked, Kept
    <3>. QED
      BY <3>1, <3>2
  <2>. QED
    BY <1>t, <1>2, <2>1, <2>2, RowsStepIs
<1>3. ASSUME NEW s \in Sessions, RowsStep(s), Commit(s) \/ RecordBlocked(s)
      PROVE  ClosedStaysEmpty'
  BY <1>2, <1>3 DEF ClosedStaysEmpty, Kept
<1>. QED
  BY <1>1, <1>3, StepBacked

\* A closed account has no money but what the batch and reversals credit
\* without its lock.
THEOREM ClosedAccountsStayEmpty == Spec => []ClosedStaysEmpty
<1>1. Init => ClosedStaysEmpty
  BY DEF Init, ClosedStaysEmpty
<1>. QED
  BY <1>1, StepStaysEmpty, TransferInvariant, TransfersBacked, PTL DEF Spec

\* The book adds up as we do.
LEMMA BookSumIs ==
  ASSUME NEW f
  PROVE  Book!SumFunction(f) = SumFunctionOnSet(f, DOMAIN f)
BY DEF SumFunctionOnSet, FoldFunctionOnSet, MapThenFoldSet,
       Book!SumFunction, Book!SumFunctionOnSet, Book!FoldFunctionOnSet, Book!MapThenFoldSet

\* A step of the sessions is a step of the book, or none.
LEMMA StepInBook ==
  ASSUME TInv, MInv, [Next]_vars
  PROVE  [Book!Next]_<<transfers, bal>>
<1>1. ASSUME NEW s \in Sessions, RowsStep(s) PROVE Book!Next
  <2>1. ASSUME NEW k \in Keys PROVE Book!Moves(transfers[k], transfers'[k])
    <3>1. CASE Enters(s, k)
      BY <3>1 DEF Enters, Book!Moves, Book!Entry
    <3>2. CASE RowMoves(transfers[k], transfers'[k])
      BY <3>2 DEF RowMoves, Book!Moves, Book!Entry, Book!Legal
    <3>. QED
      BY <1>1, <3>1, <3>2 DEF RowsStep
  <2>2. ASSUME NEW a \in Accounts
        PROVE  Brought(a) = Book!SumFunction([k \in Keys |->
                              Book!Worth(transfers'[k], a) - Book!Worth(transfers[k], a)])
    BY BookSumIs DEF Brought
  <2>3. bal' = [a \in Accounts |-> bal[a] + Book!SumFunction([k \in Keys |->
                 Book!Worth(transfers'[k], a) - Book!Worth(transfers[k], a)])]
    BY <1>1, <2>2 DEF RowsStep
  <2>. QED
    BY <2>1, <2>3 DEF Book!Next
<1>. QED
  BY <1>1, StepBacked

\* The sessions implement the book: whoever reads the committed rows and
\* balances sees transfers enter once, move along legal transitions only, and
\* money move in the same step.
THEOREM TransfersImplementBook == Spec => BookSpec
<1>1. Init => Book!Init
  BY DEF Init, Book!Init
<1>2. TInv /\ MInv /\ [Next]_vars => [Book!Next]_<<transfers, bal>>
  BY StepInBook
<1>. QED
  BY <1>1, <1>2, TransferInvariant, TransfersBacked, PTL DEF Spec, BookSpec, Book!Spec
=============================================================================
