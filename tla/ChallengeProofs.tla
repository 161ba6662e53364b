--------------------------- MODULE ChallengeProofs ---------------------------
(***************************************************************************)
(* Proofs about Challenge, for any number of sessions and challenges, any  *)
(* MAX_ATTEMPTS and any number of crashes.  Most steps change one          *)
(* session's locals only (LocalStep) or write EXPIRED on one row           *)
(* (ExpiringStep); issuing, consuming and delivering are treated alone.    *)
(***************************************************************************)
EXTENDS Challenge, TableTheorems

LEMMA IdleTyped == Idle \in Session /\ Idle.pc = "idle" /\ Idle.id = None
  BY DEF Idle, Session, Steps, Answers

\* What the invariant says, without the history of one session's locals.
LEMMA InitHolds == Init => CInv
<1> SUFFICES ASSUME Init PROVE CInv
  OBVIOUS
<1> USE ChallengeAssumption
<1>1. TypeOK
  BY IdleTyped DEF Init, TypeOK, NoRow, Row, Statuses
<1>2. CommitLocked /\ SessionsKnow
  BY IdleTyped DEF Init, CommitLocked, SessionsKnow
<1>3. UsedUp /\ SentSupersedes /\ PrevIssued
  BY DEF Init, UsedUp, SentSupersedes, PrevIssued
<1>4. QED
  BY <1>1, <1>2, <1>3 DEF CInv

-----------------------------------------------------------------------------

\* The parts of TypeOK that no operation on one session disturbs.
Tables == issued \in SUBSET Challenges /\ rows \in [Challenges -> Row]
          /\ authorised \in [Challenges -> Nat]

Rest == due \in SUBSET Challenges /\ recent \in SUBSET Challenges
        /\ failures \in [Challenges -> Nat] /\ crashes \in Nat

\* A session may give up its own locks, and take none of the others'.
Respects(s) ==
  /\ lock' \in [Challenges -> Sessions \cup {None}]
  /\ \A c \in Challenges : lock[c] \in Sessions \ {s} => lock'[c] = lock[c]

\* A step that only replaces the locals of session s by w.
LEMMA LocalStep ==
  ASSUME CInv, NEW s \in Sessions, NEW w \in Session,
         ses' = [ses EXCEPT ![s] = w],
         w.pc \notin {"commit", "supersede", "deliver"},
         w.pc # "idle" => w.id \in issued,
         Respects(s), Rest', UNCHANGED <<issued, rows, authorised>>
  PROVE  CInv'
<1> USE ChallengeAssumption DEF CInv
<1>1. TypeOK'
  BY DEF TypeOK, Rest, Respects
<1>2. \A t \in Sessions : ses'[t] = IF t = s THEN w ELSE ses[t]
  BY DEF TypeOK
<1>3. CommitLocked'
  BY <1>2 DEF CommitLocked, Respects, TypeOK, Session
<1>4. SessionsKnow'
  BY <1>2 DEF SessionsKnow
<1>5. UsedUp' /\ SentSupersedes' /\ PrevIssued'
  BY DEF UsedUp, SentSupersedes, PrevIssued
<1>6. QED
  BY <1>1, <1>3, <1>4, <1>5

\* A step of session s that writes EXPIRED on row c, which nobody else locks.
LEMMA ExpiringStep ==
  ASSUME CInv, NEW s \in Sessions, NEW w \in Session, NEW c \in issued,
         ses' = [ses EXCEPT ![s] = w],
         \/ w.pc = "idle"
         \/ /\ w.pc = "deliver" /\ ses[s].pc = "supersede"
            /\ w.id = c /\ w.id = ses[s].id /\ w.new = ses[s].new,
         Update(s, c, "EXPIRED"),
         UNCHANGED <<issued, due, recent, failures, lock, authorised, crashes>>
  PROVE  CInv'
<1> USE ChallengeAssumption DEF CInv
<1>1. \A d \in Challenges : rows'[d] = IF d = c THEN [rows[d] EXCEPT !.status = "EXPIRED"] ELSE rows[d]
  BY DEF TypeOK, Update
<1>2. TypeOK'
  <2>1. c \in Challenges /\ rows[c] \in Row
    BY DEF TypeOK
  <2>2. [rows[c] EXCEPT !.status = "EXPIRED"] \in Row
    BY <2>1 DEF Row, Statuses
  <2>3. rows' = [rows EXCEPT ![c] = [rows[c] EXCEPT !.status = "EXPIRED"]]
    BY DEF Update
  <2>4. QED
    BY <2>1, <2>2, <2>3 DEF TypeOK
<1>3. \A t \in Sessions : ses'[t] = IF t = s THEN w ELSE ses[t]
  BY DEF TypeOK
<1>4. \A d \in Challenges :
        /\ rows'[d].prev = rows[d].prev /\ rows'[d].sent = rows[d].sent
        /\ rows'[d].status = IF d = c THEN "EXPIRED" ELSE rows[d].status
  <2> SUFFICES ASSUME NEW d \in Challenges
               PROVE  /\ rows'[d].prev = rows[d].prev /\ rows'[d].sent = rows[d].sent
                      /\ rows'[d].status = IF d = c THEN "EXPIRED" ELSE rows[d].status
    OBVIOUS
  <2>1. rows[d] \in Row
    BY DEF TypeOK
  <2>2. QED
    BY <1>1, <2>1 DEF Row
<1>5. CommitLocked'
  <2> SUFFICES ASSUME NEW t \in Sessions, ses'[t].pc = "commit"
               PROVE  ses'[t].id \in issued' /\ lock'[ses'[t].id] = t
                      /\ rows'[ses'[t].id].status = "PENDING"
    BY DEF CommitLocked
  <2>1. t # s /\ ses'[t] = ses[t]
    BY <1>3
  <2>2. ses[t].id \in issued /\ lock[ses[t].id] = t /\ rows[ses[t].id].status = "PENDING"
    BY <2>1 DEF CommitLocked
  <2>3. ses[t].id # c
    BY <2>1, <2>2 DEF Update, Free
  <2>4. QED
    BY <1>4, <2>1, <2>2, <2>3 DEF TypeOK
<1>6. UsedUp'
  <2>1. \A d \in Challenges \ issued : rows'[d] = rows[d]
    BY <1>1
  <2>2. QED
    BY <1>4, <2>1 DEF UsedUp, TypeOK
<1>7. SessionsKnow'
  <2> SUFFICES ASSUME NEW t \in Sessions
               PROVE  /\ ses'[t].pc # "idle" => ses'[t].id \in issued'
                      /\ ses'[t].pc \in {"supersede", "deliver"} =>
                           ses'[t].new \in issued' /\ rows'[ses'[t].new].prev = ses'[t].id
                      /\ ses'[t].pc = "deliver" => rows'[ses'[t].id].status = "EXPIRED"
    BY DEF SessionsKnow
  <2>1. CASE t # s
    <3>1. ses'[t] = ses[t]
      BY <1>3, <2>1
    <3>2. QED
      BY <1>4, <3>1 DEF SessionsKnow, TypeOK
  <2>2. CASE t = s
    BY <1>3, <1>4, <2>2 DEF SessionsKnow, TypeOK
  <2>3. QED
    BY <2>1, <2>2
<1>8. SentSupersedes'
  BY <1>4 DEF SentSupersedes, TypeOK, Row
<1>9. PrevIssued'
  BY <1>4 DEF PrevIssued, TypeOK
<1>10. QED
  BY <1>2, <1>5, <1>6, <1>7, <1>8, <1>9

\* A new row: issued by the gate (s idle all along) or by a reissue.
LEMMA NewRow ==
  ASSUME CInv, NEW c \in Challenges \ issued, NEW r \in Row,
         r.status = "PENDING", r.sent => r.prev = None, r.prev \in issued \cup {None},
         issued' = issued \cup {c}, recent' = recent \cup {c},
         rows' = [rows EXCEPT ![c] = r],
         ses' \in [Sessions -> Session],
         \A t \in Sessions : ses'[t] = ses[t]
                            \/ /\ ses[t].pc # "idle"
                               /\ ses'[t].pc = "supersede" /\ ses'[t].id = ses[t].id
                               /\ ses'[t].new = c /\ r.prev = ses[t].id,
         UNCHANGED <<due, failures, lock, authorised, crashes>>
  PROVE  CInv'
<1> USE ChallengeAssumption DEF CInv
<1>1. TypeOK'
  BY DEF TypeOK
<1>2. \A d \in Challenges : rows'[d] = IF d = c THEN r ELSE rows[d]
  BY DEF TypeOK
<1>3. \A d \in issued : d # c /\ d \in Challenges /\ rows'[d] = rows[d]
  BY <1>2 DEF TypeOK
<1>4. CommitLocked'
  BY <1>3 DEF CommitLocked
<1>5. UsedUp'
  BY <1>2 DEF UsedUp
<1>6. SessionsKnow'
  BY <1>2, <1>3 DEF SessionsKnow
<1>7. SentSupersedes'
  <2> SUFFICES ASSUME NEW d \in issued', rows'[d].sent, rows'[d].prev # None
               PROVE  rows'[rows'[d].prev].status = "EXPIRED"
    BY DEF SentSupersedes
  <2>1. d # c /\ d \in issued /\ rows'[d] = rows[d]
    BY <1>2, <1>3
  <2>2. rows[rows[d].prev].status = "EXPIRED" /\ rows[d].prev \in Challenges
    BY <2>1 DEF SentSupersedes, TypeOK, Row
  <2>3. rows[d].prev \in issued
    BY <2>1 DEF PrevIssued
  <2>4. QED
    BY <1>3, <2>1, <2>2, <2>3
<1>8. PrevIssued'
  BY <1>2, <1>3 DEF PrevIssued
<1>9. QED
  BY <1>1, <1>4, <1>5, <1>6, <1>7, <1>8

-----------------------------------------------------------------------------
(* The two steps that write a row under conditions of their own.           *)

\* What a session about to commit knows of its challenge.
LEMMA Committing ==
  ASSUME CInv, NEW s \in Sessions, Commit(s)
  PROVE  /\ ses[s].id \in issued /\ ses[s].id \in Challenges /\ lock[ses[s].id] = s
         /\ rows[ses[s].id].status = "PENDING" /\ rows[ses[s].id] \in Row
         /\ authorised[ses[s].id] = 0 /\ authorised[ses[s].id] \in Nat
<1>1. ses[s].id \in issued /\ lock[ses[s].id] = s /\ rows[ses[s].id].status = "PENDING"
  BY DEF Commit, CommitLocked, CInv
<1>2. ses[s].id \in Challenges
  BY <1>1 DEF CInv, TypeOK
<1>3. rows[ses[s].id] \in Row /\ authorised[ses[s].id] \in Nat
  BY <1>2 DEF CInv, TypeOK
<1>4. authorised[ses[s].id] <= 1 /\ authorised[ses[s].id] # 1
  BY <1>1, <1>2 DEF CInv, UsedUp
<1>5. QED
  BY <1>1, <1>2, <1>3, <1>4

LEMMA CommitStep ==
  ASSUME CInv, NEW s \in Sessions, Commit(s)
  PROVE  CInv'
<1> USE ChallengeAssumption DEF CInv
<1> DEFINE c  == ses[s].id
           st == IF ses[s].op = "confirm" THEN "CONSUMED" ELSE "VERIFIED"
<1>1. c \in issued /\ c \in Challenges /\ lock[c] = s /\ rows[c].status = "PENDING"
      /\ authorised[c] = 0 /\ authorised[c] \in Nat /\ rows[c] \in Row
  BY Committing
<1>2. rows' = [rows EXCEPT ![c] = [rows[c] EXCEPT !.status = st]]
  BY DEF Commit
<1>3. [rows[c] EXCEPT !.status = st] \in Row
  BY <1>1 DEF Row, Statuses
<1>4. /\ authorised' \in [Challenges -> Nat]
      /\ authorised'[c] = IF ses[s].op = "confirm" THEN 1 ELSE 0
      /\ \A d \in Challenges \ {c} : authorised'[d] = authorised[d]
  <2>1. authorised \in [Challenges -> Nat]
    BY DEF TypeOK
  <2>2. CASE ses[s].op = "confirm"
    <3>1. authorised' = [authorised EXCEPT ![c] = authorised[c] + 1]
      BY <2>2 DEF Commit
    <3>2. QED
      BY <1>1, <2>1, <2>2, <3>1
  <2>3. CASE ses[s].op # "confirm"
    <3>1. authorised' = authorised
      BY <2>3 DEF Commit
    <3>2. QED
      BY <1>1, <2>1, <2>3, <3>1
  <2>4. QED
    BY <2>2, <2>3
<1>5. \A d \in Challenges : d # c => rows'[d] = rows[d]
  BY <1>2 DEF TypeOK
<1>6. rows'[c].status = st /\ rows'[c].prev = rows[c].prev /\ rows'[c].sent = rows[c].sent
  BY <1>1, <1>2 DEF TypeOK, Row
<1>7. ses' = [ses EXCEPT ![s] = Idle] /\ ses'[s] = Idle
      /\ \A t \in Sessions \ {s} : ses'[t] = ses[t]
  BY DEF Commit, Done, TypeOK
<1>8. lock' \in [Challenges -> Sessions \cup {None}]
      /\ \A d \in Challenges : d # c => lock'[d] = lock[d]
  BY <1>1 DEF Commit, TypeOK
<1>9. TypeOK'
  <2>1. ses' \in [Sessions -> Session]
    BY <1>7, IdleTyped DEF TypeOK
  <2>2. rows' \in [Challenges -> Row]
    BY <1>1, <1>2, <1>3 DEF TypeOK
  <2>3. QED
    BY <1>4, <1>8, <2>1, <2>2 DEF TypeOK, Commit, clock
<1>10. UNCHANGED issued
  BY DEF Commit
<1>11. CommitLocked'
  <2> SUFFICES ASSUME NEW t \in Sessions, ses'[t].pc = "commit"
               PROVE  ses'[t].id \in issued' /\ lock'[ses'[t].id] = t
                      /\ rows'[ses'[t].id].status = "PENDING"
    BY DEF CommitLocked
  <2>1. t # s /\ ses'[t] = ses[t]
    BY <1>7, IdleTyped
  <2>2. ses[t].id \in issued /\ lock[ses[t].id] = t /\ rows[ses[t].id].status = "PENDING"
    BY <2>1 DEF CommitLocked
  <2>3. ses[t].id # c /\ ses[t].id \in Challenges
    BY <1>1, <2>1, <2>2 DEF TypeOK
  <2>4. QED
    BY <1>5, <1>8, <1>10, <2>1, <2>2, <2>3
<1>12. UsedUp'
  <2> SUFFICES ASSUME NEW d \in Challenges
               PROVE  /\ d \notin issued' => authorised'[d] = 0 /\ rows'[d] = NoRow
                      /\ authorised'[d] <= 1
                      /\ authorised'[d] = 1 => rows'[d].status \in {"CONSUMED", "EXPIRED"}
    BY DEF UsedUp
  <2>1. CASE d = c
    BY <1>1, <1>4, <1>6, <1>10, <2>1
  <2>2. CASE d # c
    BY <1>4, <1>5, <1>10, <2>2 DEF UsedUp
  <2>3. QED
    BY <2>1, <2>2
<1>13. SessionsKnow'
  <2> SUFFICES ASSUME NEW t \in Sessions
               PROVE  /\ ses'[t].pc # "idle" => ses'[t].id \in issued'
                      /\ ses'[t].pc \in {"supersede", "deliver"} =>
                           ses'[t].new \in issued' /\ rows'[ses'[t].new].prev = ses'[t].id
                      /\ ses'[t].pc = "deliver" => rows'[ses'[t].id].status = "EXPIRED"
    BY DEF SessionsKnow
  <2>1. CASE t # s
    <3>1. /\ ses'[t] = ses[t]
          /\ (ses[t].pc # "idle" => ses[t].id \in Challenges)
          /\ (ses[t].pc \in {"supersede", "deliver"} => ses[t].new \in Challenges)
      BY <1>7, <2>1 DEF TypeOK, SessionsKnow
    <3>2. \A d \in Challenges : rows'[d].prev = rows[d].prev
      BY <1>5, <1>6
    <3>3. \A d \in Challenges : rows[d].status = "EXPIRED" => rows'[d].status = "EXPIRED"
      BY <1>1, <1>5
    <3>4. QED
      BY <1>10, <3>1, <3>2, <3>3 DEF SessionsKnow
  <2>2. CASE t = s
    BY <1>7, <2>2, IdleTyped
  <2>3. QED
    BY <2>1, <2>2
<1>14. SentSupersedes' /\ PrevIssued'
  <2>1. \A d \in Challenges : rows[d].status = "EXPIRED" => rows'[d].status = "EXPIRED"
    BY <1>1, <1>5
  <2>2. \A d \in Challenges : rows'[d].prev = rows[d].prev /\ rows'[d].sent = rows[d].sent
    BY <1>5, <1>6
  <2>3. issued \subseteq Challenges
    BY DEF TypeOK
  <2>4. QED
    BY <1>10, <2>1, <2>2, <2>3 DEF SentSupersedes, PrevIssued
<1>15. QED
  BY <1>9, <1>11, <1>12, <1>13, <1>14

LEMMA DeliverStep ==
  ASSUME CInv, NEW s \in Sessions, Deliver(s)
  PROVE  CInv'
<1> USE ChallengeAssumption DEF CInv
<1> DEFINE n == ses[s].new
<1>1. n \in issued /\ n \in Challenges /\ rows[n] \in Row /\ ses[s].pc = "deliver"
      /\ rows[n].prev = ses[s].id /\ rows[ses[s].id].status = "EXPIRED"
  BY DEF Deliver, SessionsKnow, TypeOK
<1>2. rows' = [rows EXCEPT ![n] = [rows[n] EXCEPT !.sent = TRUE]]
  BY DEF Deliver
<1>3. [rows[n] EXCEPT !.sent = TRUE] \in Row
  BY <1>1 DEF Row
<1>4. ses' = [ses EXCEPT ![s] = Idle]
      /\ \A t \in Sessions : ses'[t] = IF t = s THEN Idle ELSE ses[t]
  BY DEF Deliver, Done, TypeOK
<1>5. TypeOK'
  <2>1. rows' \in [Challenges -> Row]
    BY <1>1, <1>2, <1>3 DEF TypeOK
  <2>2. ses' \in [Sessions -> Session]
    BY <1>4, IdleTyped DEF TypeOK
  <2>3. QED
    BY <2>1, <2>2 DEF TypeOK, Deliver, clock
<1>6. \A d \in Challenges :
        /\ rows'[d].status = rows[d].status /\ rows'[d].prev = rows[d].prev
        /\ d # n => rows'[d].sent = rows[d].sent
        /\ d # n => rows'[d] = rows[d]
  <2> TAKE d \in Challenges
  <2>1. rows[d] \in Row
    BY DEF TypeOK
  <2>2. QED
    BY <1>1, <1>2, <2>1 DEF TypeOK, Row
<1>7. UNCHANGED <<issued, lock, authorised>>
  BY DEF Deliver
<1>8. CommitLocked'
  <2> SUFFICES ASSUME NEW t \in Sessions, ses'[t].pc = "commit"
               PROVE  ses'[t].id \in issued' /\ lock'[ses'[t].id] = t
                      /\ rows'[ses'[t].id].status = "PENDING"
    BY DEF CommitLocked
  <2>1. ses'[t] = ses[t] /\ ses[t].id \in Challenges
    BY <1>4, IdleTyped DEF TypeOK, CommitLocked
  <2>2. ses[t].id \in issued /\ lock[ses[t].id] = t /\ rows[ses[t].id].status = "PENDING"
    BY <2>1 DEF CommitLocked
  <2>3. QED
    BY <1>6, <1>7, <2>1, <2>2
<1>9. UsedUp'
  BY <1>1, <1>6, <1>7 DEF UsedUp
<1>10. SessionsKnow'
  <2>1. \A t \in Sessions :
          /\ (ses[t].pc # "idle" => ses[t].id \in Challenges)
          /\ (ses[t].pc \in {"supersede", "deliver"} => ses[t].new \in Challenges)
    BY DEF TypeOK, SessionsKnow
  <2>2. QED
    <3> SUFFICES ASSUME NEW t \in Sessions
                 PROVE  /\ ses'[t].pc # "idle" => ses'[t].id \in issued'
                        /\ ses'[t].pc \in {"supersede", "deliver"} =>
                             ses'[t].new \in issued' /\ rows'[ses'[t].new].prev = ses'[t].id
                        /\ ses'[t].pc = "deliver" => rows'[ses'[t].id].status = "EXPIRED"
      BY DEF SessionsKnow
    <3>1. CASE t = s
      BY <1>4, <3>1, IdleTyped
    <3>2. CASE t # s
      <4>1. ses'[t] = ses[t]
        BY <1>4, <3>2
      <4>2. QED
        BY <1>6, <1>7, <2>1, <4>1 DEF SessionsKnow
    <3>3. QED
      BY <3>1, <3>2
<1>11. PrevIssued'
  BY <1>6, <1>7 DEF PrevIssued, TypeOK
<1>12. SentSupersedes'
  <2> SUFFICES ASSUME NEW d \in issued, rows'[d].sent, rows'[d].prev # None
               PROVE  rows'[rows'[d].prev].status = "EXPIRED"
    BY <1>7 DEF SentSupersedes
  <2>1. d \in Challenges /\ rows'[d].prev = rows[d].prev /\ rows[d].prev \in Challenges
    BY <1>6 DEF PrevIssued, TypeOK
  <2>2. rows[rows[d].prev].status = "EXPIRED"
    BY <1>1, <1>6, <2>1 DEF SentSupersedes
  <2>3. rows'[rows[d].prev].status = rows[rows[d].prev].status
    BY <1>6, <2>1
  <2>4. QED
    BY <2>1, <2>2, <2>3
<1>13. QED
  BY <1>5, <1>8, <1>9, <1>10, <1>11, <1>12

-----------------------------------------------------------------------------
(* The invariant.                                                          *)

\* The locals Goto leaves are well formed.
LEMMA GotoTyped ==
  ASSUME NEW c \in Challenges, NEW pc \in Steps
  PROVE  /\ [Idle EXCEPT !.pc = pc, !.id = c] \in Session
         /\ [Idle EXCEPT !.pc = pc, !.id = c].pc = pc
         /\ [Idle EXCEPT !.pc = pc, !.id = c].id = c
BY IdleTyped DEF Session

\* Steps that leave every table but the locks and the counters alone.
LEMMA LocalSteps ==
  ASSUME CInv, NEW s \in Sessions,
         \/ \E c \in Challenges, op \in {"confirm", "attempt"},
               answer \in {"right", "wrong", "tampered"} : Submit(s, c, op, answer)
         \/ \E c \in Challenges : Reissue(s, c) \/ View(s, c)
         \/ CountFailures(s) \/ LogFailure(s) \/ CheckCooldown(s) \/ Crash(s)
  PROVE  CInv'
<1> USE ChallengeAssumption
<1>1. TypeOK /\ SessionsKnow /\ Rest /\ ses[s] \in Session
      /\ (ses[s].pc # "idle" => ses[s].id \in issued)
  BY DEF CInv, TypeOK, SessionsKnow, Rest
<1>2. ASSUME UNCHANGED lock PROVE Respects(s)
  BY <1>1, <1>2 DEF Respects, TypeOK
<1>3. \A c \in issued : c \in Challenges
  BY <1>1 DEF TypeOK
<1>4. ASSUME NEW c \in Challenges, NEW op \in {"confirm", "attempt"},
             NEW answer \in {"right", "wrong", "tampered"}, Submit(s, c, op, answer)
      PROVE  CInv'
  <2> DEFINE w == IF answer = "tampered" /\ rows[c].status = "PENDING"
                    THEN [Idle EXCEPT !.pc = "expire", !.id = c]
                    ELSE [Idle EXCEPT !.pc = "lock", !.op = op, !.id = c, !.answer = answer]
  <2>1. w \in Session /\ w.pc \in {"expire", "lock"} /\ w.id = c
    BY IdleTyped DEF Session, Steps, Answers
  <2>2. ses' = [ses EXCEPT ![s] = w] /\ c \in issued
    BY <1>4 DEF Submit, Goto
  <2>3. Rest' /\ UNCHANGED <<issued, rows, authorised>> /\ UNCHANGED lock
    BY <1>1, <1>4 DEF Submit, Rest, clock
  <2>4. w.pc \notin {"commit", "supersede", "deliver"} /\ (w.pc # "idle" => w.id \in issued)
    BY <2>1, <2>2
  <2> HIDE DEF w
  <2>5. QED
    BY <1>2, <2>1, <2>2, <2>3, <2>4, LocalStep
<1>5. ASSUME NEW c \in Challenges, Reissue(s, c) \/ View(s, c)
      PROVE  CInv'
  <2>1. PICK pc \in {"cooldown", "expire"} : Goto(s, pc, c)
    BY <1>5 DEF Reissue, View
  <2> DEFINE w == [Idle EXCEPT !.pc = pc, !.id = c]
  <2>2. w \in Session /\ w.pc = pc /\ w.id = c /\ c \in issued
    <3>1. pc \in Steps
      BY DEF Steps
    <3>2. c \in issued
      BY <1>5 DEF Reissue, View
    <3>3. QED
      BY <3>1, <3>2, GotoTyped
  <2>3. ses' = [ses EXCEPT ![s] = w]
    BY <2>1 DEF Goto
  <2>4. Rest' /\ UNCHANGED <<issued, rows, authorised>> /\ UNCHANGED lock
    BY <1>1, <1>5 DEF Reissue, View, Rest, clock
  <2> HIDE DEF w
  <2>5. QED
    BY <1>2, <2>2, <2>3, <2>4, LocalStep
<1>6. CASE CountFailures(s)
  <2> DEFINE w == [ses[s] EXCEPT !.pc = "log", !.seen = failures[ses[s].id]]
  <2>1. w \in Session /\ w.pc = "log" /\ w.id = ses[s].id
    <3>1. failures[ses[s].id] \in Nat
      BY <1>1, <1>3, <1>6 DEF CountFailures, Rest
    <3>2. QED
      BY <1>1, <3>1 DEF Session, Steps
  <2>2. ses' = [ses EXCEPT ![s] = w] /\ ses[s].id \in issued
    BY <1>1, <1>6 DEF CountFailures
  <2>3. Rest' /\ UNCHANGED <<issued, rows, authorised>> /\ UNCHANGED lock
    BY <1>1, <1>6 DEF CountFailures, Rest, clock
  <2> HIDE DEF w
  <2>4. QED
    BY <1>2, <2>1, <2>2, <2>3, LocalStep
<1>7. CASE LogFailure(s)
  <2> DEFINE w == IF ses[s].seen + 1 >= MaxAttempts
                    THEN [Idle EXCEPT !.pc = "expire", !.id = ses[s].id] ELSE Idle
  <2>1. ses[s].id \in issued /\ ses[s].id \in Challenges
    BY <1>1, <1>3, <1>7 DEF LogFailure
  <2>2. w \in Session /\ w.pc \in {"expire", "idle"} /\ (w.pc # "idle" => w.id \in issued)
    <3>1. "expire" \in Steps
      BY DEF Steps
    <3>2. LET g == [Idle EXCEPT !.pc = "expire", !.id = ses[s].id]
          IN g \in Session /\ g.pc = "expire" /\ g.id = ses[s].id
      BY <2>1, <3>1, GotoTyped
    <3>3. QED
      BY <2>1, <3>2, IdleTyped
  <2>3. ses' = [ses EXCEPT ![s] = w]
    BY <1>7 DEF LogFailure, Goto, Done
  <2>4. failures' \in [Challenges -> Nat]
    <3>1. failures' = [failures EXCEPT ![ses[s].id] = failures[ses[s].id] + 1]
      BY <1>7 DEF LogFailure
    <3>2. QED
      BY <1>1, <2>1, <3>1 DEF Rest
  <2>5. Rest' /\ UNCHANGED <<issued, rows, authorised>> /\ UNCHANGED lock
    BY <1>1, <1>7, <2>4 DEF LogFailure, Rest, clock
  <2> HIDE DEF w
  <2>6. QED
    BY <1>2, <2>2, <2>3, <2>5, LocalStep
<1>8. CASE CheckCooldown(s)
  <2> DEFINE w == IF recent \subseteq {ses[s].id}
                    THEN [Idle EXCEPT !.pc = "create", !.id = ses[s].id] ELSE Idle
  <2>1. ses[s].id \in issued /\ ses[s].id \in Challenges
    BY <1>1, <1>3, <1>8 DEF CheckCooldown
  <2>2. w \in Session /\ w.pc \in {"create", "idle"} /\ (w.pc # "idle" => w.id \in issued)
    <3>1. "create" \in Steps
      BY DEF Steps
    <3>2. LET g == [Idle EXCEPT !.pc = "create", !.id = ses[s].id]
          IN g \in Session /\ g.pc = "create" /\ g.id = ses[s].id
      BY <2>1, <3>1, GotoTyped
    <3>3. QED
      BY <2>1, <3>2, IdleTyped
  <2>3. ses' = [ses EXCEPT ![s] = w]
    BY <1>8 DEF CheckCooldown, Goto, Done
  <2>4. Rest' /\ UNCHANGED <<issued, rows, authorised>> /\ UNCHANGED lock
    BY <1>1, <1>8 DEF CheckCooldown, Rest, clock
  <2> HIDE DEF w
  <2>5. QED
    BY <1>2, <2>2, <2>3, <2>4, LocalStep
<1>9. CASE Crash(s)
  <2>1. ses' = [ses EXCEPT ![s] = Idle]
    BY <1>9 DEF Crash, Done
  <2>2. Respects(s)
    BY <1>1, <1>9 DEF Crash, Respects, TypeOK
  <2>3. Rest' /\ UNCHANGED <<issued, rows, authorised>>
    BY <1>1, <1>9 DEF Crash, Rest, clock
  <2>4. QED
    BY <2>1, <2>2, <2>3, IdleTyped, LocalStep
<1>10. QED
  BY <1>4, <1>5, <1>6, <1>7, <1>8, <1>9

\* Waiting for the row and verifying: the lock is taken with the commit to come.
LEMMA VerifyStep ==
  ASSUME CInv, NEW s \in Sessions, LockAndVerify(s)
  PROVE  CInv'
<1> USE ChallengeAssumption
<1> DEFINE c == ses[s].id
<1>1. TypeOK /\ Rest /\ ses[s] \in Session /\ ses[s].pc = "lock"
      /\ c \in issued /\ c \in Challenges
  BY DEF CInv, TypeOK, SessionsKnow, Rest, LockAndVerify
<1>2. CASE Alive(c) /\ ses[s].answer = "right"
  <2> DEFINE w == [ses[s] EXCEPT !.pc = "commit"]
  <2>1. w \in Session /\ w.pc = "commit" /\ w.id = c
    BY <1>1 DEF Session, Steps
  <2>2. ses' = [ses EXCEPT ![s] = w] /\ lock' = [lock EXCEPT ![c] = s]
        /\ UNCHANGED <<issued, rows, due, recent, failures, authorised, crashes>>
    BY <1>2 DEF LockAndVerify, clock
  <2>3. \A t \in Sessions : ses'[t] = IF t = s THEN w ELSE ses[t]
    BY <1>1, <2>2 DEF TypeOK
  <2> HIDE DEF w
  <2>4. TypeOK'
    BY <1>1, <2>1, <2>2 DEF TypeOK
  <2>5. CommitLocked'
    <3> SUFFICES ASSUME NEW t \in Sessions, ses'[t].pc = "commit"
                 PROVE  ses'[t].id \in issued' /\ lock'[ses'[t].id] = t
                        /\ rows'[ses'[t].id].status = "PENDING"
      BY DEF CommitLocked
    <3>1. CASE t = s
      <4>1. ses'[t] = w /\ rows[c].status = "PENDING" /\ lock'[c] = s
        BY <1>1, <1>2, <2>2, <2>3, <3>1 DEF Alive, TypeOK
      <4>2. QED
        BY <1>1, <2>1, <2>2, <3>1, <4>1
    <3>2. CASE t # s
      <4>1. ses'[t] = ses[t]
        BY <2>3, <3>2
      <4>2. ses[t].id \in issued /\ lock[ses[t].id] = t /\ rows[ses[t].id].status = "PENDING"
        BY <4>1 DEF CommitLocked, CInv
      <4>3. ses[t].id # c /\ ses[t].id \in Challenges
        BY <1>1, <3>2, <4>2 DEF LockAndVerify, Free, TypeOK
      <4>4. lock'[ses[t].id] = t
        BY <1>1, <2>2, <4>2, <4>3 DEF TypeOK
      <4>5. QED
        BY <2>2, <4>1, <4>2, <4>4
    <3>3. QED
      BY <3>1, <3>2
  <2>6. SessionsKnow'
    BY <1>1, <2>1, <2>2, <2>3 DEF SessionsKnow, CInv
  <2>7. UsedUp' /\ PrevIssued' /\ SentSupersedes'
    BY <2>2 DEF UsedUp, PrevIssued, SentSupersedes, CInv
  <2>8. QED
    BY <2>4, <2>5, <2>6, <2>7 DEF CInv
<1>3. CASE ~(Alive(c) /\ ses[s].answer = "right")
  <2> DEFINE w == IF Alive(c) /\ ses[s].answer = "wrong"
                    THEN [Idle EXCEPT !.pc = "count", !.id = c] ELSE Idle
  <2>1. w \in Session /\ w.pc \in {"count", "idle"} /\ (w.pc # "idle" => w.id \in issued)
    <3>1. CASE Alive(c) /\ ses[s].answer = "wrong"
      <4>1. "count" \in Steps /\ w = [Idle EXCEPT !.pc = "count", !.id = c]
        BY <3>1 DEF Steps
      <4>2. QED
        <5>1. c \in Challenges /\ c \in issued
          BY <1>1
        <5>2. w \in Session /\ w.pc = "count" /\ w.id = c
          <6> HIDE DEF c, w
          <6>1. QED
            BY <4>1, <5>1, GotoTyped
        <5>3. QED
          BY <5>1, <5>2
    <3>2. CASE ~(Alive(c) /\ ses[s].answer = "wrong")
      <4>1. w = Idle
        BY <3>2
      <4>2. QED
        BY <4>1, IdleTyped
    <3>3. QED
      BY <3>1, <3>2
  <2>2. ses' = [ses EXCEPT ![s] = w]
    BY <1>3 DEF LockAndVerify, Goto, Done
  <2>3. UNCHANGED lock
    BY <1>3 DEF LockAndVerify
  <2>4. Rest' /\ UNCHANGED <<issued, rows, authorised>>
    BY <1>1 DEF LockAndVerify, Rest, clock
  <2>5. Respects(s)
    BY <1>1, <2>3 DEF Respects, TypeOK
  <2> HIDE DEF w
  <2>6. QED
    BY <2>1, <2>2, <2>4, <2>5, LocalStep
<1>4. QED
  BY <1>2, <1>3

\* Writing EXPIRED, and new rows.
LEMMA RowSteps ==
  ASSUME CInv, NEW s \in Sessions, NEW c \in Challenges,
         Expire(s) \/ Supersede(s) \/ Create(s, c) \/ Issue(c)
  PROVE  CInv'
<1> USE ChallengeAssumption
<1>1. TypeOK /\ ses \in [Sessions -> Session] /\ ses[s] \in Session
      /\ (ses[s].pc # "idle" => ses[s].id \in issued)
  BY DEF CInv, TypeOK, SessionsKnow
<1>2. CASE Expire(s)
  <2>1. ses' = [ses EXCEPT ![s] = Idle] /\ Update(s, ses[s].id, "EXPIRED")
        /\ ses[s].id \in issued
        /\ UNCHANGED <<issued, due, recent, failures, lock, authorised, crashes>>
    BY <1>1, <1>2 DEF Expire, Done, clock
  <2> DEFINE w == Idle
  <2>2. w \in Session /\ w.pc = "idle" /\ ses' = [ses EXCEPT ![s] = w]
    BY <2>1, IdleTyped
  <2> HIDE DEF w
  <2>3. QED
    BY <2>1, <2>2, ExpiringStep
<1>3. CASE Supersede(s)
  <2> DEFINE w == [ses[s] EXCEPT !.pc = "deliver"]
  <2>1. w \in Session /\ w.pc = "deliver" /\ w.id = ses[s].id /\ w.new = ses[s].new
    BY <1>1 DEF Session, Steps
  <2>2. ses' = [ses EXCEPT ![s] = w] /\ Update(s, ses[s].id, "EXPIRED")
        /\ ses[s].id \in issued /\ ses[s].pc = "supersede"
        /\ UNCHANGED <<issued, due, recent, failures, lock, authorised, crashes>>
    BY <1>1, <1>3 DEF Supersede, clock
  <2> HIDE DEF w
  <2>3. QED
    BY <2>1, <2>2, ExpiringStep
<1>4. CASE Create(s, c)
  <2> DEFINE w == [ses[s] EXCEPT !.pc = "supersede", !.new = c]
             r == [status |-> "PENDING", prev |-> ses[s].id, sent |-> FALSE]
  <2>1. w \in Session /\ w.pc = "supersede" /\ w.id = ses[s].id /\ w.new = c
    BY <1>1 DEF Session, Steps
  <2>2. ses' = [ses EXCEPT ![s] = w] /\ c \notin issued
        /\ ses[s].pc # "idle" /\ ses[s].id \in issued
    BY <1>1, <1>4 DEF Create
  <2>3. r \in Row /\ r.status = "PENDING" /\ r.sent = FALSE /\ r.prev = ses[s].id
    BY <1>1 DEF Row, Statuses, Session
  <2>4. issued' = issued \cup {c} /\ recent' = recent \cup {c} /\ rows' = [rows EXCEPT ![c] = r]
        /\ UNCHANGED <<due, failures, lock, authorised, crashes>>
    BY <1>4 DEF Create
  <2> HIDE DEF w, r
  <2>5. ses' \in [Sessions -> Session] /\ ses'[s] = w
        /\ \A t \in Sessions \ {s} : ses'[t] = ses[t]
    BY <1>1, <2>1, <2>2
  <2>6. \A t \in Sessions : ses'[t] = ses[t]
                            \/ /\ ses[t].pc # "idle"
                               /\ ses'[t].pc = "supersede" /\ ses'[t].id = ses[t].id
                               /\ ses'[t].new = c /\ r.prev = ses[t].id
    BY <2>1, <2>2, <2>3, <2>5
  <2>7. c \in Challenges \ issued /\ r.prev \in issued \cup {None} /\ (r.sent => r.prev = None)
    BY <2>2, <2>3
  <2>8. QED
    BY <2>3, <2>4, <2>5, <2>6, <2>7, NewRow
<1>5. CASE Issue(c)
  <2> DEFINE r == [status |-> "PENDING", prev |-> None, sent |-> TRUE]
  <2>1. r \in Row /\ r.status = "PENDING" /\ r.prev = None
    BY DEF Row, Statuses
  <2>2. c \notin issued /\ UNCHANGED ses
        /\ issued' = issued \cup {c} /\ recent' = recent \cup {c} /\ rows' = [rows EXCEPT ![c] = r]
        /\ UNCHANGED <<due, failures, lock, authorised, crashes>>
    BY <1>5 DEF Issue
  <2> HIDE DEF r
  <2>3. QED
    BY <1>1, <2>1, <2>2, NewRow
<1>6. QED
  BY <1>2, <1>3, <1>4, <1>5

\* The clock.
LEMMA ClockSteps ==
  ASSUME CInv, NEW c \in Challenges, CoolDown(c) \/ Elapse(c)
  PROVE  CInv'
<1>1. UNCHANGED <<issued, rows, failures, lock, ses, authorised, crashes>>
  BY DEF CoolDown, Elapse
<1>2. TypeOK'
  BY <1>1 DEF CoolDown, Elapse, CInv, TypeOK
<1>3. QED
  BY <1>1, <1>2 DEF CInv, CommitLocked, UsedUp, SessionsKnow, PrevIssued, SentSupersedes

LEMMA StepHolds == CInv /\ [Next]_vars => CInv'
<1> SUFFICES ASSUME CInv, [Next]_vars PROVE CInv'
  OBVIOUS
<1>1. CASE UNCHANGED vars
  BY <1>1 DEF vars, CInv, TypeOK, CommitLocked, UsedUp, SessionsKnow, PrevIssued, SentSupersedes
<1>2. ASSUME NEW c \in Challenges, Issue(c) \/ CoolDown(c) \/ Elapse(c)
      PROVE  CInv'
  <2>1. CASE Issue(c)
    BY <2>1, RowSteps, ChallengeAssumption
  <2>2. CASE CoolDown(c) \/ Elapse(c)
    BY <2>2, ClockSteps
  <2>3. QED
    BY <1>2, <2>1, <2>2
<1>3. ASSUME NEW s \in Sessions,
             \/ \E c \in Challenges, op \in {"confirm", "attempt"},
                   answer \in {"right", "wrong", "tampered"} : Submit(s, c, op, answer)
             \/ \E c \in Challenges : Reissue(s, c) \/ View(s, c)
             \/ Crash(s)
      PROVE  CInv'
  BY <1>3, LocalSteps
<1>4. ASSUME NEW s \in Sessions, Proceed(s)
      PROVE  CInv'
  <2>1. CASE CountFailures(s) \/ LogFailure(s) \/ CheckCooldown(s)
    BY <2>1, LocalSteps
  <2>2. CASE LockAndVerify(s)
    BY <2>2, VerifyStep
  <2>3. CASE Commit(s) \/ Deliver(s)
    BY <2>3, CommitStep, DeliverStep
  <2>4. CASE Expire(s) \/ Supersede(s)
    <3>1. ses[s].id \in Challenges
      BY <2>4 DEF Expire, Supersede, CInv, TypeOK, SessionsKnow
    <3>2. QED
      BY <2>4, <3>1, RowSteps
  <2>5. CASE \E c \in Challenges : Create(s, c)
    BY <2>5, RowSteps
  <2>6. QED
    BY <1>4, <2>1, <2>2, <2>3, <2>4, <2>5 DEF Proceed
<1>5. QED
  BY <1>1, <1>2, <1>3, <1>4 DEF Next

\* The invariant holds for every number of sessions, challenges and crashes.
THEOREM ChallengeInvariant == Spec => []CInv
<1>1. QED
  BY InitHolds, StepHolds, PTL DEF Spec

\* Reissuing, verifying and crashing in any order, a delivered replacement
\* always leaves the code it replaces dead.
THEOREM ReplacementsSupersede == Spec => []SentSupersedes
<1>1. CInv => SentSupersedes
  BY DEF CInv
<1>2. QED
  BY ChallengeInvariant, <1>1, PTL

-----------------------------------------------------------------------------
(* Refinement of OneTimeToken.                                             *)

\* A challenge whose row and history keep what matters keeps its life.
LEMMA LifeKept ==
  ASSUME CInv, CInv', NEW c \in Challenges,
         c \in issued <=> c \in issued', authorised'[c] = authorised[c],
         c \in issued => (rows'[c].status = "PENDING" <=> rows[c].status = "PENDING")
  PROVE  Life(c)' = Life(c)
<1>1. authorised[c] \in Nat /\ (c \notin issued => authorised[c] = 0)
  BY DEF CInv, TypeOK, UsedUp
<1>2. QED
  BY <1>1 DEF Life

\* One challenge takes a step of its life, or none does.
LEMMA OneLifeStep ==
  ASSUME CInv, CInv', NEW c \in Challenges,
         \A d \in Challenges \ {c} : Life(d)' = Life(d),
         \/ Life(c)' = Life(c) /\ UNCHANGED authorised
         \/ <<Life(c), Life(c)'>> \in {<<"none", "live">>, <<"live", "dead">>} /\ UNCHANGED authorised
         \/ /\ Life(c) = "live" /\ Life(c)' = "used"
            /\ authorised' = [authorised EXCEPT ![c] = @ + 1]
  PROVE  Token!Next \/ UNCHANGED <<lives, authorised>>
<1>1. CASE Life(c)' = Life(c) /\ UNCHANGED authorised
  BY <1>1 DEF lives
<1>2. ASSUME <<Life(c), Life(c)'>> \in {<<"none", "live">>, <<"live", "used">>, <<"live", "dead">>},
             authorised' = IF Life(c)' = "used" THEN [authorised EXCEPT ![c] = @ + 1] ELSE authorised
      PROVE  Token!Next
  <2>1. lives' = [lives EXCEPT ![c] = Life(c)']
    BY DEF lives
  <2>2. Life(c)' \in {"live", "used", "dead"}
    BY <1>2
  <2>3. QED
    BY <1>2, <2>1, <2>2 DEF Token!Next, Token!Lives, lives
<1>3. CASE <<Life(c), Life(c)'>> \in {<<"none", "live">>, <<"live", "dead">>} /\ UNCHANGED authorised
  BY <1>2, <1>3
<1>4. CASE /\ Life(c) = "live" /\ Life(c)' = "used"
           /\ authorised' = [authorised EXCEPT ![c] = @ + 1]
  BY <1>2, <1>4
<1>5. QED
  BY <1>1, <1>3, <1>4

LEMMA LifeStep ==
  ASSUME CInv, CInv', [Next]_vars
  PROVE  Token!Next \/ UNCHANGED <<lives, authorised>>
<1> USE ChallengeAssumption
<1>1. CASE UNCHANGED <<issued, authorised>> /\ \A c \in Challenges :
             c \in issued => (rows'[c].status = "PENDING" <=> rows[c].status = "PENDING")
  <2>1. \A c \in Challenges : Life(c)' = Life(c)
    BY <1>1, LifeKept
  <2>2. QED
    BY <1>1, <2>1 DEF lives
<1>2. ASSUME NEW c \in Challenges \ issued, NEW r, r.status = "PENDING",
             issued' = issued \cup {c}, rows' = [rows EXCEPT ![c] = r], UNCHANGED authorised
      PROVE  Token!Next \/ UNCHANGED <<lives, authorised>>
  <2>1. rows'[c] = r /\ authorised[c] = 0
    BY <1>2 DEF CInv, TypeOK, UsedUp
  <2>2. \A d \in Challenges \ {c} : rows'[d] = rows[d]
    BY <1>2 DEF CInv, TypeOK
  <2>3. Life(c) = "none" /\ Life(c)' = "live"
    BY <1>2, <2>1 DEF Life
  <2>4. \A d \in Challenges \ {c} : Life(d)' = Life(d)
    BY <1>2, <2>2, LifeKept
  <2>5. QED
    BY <1>2, <2>3, <2>4, OneLifeStep
<1>3. ASSUME NEW s \in Sessions, NEW c \in Challenges, c \in issued,
             Update(s, c, "EXPIRED"), UNCHANGED <<issued, authorised>>
      PROVE  Token!Next \/ UNCHANGED <<lives, authorised>>
  <2>1. rows[c] \in Row /\ authorised[c] \in Nat
    BY DEF CInv, TypeOK
  <2>2. rows'[c].status = "EXPIRED" /\ \A d \in Challenges \ {c} : rows'[d] = rows[d]
    BY <1>3, <2>1 DEF Update, CInv, TypeOK, Row
  <2>3. \A d \in Challenges \ {c} : Life(d)' = Life(d)
    BY <1>3, <2>2, LifeKept
  <2>4. Life(c)' = Life(c) \/ (Life(c) = "live" /\ Life(c)' = "dead")
    BY <1>3, <2>1, <2>2 DEF Life
  <2>5. QED
    BY <1>3, <2>3, <2>4, OneLifeStep
<1>4. ASSUME NEW s \in Sessions, Commit(s)
      PROVE  Token!Next \/ UNCHANGED <<lives, authorised>>
  <2>1. PICK c \in issued :
          /\ c = ses[s].id /\ c \in Challenges /\ rows[c] \in Row
          /\ rows[c].status = "PENDING" /\ authorised[c] = 0
    BY <1>4, Committing
  <2>2. PICK st \in {"CONSUMED", "VERIFIED"} :
          rows' = [rows EXCEPT ![c] = [rows[c] EXCEPT !.status = st]]
    BY <1>4, <2>1 DEF Commit
  <2>3. rows'[c].status = st /\ \A d \in Challenges \ {c} : rows'[d] = rows[d]
    BY <2>1, <2>2 DEF CInv, TypeOK, Row
  <2>4. UNCHANGED issued /\ \A d \in Challenges \ {c} : authorised'[d] = authorised[d]
    BY <1>4, <2>1 DEF Commit, CInv, TypeOK
  <2>5. \A d \in Challenges \ {c} : Life(d)' = Life(d)
    BY <2>3, <2>4, LifeKept
  <2>6. Life(c) = "live"
    BY <2>1 DEF Life
  <2>7. \/ Life(c)' = "dead" /\ UNCHANGED authorised
        \/ Life(c)' = "used" /\ authorised' = [authorised EXCEPT ![c] = @ + 1]
    <3>1. c \in issued' /\ authorised'[c] \in Nat /\ rows'[c].status # "PENDING"
      BY <2>1, <2>3, <2>4 DEF CInv, TypeOK
    <3>2. \/ UNCHANGED authorised
          \/ authorised' = [authorised EXCEPT ![c] = @ + 1] /\ authorised'[c] = 1
      BY <1>4, <2>1 DEF Commit, CInv, TypeOK
    <3>3. QED
      BY <2>1, <3>1, <3>2 DEF Life
  <2>8. QED
    BY <2>1, <2>5, <2>6, <2>7, OneLifeStep
<1>5. ASSUME NEW s \in Sessions, Deliver(s)
      PROVE  Token!Next \/ UNCHANGED <<lives, authorised>>
  <2>1. \A d \in Challenges : rows'[d].status = rows[d].status
    <3> TAKE d \in Challenges
    <3>1. rows[d] \in Row
      BY DEF CInv, TypeOK
    <3>2. rows' = [rows EXCEPT ![ses[s].new] = [rows[ses[s].new] EXCEPT !.sent = TRUE]]
      BY <1>5 DEF Deliver
    <3>3. QED
      BY <3>1, <3>2 DEF CInv, TypeOK, Row
  <2>2. UNCHANGED <<issued, authorised>>
    BY <1>5 DEF Deliver
  <2>3. QED
    BY <1>1, <2>1, <2>2
<1>6. ASSUME UNCHANGED <<issued, rows, authorised>>
      PROVE  Token!Next \/ UNCHANGED <<lives, authorised>>
  BY <1>1, <1>6
<1>7. CASE UNCHANGED vars
  BY <1>6, <1>7 DEF vars
<1>8. ASSUME NEW c \in Challenges, Issue(c) \/ CoolDown(c) \/ Elapse(c)
      PROVE  Token!Next \/ UNCHANGED <<lives, authorised>>
  <2>1. CASE Issue(c)
    <3> DEFINE r == [status |-> "PENDING", prev |-> None, sent |-> TRUE]
    <3>1. r.status = "PENDING" /\ c \in Challenges \ issued /\ issued' = issued \cup {c}
          /\ rows' = [rows EXCEPT ![c] = r] /\ UNCHANGED authorised
      BY <2>1 DEF Issue
    <3> HIDE DEF r
    <3>2. QED
      BY <1>2, <3>1
  <2>2. CASE CoolDown(c) \/ Elapse(c)
    BY <1>6, <2>2 DEF CoolDown, Elapse
  <2>3. QED
    BY <1>8, <2>1, <2>2
<1>9. ASSUME NEW s \in Sessions,
             \/ \E c \in Challenges, op \in {"confirm", "attempt"},
                   answer \in {"right", "wrong", "tampered"} : Submit(s, c, op, answer)
             \/ \E c \in Challenges : Reissue(s, c) \/ View(s, c)
             \/ Crash(s) \/ LockAndVerify(s) \/ CountFailures(s) \/ LogFailure(s)
             \/ CheckCooldown(s)
      PROVE  Token!Next \/ UNCHANGED <<lives, authorised>>
  <2>1. UNCHANGED <<issued, rows, authorised>>
    BY <1>9 DEF Submit, Reissue, View, Crash, LockAndVerify, CountFailures, LogFailure,
                CheckCooldown
  <2>2. QED
    BY <1>6, <2>1
<1>10. ASSUME NEW s \in Sessions, NEW c \in Challenges, Create(s, c)
       PROVE  Token!Next \/ UNCHANGED <<lives, authorised>>
  <2> DEFINE r == [status |-> "PENDING", prev |-> ses[s].id, sent |-> FALSE]
  <2>1. r.status = "PENDING" /\ c \in Challenges \ issued /\ issued' = issued \cup {c}
        /\ rows' = [rows EXCEPT ![c] = r] /\ UNCHANGED authorised
    BY <1>10 DEF Create
  <2> HIDE DEF r
  <2>2. QED
    BY <1>2, <2>1
<1>11. ASSUME NEW s \in Sessions, Expire(s) \/ Supersede(s)
       PROVE  Token!Next \/ UNCHANGED <<lives, authorised>>
  <2>1. ses[s].id \in issued /\ ses[s].id \in Challenges
    BY <1>11 DEF Expire, Supersede, CInv, SessionsKnow, TypeOK
  <2>2. Update(s, ses[s].id, "EXPIRED") /\ UNCHANGED <<issued, authorised>>
    BY <1>11 DEF Expire, Supersede
  <2>3. QED
    BY <1>3, <2>1, <2>2
<1>12. QED
  BY <1>4, <1>5, <1>7, <1>8, <1>9, <1>10, <1>11 DEF Next, Proceed

\* A challenge is a one-time token, used once at the most and never after it was
\* killed, whoever verifies, reissues, looks at it or tombstones it at the same
\* time, and whoever dies in between.
THEOREM ChallengesAreOneTime == Spec => TokenSpec
<1>1. Init => Token!Init
  BY DEF Init, Token!Init, Life, lives
<1>2. CInv /\ CInv' /\ [Next]_vars => [Token!Next]_<<lives, authorised>>
  BY LifeStep
<1>3. QED
  BY <1>1, <1>2, ChallengeInvariant, PTL DEF Spec, TokenSpec, Token!Spec

-----------------------------------------------------------------------------
(* How many wrong codes are taken (GInv).                                    *)

\* What a session can still add, case by case, now and after a step.
LEMMA LeftIs ==
  ASSUME NEW s, NEW c
  PROVE  /\ Left(s, c) \in {0, 1, 2}
         /\ ses[s].pc \in {"count", "log"} /\ ses[s].id = c => Left(s, c) >= 1
         /\ /\ ses[s].pc = "log" /\ ses[s].id = c
            /\ Alive(c) /\ ses[s].seen + 1 < MaxAttempts
            => Left(s, c) = 2
         /\ ses[s].pc \notin {"count", "log", "expire"} \/ ses[s].id # c =>
              Left(s, c) = IF Alive(c) THEN 1 ELSE 0
<1>1. CASE ses[s].id = c /\ ses[s].pc = "count"
  BY <1>1 DEF Left
<1>2. CASE ses[s].id = c /\ ses[s].pc = "log"
  BY <1>2 DEF Left
<1>3. CASE ses[s].id = c /\ ses[s].pc = "expire"
  BY <1>3 DEF Left
<1>4. CASE ses[s].id # c \/ ses[s].pc \notin {"count", "log", "expire"}
  BY <1>4 DEF Left
<1>. QED
  BY <1>1, <1>2, <1>3, <1>4

LEMMA LeftNext ==
  ASSUME NEW s, NEW c
  PROVE  /\ Left(s, c)' \in {0, 1, 2}
         /\ ses'[s].pc = "count" /\ ses'[s].id = c => Left(s, c)' = 1
         /\ /\ ses'[s].pc = "log" /\ ses'[s].id = c
            /\ ~(ses'[s].seen + 1 < MaxAttempts)
            => Left(s, c)' = 1
         /\ ses'[s].pc = "expire" /\ ses'[s].id = c => Left(s, c)' = 0
         /\ ses'[s].pc \notin {"count", "log"} \/ ses'[s].id # c =>
              Left(s, c)' <= IF Alive(c)' THEN 1 ELSE 0
<1>1. CASE ses'[s].id = c /\ ses'[s].pc = "count"
  BY <1>1 DEF Left
<1>2. CASE ses'[s].id = c /\ ses'[s].pc = "log"
  BY <1>2 DEF Left
<1>3. CASE ses'[s].id = c /\ ses'[s].pc = "expire"
  BY <1>3 DEF Left
<1>4. CASE ses'[s].id # c \/ ses'[s].pc \notin {"count", "log", "expire"}
  BY <1>4 DEF Left
<1>. QED
  BY <1>1, <1>2, <1>3, <1>4

\* A session that does nothing gains nothing, unless the challenge is new.
LEMMA LeftStays ==
  ASSUME NEW t, NEW c, ses'[t] = ses[t], Alive(c)' => Alive(c)
  PROVE  Left(t, c)' <= Left(t, c)
<1>1. CASE ses[t].id = c /\ ses[t].pc = "count"
  BY <1>1 DEF Left
<1>2. CASE ses[t].id = c /\ ses[t].pc = "log"
  BY <1>2 DEF Left
<1>3. CASE ses[t].id = c /\ ses[t].pc = "expire"
  BY <1>3 DEF Left
<1>4. CASE ses[t].id # c \/ ses[t].pc \notin {"count", "log", "expire"}
  BY <1>4 DEF Left
<1>. QED
  BY <1>1, <1>2, <1>3, <1>4

\* The sum of them moves with one session.
LEMMA GuessesMove ==
  ASSUME NEW c \in Challenges, NEW s \in Sessions, NEW d \in Int,
         \A t \in Sessions \ {s} : ses'[t] = ses[t], Alive(c)' => Alive(c),
         Left(s, c)' <= Left(s, c) + d
  PROVE  GuessesLeft(c)' <= GuessesLeft(c) + d
<1>1. PICK f : f = [t \in Sessions |-> Left(t, c)]
  OBVIOUS
<1>2. PICK g : g = [t \in Sessions |-> Left(t, c)']
  OBVIOUS
<1>3. GuessesLeft(c) = SumFunctionOnSet(f, Sessions)
  BY <1>1 DEF GuessesLeft, SumFunction
<1>4. GuessesLeft(c)' = SumFunctionOnSet(g, Sessions)
  BY <1>2 DEF GuessesLeft, SumFunction
<1>5. \A t \in Sessions : f[t] \in Int /\ g[t] \in Int
  BY <1>1, <1>2, LeftIs, LeftNext
<1>6. \A t \in Sessions \ {s} : g[t] <= f[t]
  BY <1>1, <1>2, LeftStays
<1>7. g[s] <= f[s] + d
  BY <1>1, <1>2
<1>. QED
  BY <1>3, <1>4, <1>5, <1>6, <1>7, SumMoves, ChallengeAssumption

LEMMA GuessesInt ==
  ASSUME NEW c
  PROVE  GuessesLeft(c) \in Int /\ GuessesLeft(c) >= 0 /\ GuessesLeft(c)' \in Int
<1>1. PICK f : f = [t \in Sessions |-> Left(t, c)]
  OBVIOUS
<1>2. PICK g : g = [t \in Sessions |-> Left(t, c)']
  OBVIOUS
<1>3. \A t \in Sessions : f[t] \in Int /\ f[t] >= 0 /\ g[t] \in Int
  BY <1>1, <1>2, LeftIs, LeftNext
<1>4. GuessesLeft(c) = SumFunctionOnSet(f, Sessions)
  BY <1>1 DEF GuessesLeft, SumFunction
<1>5. GuessesLeft(c)' = SumFunctionOnSet(g, Sessions)
  BY <1>2 DEF GuessesLeft, SumFunction
<1>. QED
  BY <1>3, <1>4, <1>5, SumInt, ChallengeAssumption

\* With one session that has at most one left, all have at most 2 * n - 1.
LEMMA GuessesFew ==
  ASSUME NEW c, NEW s \in Sessions, Left(s, c)' <= 1
  PROVE  GuessesLeft(c)' <= 2 * (Cardinality(Sessions) - 1) + 1
<1>1. PICK g : g = [t \in Sessions |-> Left(t, c)']
  OBVIOUS
<1>2. \A t \in Sessions : g[t] \in Int /\ g[t] <= 2
  BY <1>1, LeftNext
<1>3. GuessesLeft(c)' = SumFunctionOnSet(g, Sessions)
  BY <1>1 DEF GuessesLeft, SumFunction
<1>4. /\ IsFiniteSet(Sessions) /\ IsFiniteSet(Sessions \ {s})
      /\ Cardinality(Sessions \ {s}) = Cardinality(Sessions) - 1
      /\ Cardinality(Sessions) \in Nat
  BY ChallengeAssumption, FS_RemoveElement, FS_CardinalityType
<1>5. SumFunctionOnSet(g, Sessions) = g[s] + SumFunctionOnSet(g, Sessions \ {s})
  BY <1>2, <1>4, SumTake
<1>6. SumFunctionOnSet(g, Sessions \ {s}) <= 2 * Cardinality(Sessions \ {s})
  BY <1>2, <1>4, SumAtMost
<1>7. SumFunctionOnSet(g, Sessions \ {s}) \in Int /\ g[s] <= 1 /\ g[s] \in Int
  BY <1>1, <1>2, <1>4, SumInt
<1>. QED
  BY <1>3, <1>4, <1>5, <1>6, <1>7

\* A step that counts no wrong code: session s moves, or nobody does, and gets
\* nothing more to add than a crash allows.
LEMMA NothingCounted ==
  ASSUME CInv, CInv', GInv, NEW s \in Sessions,
         \A t \in Sessions \ {s} : ses'[t] = ses[t],
         UNCHANGED failures, issued \subseteq issued', due \subseteq due', crashes' >= crashes,
         ses'[s].pc \in {"count", "log"} => ses'[s].id \in issued,
         ses'[s].pc = "log" => ses'[s].seen <= failures[ses'[s].id],
         \A c \in issued : rows'[c].status = "PENDING" => rows[c].status = "PENDING",
         \A c \in issued : failures[c] + 1 >= MaxAttempts =>
           Left(s, c)' <= Left(s, c) + (crashes' - crashes)
  PROVE  GInv'
<1> USE ChallengeAssumption
<1>1. PICK n \in Nat : n = Cardinality(Sessions)
  BY FS_CardinalityType
<1>2. crashes \in Nat /\ crashes' \in Nat /\ failures \in [Challenges -> Nat]
  BY DEF CInv, TypeOK
<1>3. PICK d \in Int : d = crashes' - crashes
  <2>1. crashes' - crashes \in Int
    BY <1>2
  <2>2. QED
    BY <2>1, Zenon
<1>4. ASSUME NEW c \in Challenges \ issued
      PROVE  failures[c] = 0 /\ GuessesLeft(c)' <= 2 * (n - 1) + 1
  <2>1. Alive(c)' \in BOOLEAN
    BY DEF Alive
  <2>2. Left(s, c)' <= 1
    BY <2>1, LeftNext
  <2>3. QED
    BY <1>1, <1>4, <2>2, GuessesFew DEF GInv
<1>5. ASSUME NEW c \in issued, failures[c] + 1 >= MaxAttempts
      PROVE  failures[c] + GuessesLeft(c)' <= MaxAttempts + 2 * (n - 1) + crashes'
  <2>1. c \in Challenges /\ (Alive(c)' => Alive(c))
    BY DEF CInv, TypeOK, Alive
  <2>2. Left(s, c)' <= Left(s, c) + d
    BY <1>3, <1>5
  <2>3. GuessesLeft(c)' <= GuessesLeft(c) + d
    BY <2>1, <2>2, GuessesMove
  <2>4. failures[c] \in Nat /\ ~(failures[c] + 1 < MaxAttempts)
    BY <1>2, <1>5, <2>1
  <2>5. failures[c] + GuessesLeft(c) <= MaxAttempts + 2 * (n - 1) + crashes
    BY <1>1, <2>1, <2>4 DEF GInv
  <2>6. QED
    BY <1>1, <1>2, <1>3, <2>3, <2>4, <2>5, GuessesInt
<1>6. ASSUME NEW c \in Challenges
      PROVE  \/ failures'[c] + 1 < MaxAttempts
             \/ failures'[c] + GuessesLeft(c)' <= MaxAttempts + 2 * (n - 1) + crashes'
  <2>1. CASE c \notin issued
    <3>1. failures'[c] = 0 /\ GuessesLeft(c)' <= 2 * (n - 1) + 1
      BY <1>4, <2>1
    <3>2. QED
      BY <1>1, <1>2, <3>1, GuessesInt
  <2>2. CASE c \in issued
    BY <1>2, <1>5, <2>2
  <2>3. QED
    BY <2>1, <2>2
<1>7. \A c \in Challenges \ issued' : failures'[c] = 0
  BY DEF GInv
<1>8. \A t \in Sessions : ses'[t].pc = "log" => ses'[t].seen <= failures'[ses'[t].id]
  BY DEF GInv
<1>9. QED
  BY <1>1, <1>6, <1>7, <1>8 DEF GInv

\* A session that neither counted nor will count; a crash at any point.
LEMMA NothingToCount ==
  ASSUME CInv, CInv', GInv, NEW s \in Sessions,
         \A t \in Sessions \ {s} : ses'[t] = ses[t],
         UNCHANGED failures, issued \subseteq issued', due \subseteq due',
         ses'[s].pc \notin {"count", "log"},
         \A c \in issued : rows'[c].status = "PENDING" => rows[c].status = "PENDING",
         \/ crashes' = crashes + 1
         \/ crashes' = crashes /\ ses[s].pc \notin {"count", "log", "expire"}
         \/ /\ crashes' = crashes /\ ses[s].pc = "expire"
            /\ rows'[ses[s].id].status = "EXPIRED"
  PROVE  GInv'
<1>1. crashes \in Nat /\ crashes' \in Nat
  BY DEF CInv, TypeOK
<1>2. ASSUME NEW c \in issued
      PROVE  Left(s, c)' <= Left(s, c) + (crashes' - crashes)
  <2>1. Alive(c)' => Alive(c)
    BY DEF Alive
  <2>2. /\ Left(s, c) \in {0, 1, 2} /\ Left(s, c)' \in {0, 1, 2}
        /\ Left(s, c)' <= IF Alive(c)' THEN 1 ELSE 0
    BY LeftIs, LeftNext
  <2>3. CASE crashes' = crashes + 1
    BY <1>1, <2>2, <2>3
  <2>4. CASE crashes' = crashes /\ (ses[s].pc \notin {"count", "log", "expire"} \/ ses[s].id # c)
    <3>1. Left(s, c) = IF Alive(c) THEN 1 ELSE 0
      BY <2>4, LeftIs
    <3>2. Left(s, c)' <= Left(s, c)
      BY <2>1, <2>2, <3>1
    <3>3. QED
      BY <1>1, <2>2, <2>4, <3>2
  <2>5. CASE crashes' = crashes /\ ses[s].id = c /\ rows'[c].status = "EXPIRED"
    <3>1. ~Alive(c)'
      BY <2>5 DEF Alive
    <3>2. QED
      BY <1>1, <2>2, <2>5, <3>1
  <2>6. QED
    BY <2>3, <2>4, <2>5
<1>3. crashes' >= crashes
  BY <1>1
<1>4. QED
  BY <1>2, <1>3, NothingCounted

\* The probe, the page, the reissue, the clock: nobody counts a wrong code.
LEMMA QuietSteps ==
  ASSUME CInv, CInv', GInv,
         \/ \E c \in Challenges : Issue(c) \/ CoolDown(c) \/ Elapse(c)
         \/ \E s \in Sessions :
              \/ \E c \in Challenges, op \in {"confirm", "attempt"},
                   answer \in {"right", "wrong", "tampered"} : Submit(s, c, op, answer)
              \/ \E c \in Challenges : Reissue(s, c) \/ View(s, c) \/ Create(s, c)
              \/ CheckCooldown(s) \/ Commit(s) \/ Supersede(s) \/ Deliver(s)
              \/ Expire(s) \/ Crash(s)
  PROVE  GInv'
<1> USE ChallengeAssumption
<1>1. /\ ses \in [Sessions -> Session] /\ rows \in [Challenges -> Row]
      /\ issued \subseteq Challenges /\ crashes \in Nat
  BY DEF CInv, TypeOK
<1>2. ASSUME NEW c \in Challenges, Issue(c) \/ CoolDown(c) \/ Elapse(c)
      PROVE  GInv'
  <2>1. PICK s \in Sessions : TRUE
    OBVIOUS
  <2>2. /\ UNCHANGED <<failures, ses, crashes>> /\ issued \subseteq issued' /\ due \subseteq due'
        /\ \A d \in issued : rows'[d] = rows[d]
    BY <1>1, <1>2 DEF Issue, CoolDown, Elapse
  <2>3. \A d \in issued : Alive(d)' => Alive(d)
    BY <2>2 DEF Alive
  <2>4. ASSUME NEW d \in issued
        PROVE  Left(s, d)' <= Left(s, d) + (crashes' - crashes)
    <3>1. Left(s, d)' <= Left(s, d) /\ Left(s, d) \in {0, 1, 2} /\ Left(s, d)' \in {0, 1, 2}
      BY <2>2, <2>3, LeftStays, LeftIs, LeftNext
    <3>2. QED
      BY <1>1, <2>2, <3>1
  <2>5. ses'[s].pc \in {"count", "log"} => ses'[s].id \in issued
    BY <2>2 DEF CInv, SessionsKnow
  <2>6. ses'[s].pc = "log" => ses'[s].seen <= failures[ses'[s].id]
    BY <2>2 DEF GInv
  <2>7. crashes' >= crashes
    BY <1>1, <2>2
  <2>8. QED
    BY <2>2, <2>4, <2>5, <2>6, <2>7, NothingCounted
<1>3. ASSUME NEW s \in Sessions,
             \/ \E c \in Challenges, op \in {"confirm", "attempt"},
                  answer \in {"right", "wrong", "tampered"} : Submit(s, c, op, answer)
             \/ \E c \in Challenges : Reissue(s, c) \/ View(s, c)
             \/ CheckCooldown(s)
      PROVE  GInv'
  <2>1. /\ UNCHANGED <<failures, issued, due, rows, crashes>>
        /\ ses[s].pc \notin {"count", "log", "expire"}
    BY <1>3 DEF Submit, Reissue, View, CheckCooldown, clock
  <2>2. \A t \in Sessions \ {s} : ses'[t] = ses[t]
    BY <1>1, <1>3 DEF Submit, Reissue, View, CheckCooldown, Goto, Done
  <2>3. ses'[s].pc \notin {"count", "log"}
    <3>1. ASSUME NEW c \in Challenges, NEW op, NEW answer, Submit(s, c, op, answer)
          PROVE  ses'[s].pc \notin {"count", "log"}
      <4>1. CASE answer = "tampered" /\ rows[c].status = "PENDING"
        <5>1. Goto(s, "expire", c)
          BY <3>1, <4>1 DEF Submit
        <5>2. ses'[s] = [Idle EXCEPT !.pc = "expire", !.id = c]
          BY <1>1, <5>1 DEF Goto
        <5>3. QED
          BY <5>2 DEF Idle
      <4>2. CASE ~(answer = "tampered" /\ rows[c].status = "PENDING")
        <5>1. ses' = [ses EXCEPT ![s] = [Idle EXCEPT !.pc = "lock", !.op = op, !.id = c,
                                                     !.answer = answer]]
          BY <3>1, <4>2 DEF Submit
        <5>2. ses'[s] = [Idle EXCEPT !.pc = "lock", !.op = op, !.id = c, !.answer = answer]
          BY <1>1, <5>1
        <5>3. QED
          BY <5>2 DEF Idle
      <4>3. QED
        BY <4>1, <4>2
    <3>2. CASE \E c \in Challenges : Reissue(s, c) \/ View(s, c)
      <4>1. PICK c \in Challenges : Goto(s, "cooldown", c) \/ Goto(s, "expire", c)
        BY <3>2 DEF Reissue, View
      <4>2. \/ ses'[s] = [Idle EXCEPT !.pc = "cooldown", !.id = c]
            \/ ses'[s] = [Idle EXCEPT !.pc = "expire", !.id = c]
        BY <1>1, <4>1 DEF Goto
      <4>3. QED
        BY <4>2 DEF Idle
    <3>3. CASE CheckCooldown(s)
      <4>1. Goto(s, "create", ses[s].id) \/ Done(s)
        BY <3>3 DEF CheckCooldown
      <4>2. CASE Goto(s, "create", ses[s].id)
        BY <1>1, <4>2 DEF Goto, Idle
      <4>3. CASE Done(s)
        BY <1>1, <4>3 DEF Done, Idle
      <4>4. QED
        BY <4>1, <4>2, <4>3
    <3>4. QED
      BY <1>3, <3>1, <3>2, <3>3
  <2>4. QED
    BY <2>1, <2>2, <2>3, NothingToCount
<1>4. ASSUME NEW s \in Sessions, NEW c \in Challenges, Create(s, c)
      PROVE  GInv'
  <2>1. /\ UNCHANGED <<failures, due, crashes>> /\ issued \subseteq issued'
        /\ ses[s].pc \notin {"count", "log", "expire"}
        /\ \A d \in issued : rows'[d] = rows[d]
    BY <1>1, <1>4 DEF Create
  <2>2. ses' = [ses EXCEPT ![s] = [ses[s] EXCEPT !.pc = "supersede", !.new = c]]
    BY <1>4 DEF Create
  <2>3. ses[s] \in Session
    BY <1>1
  <2>4. ses'[s].pc = "supersede" /\ \A t \in Sessions \ {s} : ses'[t] = ses[t]
    BY <1>1, <2>2, <2>3 DEF Session
  <2>5. QED
    BY <2>1, <2>4, NothingToCount
<1>5. ASSUME NEW s \in Sessions, Commit(s) \/ Supersede(s) \/ Deliver(s) \/ Expire(s) \/ Crash(s)
      PROVE  GInv'
  <2>1. UNCHANGED <<failures, issued, due>>
    BY <1>5 DEF Commit, Supersede, Deliver, Expire, Crash, clock
  <2>2. \A t \in Sessions \ {s} : ses'[t] = ses[t]
    BY <1>1, <1>5 DEF Commit, Supersede, Deliver, Expire, Crash, Done
  <2>3. ses'[s].pc \notin {"count", "log"}
    <3>1. ses[s] \in Session
      BY <1>1
    <3>2. CASE Supersede(s)
      BY <1>1, <3>1, <3>2 DEF Supersede, Session
    <3>3. CASE ~Supersede(s)
      BY <1>1, <1>5, <3>3 DEF Commit, Deliver, Expire, Crash, Done, Idle
    <3>4. QED
      BY <3>2, <3>3
  <2>4. \A d \in issued : rows'[d].status = "PENDING" => rows[d].status = "PENDING"
    <3> SUFFICES ASSUME NEW d \in issued, rows'[d].status = "PENDING"
                 PROVE  rows[d].status = "PENDING"
      OBVIOUS
    <3>1. rows[d] \in Row /\ d \in Challenges
      BY <1>1
    <3>2. CASE Commit(s)
      BY <1>1, <3>1, <3>2 DEF Commit, Row
    <3>3. CASE Supersede(s) \/ Expire(s)
      BY <1>1, <3>1, <3>3 DEF Supersede, Expire, Update, Row
    <3>4. CASE Deliver(s)
      BY <1>1, <3>1, <3>4 DEF Deliver, Row
    <3>5. CASE Crash(s)
      BY <3>5 DEF Crash
    <3>6. QED
      BY <1>5, <3>2, <3>3, <3>4, <3>5
  <2>5. \/ crashes' = crashes + 1
        \/ crashes' = crashes /\ ses[s].pc \notin {"count", "log", "expire"}
        \/ /\ crashes' = crashes /\ ses[s].pc = "expire"
           /\ rows'[ses[s].id].status = "EXPIRED"
    <3>1. CASE Expire(s)
      <4>1. ses[s].pc = "expire" /\ ses[s].id \in Challenges /\ UNCHANGED crashes
        BY <1>1, <3>1 DEF Expire, CInv, SessionsKnow
      <4>2. rows[ses[s].id] \in Row
        BY <1>1, <4>1
      <4>3. rows'[ses[s].id].status = "EXPIRED"
        BY <1>1, <3>1, <4>1, <4>2 DEF Expire, Update, Row
      <4>4. QED
        BY <4>1, <4>3
    <3>2. CASE ~Expire(s)
      BY <1>5, <3>2 DEF Commit, Supersede, Deliver, Crash
    <3>3. QED
      BY <3>1, <3>2
  <2>6. QED
    BY <2>1, <2>2, <2>3, <2>4, <2>5, NothingToCount
<1>6. QED
  BY <1>2, <1>3, <1>4, <1>5

\* A wrong code is refused: what the session may add is now on its way.
LEMMA RefusedStep ==
  ASSUME CInv, CInv', GInv, NEW s \in Sessions, LockAndVerify(s)
  PROVE  GInv'
<1>1. ses \in [Sessions -> Session] /\ issued \subseteq Challenges /\ crashes \in Nat
  BY DEF CInv, TypeOK
<1>2. PICK c : c = ses[s].id
  OBVIOUS
<1>3. /\ UNCHANGED <<failures, issued, due, rows, crashes>> /\ ses[s].pc = "lock"
      /\ c \in issued
  BY <1>2 DEF LockAndVerify, clock, CInv, SessionsKnow
<1>4. \/ Alive(c) /\ Goto(s, "count", c)
      \/ ses' = [ses EXCEPT ![s].pc = "commit"]
      \/ Done(s)
  BY <1>2 DEF LockAndVerify
<1>5. \A t \in Sessions \ {s} : ses'[t] = ses[t]
  BY <1>1, <1>4 DEF Goto, Done
<1>6. CASE Alive(c) /\ Goto(s, "count", c)
  <2>1. ses'[s].pc = "count" /\ ses'[s].id = c
    BY <1>1, <1>6 DEF Goto, Idle
  <2>2. ASSUME NEW d \in issued
        PROVE  Left(s, d)' <= Left(s, d) + (crashes' - crashes)
    <3>1. /\ Left(s, d) = IF Alive(d) THEN 1 ELSE 0
          /\ Left(s, d)' \in {0, 1, 2}
      BY <1>3, LeftIs, LeftNext
    <3>2. CASE d = c
      BY <1>1, <1>3, <1>6, <2>1, <3>1, <3>2, LeftNext
    <3>3. CASE d # c
      <4>1. Left(s, d)' <= IF Alive(d)' THEN 1 ELSE 0
        BY <2>1, <3>3, LeftNext
      <4>2. Alive(d)' <=> Alive(d)
        BY <1>3 DEF Alive
      <4>3. QED
        BY <1>1, <1>3, <3>1, <4>1, <4>2
    <3>4. QED
      BY <3>2, <3>3
  <2>3. crashes' >= crashes
    BY <1>1, <1>3
  <2>4. QED
    BY <1>3, <1>5, <2>1, <2>2, <2>3, NothingCounted
<1>7. CASE ses' = [ses EXCEPT ![s].pc = "commit"] \/ Done(s)
  <2>1. ses[s] \in Session
    BY <1>1
  <2>2. ses'[s].pc \notin {"count", "log"}
    BY <1>1, <1>7, <2>1 DEF Done, Idle, Session
  <2>3. QED
    BY <1>3, <1>5, <2>2, NothingToCount
<1>8. QED
  BY <1>4, <1>6, <1>7

LEMMA CountStep ==
  ASSUME CInv, CInv', GInv, NEW s \in Sessions, CountFailures(s)
  PROVE  GInv'
<1>1. /\ ses \in [Sessions -> Session] /\ issued \subseteq Challenges /\ crashes \in Nat
      /\ failures \in [Challenges -> Nat]
  BY DEF CInv, TypeOK
<1>2. PICK c : c = ses[s].id
  OBVIOUS
<1>3. /\ UNCHANGED <<failures, issued, due, rows, crashes>> /\ ses[s].pc = "count"
      /\ c \in issued /\ c \in Challenges
  BY <1>1, <1>2 DEF CountFailures, clock, CInv, SessionsKnow
<1>4. ses' = [ses EXCEPT ![s] = [ses[s] EXCEPT !.pc = "log", !.seen = failures[c]]]
  BY <1>2 DEF CountFailures
<1>5. ses[s] \in Session
  BY <1>1
<1>6. /\ ses'[s].pc = "log" /\ ses'[s].id = c /\ ses'[s].seen = failures[c]
      /\ \A t \in Sessions \ {s} : ses'[t] = ses[t]
  BY <1>1, <1>2, <1>4, <1>5 DEF Session
<1>7. failures[c] \in Nat
  BY <1>1, <1>3
<1>8. ASSUME NEW d \in issued, failures[d] + 1 >= MaxAttempts
      PROVE  Left(s, d)' <= Left(s, d) + (crashes' - crashes)
  <2>1. Left(s, d) \in {0, 1, 2} /\ Left(s, d)' \in {0, 1, 2}
    BY LeftIs, LeftNext
  <2>2. CASE d = c
    <3>1. ~(ses'[s].seen + 1 < MaxAttempts)
      BY <1>6, <1>7, <1>8, <2>2, ChallengeAssumption
    <3>2. Left(s, d)' = 1 /\ Left(s, d) >= 1
      BY <1>2, <1>3, <1>6, <2>2, <3>1, LeftIs, LeftNext
    <3>3. QED
      BY <1>1, <1>3, <2>1, <3>2
  <2>3. CASE d # c
    <3>1. /\ Left(s, d) = IF Alive(d) THEN 1 ELSE 0
          /\ Left(s, d)' <= IF Alive(d)' THEN 1 ELSE 0
      BY <1>2, <1>6, <2>3, LeftIs, LeftNext
    <3>2. Alive(d)' <=> Alive(d)
      BY <1>3 DEF Alive
    <3>3. QED
      BY <1>1, <1>3, <2>1, <3>1, <3>2
  <2>4. QED
    BY <2>2, <2>3
<1>9. crashes' >= crashes /\ ses'[s].seen <= failures[ses'[s].id]
  BY <1>1, <1>3, <1>6, <1>7
<1>10. QED
  BY <1>3, <1>6, <1>8, <1>9, NothingCounted

\* A wrong code is logged: one guess more made, one less left.
LEMMA LogStep ==
  ASSUME CInv, CInv', GInv, NEW s \in Sessions, LogFailure(s)
  PROVE  GInv'
<1> USE ChallengeAssumption
<1>1. /\ ses \in [Sessions -> Session] /\ issued \subseteq Challenges /\ crashes \in Nat
      /\ failures \in [Challenges -> Nat]
  BY DEF CInv, TypeOK
<1>2. PICK c : c = ses[s].id
  OBVIOUS
<1>3. /\ UNCHANGED <<issued, due, rows, crashes>> /\ ses[s].pc = "log"
      /\ c \in issued /\ c \in Challenges
  BY <1>1, <1>2 DEF LogFailure, clock, CInv, SessionsKnow
<1>4. PICK m \in Nat : m = ses[s].seen
  BY <1>1 DEF Session
<1>5. IF m + 1 >= MaxAttempts THEN Goto(s, "expire", c) ELSE Done(s)
  BY <1>2, <1>4 DEF LogFailure
<1>6. PICK n \in Nat : n = Cardinality(Sessions)
  BY FS_CardinalityType
<1>7. /\ failures' = [failures EXCEPT ![c] = failures[c] + 1] /\ failures[c] \in Nat
      /\ failures'[c] = failures[c] + 1
      /\ \A d \in Challenges \ {c} : failures'[d] = failures[d]
  BY <1>1, <1>2, <1>3 DEF LogFailure
<1>8. m <= failures[c]
  BY <1>2, <1>3, <1>4 DEF GInv
<1>9. /\ \A t \in Sessions \ {s} : ses'[t] = ses[t]
      /\ IF m + 1 >= MaxAttempts THEN ses'[s].pc = "expire" /\ ses'[s].id = c
                                 ELSE ses'[s].pc = "idle"
  <2>1. CASE m + 1 >= MaxAttempts
    <3>1. Goto(s, "expire", c)
      BY <1>5, <2>1
    <3>2. QED
      BY <1>1, <2>1, <3>1 DEF Goto, Idle
  <2>2. CASE ~(m + 1 >= MaxAttempts)
    <3>1. Done(s)
      BY <1>5, <2>2
    <3>2. QED
      BY <1>1, <2>2, <3>1 DEF Done, Idle
  <2>3. QED
    BY <2>1, <2>2
<1>10. \A d \in Challenges : Alive(d)' <=> Alive(d)
  BY <1>3 DEF Alive
<1>11. Left(s, c) \in {0, 1, 2} /\ Left(s, c)' \in {0, 1, 2} /\ Left(s, c)' <= Left(s, c) - 1
       /\ Left(s, c)' <= 1
  <2>1. Left(s, c) >= 1 /\ Left(s, c) \in {0, 1, 2} /\ Left(s, c)' \in {0, 1, 2}
    BY <1>2, <1>3, LeftIs, LeftNext
  <2>2. CASE m + 1 >= MaxAttempts
    <3>1. Left(s, c)' = 0
      BY <1>9, <2>2, LeftNext
    <3>2. QED
      BY <2>1, <3>1
  <2>3. CASE ~(m + 1 >= MaxAttempts)
    <3>1. m + 1 < MaxAttempts /\ Left(s, c)' <= IF Alive(c)' THEN 1 ELSE 0
      BY <1>9, <2>3, LeftNext
    <3>2. Alive(c) => Left(s, c) = 2
      BY <1>2, <1>3, <1>4, <3>1, LeftIs
    <3>3. QED
      BY <1>3, <1>10, <2>1, <3>1, <3>2
  <2>4. QED
    BY <2>2, <2>3
<1>12. \/ failures'[c] + 1 < MaxAttempts
       \/ failures'[c] + GuessesLeft(c)' <= MaxAttempts + 2 * (n - 1) + crashes'
  <2>1. CASE failures[c] + 2 < MaxAttempts
    BY <1>7, <2>1
  <2>2. CASE failures[c] + 2 = MaxAttempts
    <3>1. GuessesLeft(c)' <= 2 * (n - 1) + 1 /\ GuessesLeft(c)' \in Int
      BY <1>6, <1>11, GuessesFew, GuessesInt
    <3>2. QED
      BY <1>1, <1>3, <1>7, <2>2, <3>1
  <2>3. CASE failures[c] + 1 >= MaxAttempts
    <3>1. failures[c] + GuessesLeft(c) <= MaxAttempts + 2 * (n - 1) + crashes
      <4>1. ~(failures[c] + 1 < MaxAttempts)
        BY <1>7, <2>3
      <4>2. QED
        BY <1>3, <1>6, <4>1 DEF GInv
    <3>2. PICK d \in Int : d = -1
      OBVIOUS
    <3>3. Left(s, c)' <= Left(s, c) + d
      BY <1>11, <3>2
    <3>4. GuessesLeft(c)' <= GuessesLeft(c) + d
      BY <1>3, <1>9, <1>10, <3>3, GuessesMove
    <3>5. QED
      BY <1>1, <1>3, <1>7, <3>1, <3>2, <3>4, GuessesInt
  <2>4. QED
    BY <1>7, <2>1, <2>2, <2>3
<1>13. ASSUME NEW d \in Challenges \ {c}
       PROVE  \/ failures'[d] + 1 < MaxAttempts
              \/ failures'[d] + GuessesLeft(d)' <= MaxAttempts + 2 * (n - 1) + crashes'
  <2>1. Left(s, d)' <= Left(s, d) + 0
    <3>1. /\ Left(s, d) = IF Alive(d) THEN 1 ELSE 0
          /\ Left(s, d)' \in {0, 1, 2}
          /\ Left(s, d)' <= IF Alive(d)' THEN 1 ELSE 0
      BY <1>2, <1>9, <1>13, LeftIs, LeftNext
    <3>2. QED
      BY <1>10, <3>1
  <2>2. GuessesLeft(d)' <= GuessesLeft(d) + 0
    BY <1>9, <1>10, <2>1, GuessesMove
  <2>3. failures[d] \in Nat /\ failures'[d] = failures[d]
    BY <1>1, <1>7
  <2>4. \/ failures[d] + 1 < MaxAttempts
        \/ failures[d] + GuessesLeft(d) <= MaxAttempts + 2 * (n - 1) + crashes
    BY <1>6 DEF GInv
  <2>5. QED
    BY <1>1, <1>3, <2>2, <2>3, <2>4, GuessesInt
<1>14. \A d \in Challenges \ issued' : failures'[d] = 0
  BY <1>3, <1>7 DEF GInv
<1>15. ASSUME NEW t \in Sessions, ses'[t].pc = "log"
       PROVE  ses'[t].seen <= failures'[ses'[t].id]
  <2>1. t # s
    BY <1>9, <1>15
  <2>2. ses'[t] = ses[t] /\ ses[t].id \in Challenges /\ ses[t].seen <= failures[ses[t].id]
    BY <1>1, <1>9, <1>15, <2>1 DEF GInv, CInv, SessionsKnow
  <2>3. ses[t].seen \in Nat /\ failures[ses[t].id] \in Nat
    BY <1>1, <2>2 DEF Session
  <2>4. failures'[ses[t].id] >= failures[ses[t].id] /\ failures'[ses[t].id] \in Nat
    BY <1>7, <2>2, <2>3
  <2>5. QED
    BY <2>2, <2>3, <2>4
<1>16. QED
  BY <1>6, <1>12, <1>13, <1>14, <1>15 DEF GInv

LEMMA GuessesStep == CInv /\ CInv' /\ GInv /\ [Next]_vars => GInv'
<1> SUFFICES ASSUME CInv, CInv', GInv, [Next]_vars PROVE GInv'
  OBVIOUS
<1>1. CASE UNCHANGED vars
  <2>1. PICK s \in Sessions : TRUE
    BY ChallengeAssumption
  <2>2. /\ UNCHANGED <<failures, ses, crashes, issued, due, rows>> /\ crashes \in Nat
    BY <1>1 DEF vars, CInv, TypeOK
  <2>3. \A d \in issued : Alive(d)' => Alive(d)
    BY <2>2 DEF Alive
  <2>4. ASSUME NEW d \in issued
        PROVE  Left(s, d)' <= Left(s, d) + (crashes' - crashes)
    <3>1. Left(s, d)' <= Left(s, d) /\ Left(s, d) \in {0, 1, 2} /\ Left(s, d)' \in {0, 1, 2}
      BY <2>2, <2>3, LeftStays, LeftIs, LeftNext
    <3>2. QED
      BY <2>2, <3>1
  <2>5. /\ ses'[s].pc \in {"count", "log"} => ses'[s].id \in issued
        /\ ses'[s].pc = "log" => ses'[s].seen <= failures[ses'[s].id]
        /\ crashes' >= crashes
    BY <2>2 DEF CInv, SessionsKnow, GInv
  <2>6. QED
    BY <2>2, <2>4, <2>5, NothingCounted
<1>2. CASE Next
  BY <1>2, QuietSteps, RefusedStep, CountStep, LogStep DEF Next, Proceed
<1>3. QED
  BY <1>1, <1>2

LEMMA NoGuessesYet == Init => GInv
<1> SUFFICES ASSUME Init PROVE GInv
  OBVIOUS
<1> USE ChallengeAssumption
<1>1. \A c \in Challenges : failures[c] = 0 /\ rows[c].status = "EXPIRED"
  BY DEF Init, NoRow
<1>2. \A s \in Sessions : ses[s].pc = "idle"
  BY IdleTyped DEF Init
<1>3. ASSUME NEW c \in Challenges
      PROVE  failures[c] + GuessesLeft(c) <= MaxAttempts + 2 * (Cardinality(Sessions) - 1) + crashes
  <2>1. PICK f : f = [s \in Sessions |-> Left(s, c)]
    OBVIOUS
  <2>2. \A s \in Sessions : f[s] \in Int /\ f[s] <= 0
    BY <1>1, <1>2, <2>1, LeftIs DEF Alive
  <2>3. GuessesLeft(c) = SumFunctionOnSet(f, Sessions)
    BY <2>1 DEF GuessesLeft, SumFunction
  <2>4. Cardinality(Sessions) \in Nat /\ Cardinality(Sessions) # 0
    BY FS_CardinalityType, FS_EmptySet
  <2>5. SumFunctionOnSet(f, Sessions) <= 0 * Cardinality(Sessions)
    BY <2>2, SumAtMost
  <2>6. GuessesLeft(c) = 0
    BY <2>3, <2>4, <2>5, GuessesInt
  <2>7. QED
    BY <1>1, <2>4, <2>6 DEF Init
<1>4. QED
  BY <1>1, <1>2, <1>3 DEF GInv

\* The wrong codes taken for a challenge and those that can still be added are
\* bounded together from the last attempt allowed on.
THEOREM GuessesInvariant == Spec => []GInv
<1>1. Init => GInv
  BY NoGuessesYet
<1>2. CInv /\ CInv' /\ GInv /\ [Next]_vars => GInv'
  BY GuessesStep
<1>3. QED
  BY <1>1, <1>2, ChallengeInvariant, PTL DEF Spec

\* The lock around verify-and-consume is released before a wrong code is
\* counted: however many sessions race there, and die there, MAX_ATTEMPTS is
\* exceeded by two for each other session and one for each crash at the most.
THEOREM GuessesStayBounded == Spec => []GuessesBounded
<1>1. CInv /\ GInv => GuessesBounded
  <2> SUFFICES ASSUME CInv, GInv, NEW c \in Challenges
               PROVE  failures[c] <= MaxAttempts + 2 * (Cardinality(Sessions) - 1) + crashes
    BY DEF GuessesBounded
  <2>1. failures[c] \in Nat /\ crashes \in Nat
    BY DEF CInv, TypeOK
  <2>2. Cardinality(Sessions) \in Nat /\ Cardinality(Sessions) # 0
    BY ChallengeAssumption, FS_CardinalityType, FS_EmptySet
  <2>3. \/ failures[c] + 1 < MaxAttempts
        \/ failures[c] + GuessesLeft(c) <= MaxAttempts + 2 * (Cardinality(Sessions) - 1) + crashes
    BY DEF GInv
  <2>4. QED
    BY <2>1, <2>2, <2>3, GuessesInt, ChallengeAssumption
<1>2. QED
  BY <1>1, ChallengeInvariant, GuessesInvariant, PTL
=============================================================================
