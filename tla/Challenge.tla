------------------------------ MODULE Challenge ------------------------------
(***************************************************************************)
(* Step-up challenges (apps/fraud/challenge.py, challenge_guard.py,        *)
(* challenge_delivery.py and challenge_views.py): a code sent to the       *)
(* customer authorises one operation with the facts it was issued for.     *)
(*                                                                         *)
(* Only verify-and-consume runs in a transaction, behind the row lock of   *)
(* the challenge.  What surrounds it runs in autocommit: it reads a row    *)
(* without a lock and later updates it whatever it has become.  A step is  *)
(* one statement; an UPDATE waits for the holder of the row lock.          *)
(*                                                                         *)
(* One customer, who owns all challenges: the ownership checks and the     *)
(* wording of what goes wrong are left out.  A client answers with the     *)
(* right code, with a wrong one, or with other facts than were bound.      *)
(***************************************************************************)
EXTENDS Integers, FiniteSets, Functions

CONSTANTS
  Sessions,      \* web workers
  Challenges,    \* primary keys of RiskChallenge
  None,          \* no row, no session, no predecessor
  MaxAttempts,   \* MAX_ATTEMPTS
  MaxCrashes     \* bound: how many workers die

ASSUME ChallengeAssumption ==
  /\ None \notin Challenges /\ None \notin Sessions
  /\ IsFiniteSet(Sessions) /\ Sessions # {}
  /\ MaxAttempts \in Nat \ {0}
  /\ MaxCrashes \in Nat

Statuses == {"PENDING", "VERIFIED", "CONSUMED", "EXPIRED"}

\* prev: the challenge this one was reissued for; sent: its code was delivered.
Row == [status : Statuses, prev : Challenges \cup {None}, sent : BOOLEAN]

NoRow == [status |-> "EXPIRED", prev |-> None, sent |-> FALSE]

VARIABLES
  issued,      \* primary keys in use
  rows,        \* [Challenges -> Row]
  due,         \* challenges whose expires_at has passed
  recent,      \* challenges created within the reissue cooldown
  failures,    \* [Challenges -> Nat]: CHALLENGE_FAILED rows of the audit log
  lock,        \* [Challenges -> who holds the row FOR UPDATE]
  ses,         \* what each session is doing
  authorised,  \* history: [Challenges -> operations it let through]
  crashes      \* history: how many workers died

vars == <<issued, rows, due, recent, failures, lock, ses, authorised, crashes>>

Steps == {"idle", "lock", "commit", "count", "log", "expire",
          "cooldown", "create", "supersede", "deliver"}

Answers == {"none", "right", "wrong", "tampered"}

\* op, answer: what the client asked for and submitted, while it matters.
\* seen: the failures the session counted.  new: what it reissues.
Session == [pc : Steps, op : {"none", "confirm", "attempt"}, id : Challenges \cup {None},
            answer : Answers, seen : Nat, new : Challenges \cup {None}]

Idle == [pc |-> "idle", op |-> "none", id |-> None, answer |-> "none", seen |-> 0, new |-> None]

TypeOK ==
  /\ issued \in SUBSET Challenges
  /\ rows \in [Challenges -> Row]
  /\ due \in SUBSET Challenges
  /\ recent \in SUBSET Challenges
  /\ failures \in [Challenges -> Nat]
  /\ lock \in [Challenges -> Sessions \cup {None}]
  /\ ses \in [Sessions -> Session]
  /\ authorised \in [Challenges -> Nat]
  /\ crashes \in Nat

Init ==
  /\ issued = {}
  /\ rows = [c \in Challenges |-> NoRow]
  /\ due = {}
  /\ recent = {}
  /\ failures = [c \in Challenges |-> 0]
  /\ lock = [c \in Challenges |-> None]
  /\ ses = [s \in Sessions |-> Idle]
  /\ authorised = [c \in Challenges |-> 0]
  /\ crashes = 0

-----------------------------------------------------------------------------

clock == <<due, recent>>

Free(s, c) == lock[c] \in {None, s}

Done(s) == ses' = [ses EXCEPT ![s] = Idle]

\* The session goes on with challenge c at step pc; what it knew is dropped.
Goto(s, pc, c) == ses' = [ses EXCEPT ![s] = [Idle EXCEPT !.pc = pc, !.id = c]]

\* UPDATE ... SET status WHERE pk = c, whatever the status is now.
Update(s, c, st) == Free(s, c) /\ rows' = [rows EXCEPT ![c].status = st]

\* issue_and_deliver: the gate stopped an operation.  Nobody knows the code
\* before it is delivered, so that the two are one step.
Issue(c) ==
  /\ c \notin issued
  /\ issued' = issued \cup {c}
  /\ recent' = recent \cup {c}
  /\ rows' = [rows EXCEPT ![c] = [status |-> "PENDING", prev |-> None, sent |-> TRUE]]
  /\ UNCHANGED <<due, failures, lock, ses, authorised, crashes>>

\* A minute passes, ten minutes pass.
CoolDown(c) ==
  /\ c \in recent
  /\ recent' = recent \ {c}
  /\ UNCHANGED <<issued, rows, due, failures, lock, ses, authorised, crashes>>

Elapse(c) ==
  /\ c \in issued \ (recent \cup due)
  /\ due' = due \cup {c}
  /\ UNCHANGED <<issued, rows, recent, failures, lock, ses, authorised, crashes>>

-----------------------------------------------------------------------------
(* confirm (an operation is resumed) and attempt (the challenge page).     *)

\* The probe, without a lock: _precheck_material decides to kill a challenge it
\* saw PENDING when the facts do not match.
Submit(s, c, op, answer) ==
  /\ ses[s].pc = "idle"
  /\ c \in issued
  /\ IF answer = "tampered" /\ rows[c].status = "PENDING"
       THEN Goto(s, "expire", c)
       ELSE ses' = [ses EXCEPT ![s] = [Idle EXCEPT !.pc = "lock", !.op = op, !.id = c,
                                                   !.answer = answer]]
  /\ UNCHANGED <<issued, rows, clock, failures, lock, authorised, crashes>>

\* Somebody who read the challenge earlier - the precheck, the fifth failure, a
\* look at the page - writes EXPIRED over whatever it has become.
Expire(s) ==
  /\ ses[s].pc = "expire"
  /\ Update(s, ses[s].id, "EXPIRED")
  /\ Done(s)
  /\ UNCHANGED <<issued, clock, failures, lock, authorised, crashes>>

Alive(c) == rows[c].status = "PENDING" /\ c \notin due

\* Mutant of LockAndVerify: get() instead of select_for_update().
LockAndVerify_Unlocked(s) ==
  LET w == ses[s]
  IN /\ w.pc = "lock"
     /\ CASE Alive(w.id) /\ w.answer = "right" -> ses' = [ses EXCEPT ![s].pc = "commit"]
          [] Alive(w.id) /\ w.answer = "wrong" -> Goto(s, "count", w.id)
          [] OTHER -> Done(s)
     /\ UNCHANGED <<issued, rows, clock, failures, lock, authorised, crashes>>

\* Mutant of LockAndVerify: only the deadline is looked at, not the status.
LockAndVerify_AnyStatus(s) ==
  LET w == ses[s]
  IN /\ w.pc = "lock"
     /\ Free(s, w.id)
     /\ CASE w.id \notin due /\ w.answer = "right" ->
              ses' = [ses EXCEPT ![s].pc = "commit"] /\ lock' = [lock EXCEPT ![w.id] = s]
          [] w.id \notin due /\ w.answer = "wrong" -> Goto(s, "count", w.id) /\ UNCHANGED lock
          [] OTHER -> Done(s) /\ UNCHANGED lock
     /\ UNCHANGED <<issued, rows, clock, failures, authorised, crashes>>

\* The row lock, then verify_challenge.  Everything but the right code raises
\* and rolls back, the lazy expiry included.
LockAndVerify(s) ==
  LET w == ses[s]
  IN /\ w.pc = "lock"
     /\ Free(s, w.id)
     /\ CASE Alive(w.id) /\ w.answer = "right" ->
              ses' = [ses EXCEPT ![s].pc = "commit"] /\ lock' = [lock EXCEPT ![w.id] = s]
          [] Alive(w.id) /\ w.answer = "wrong" -> Goto(s, "count", w.id) /\ UNCHANGED lock
          [] OTHER -> Done(s) /\ UNCHANGED lock
     /\ UNCHANGED <<issued, rows, clock, failures, authorised, crashes>>

\* confirm consumes in the same transaction, attempt leaves it VERIFIED.
Commit(s) ==
  LET w == ses[s]
      c == w.id
  IN /\ w.pc = "commit"
     /\ rows' = [rows EXCEPT ![c].status = IF w.op = "confirm" THEN "CONSUMED" ELSE "VERIFIED"]
     /\ authorised' = IF w.op = "confirm" THEN [authorised EXCEPT ![c] = @ + 1] ELSE authorised
     /\ lock' = [lock EXCEPT ![c] = None]
     /\ Done(s)
     /\ UNCHANGED <<issued, clock, failures, crashes>>

-----------------------------------------------------------------------------
(* _record_failure: after the transaction was rolled back.                 *)

CountFailures(s) ==
  /\ ses[s].pc = "count"
  /\ ses' = [ses EXCEPT ![s] = [@ EXCEPT !.pc = "log", !.seen = failures[ses[s].id]]]
  /\ UNCHANGED <<issued, rows, clock, failures, lock, authorised, crashes>>

\* Mutant of LogFailure: one attempt too many.
LogFailure_OffByOne(s) ==
  LET w == ses[s]
  IN /\ w.pc = "log"
     /\ failures' = [failures EXCEPT ![w.id] = @ + 1]
     /\ IF w.seen + 1 > MaxAttempts THEN Goto(s, "expire", w.id) ELSE Done(s)
     /\ UNCHANGED <<issued, rows, clock, lock, authorised, crashes>>

LogFailure(s) ==
  LET w == ses[s]
  IN /\ w.pc = "log"
     /\ failures' = [failures EXCEPT ![w.id] = @ + 1]
     /\ IF w.seen + 1 >= MaxAttempts THEN Goto(s, "expire", w.id) ELSE Done(s)
     /\ UNCHANGED <<issued, rows, clock, lock, authorised, crashes>>

-----------------------------------------------------------------------------
(* reissue_challenge, statement by statement, all in autocommit.           *)

Reissue(s, c) ==
  /\ ses[s].pc = "idle"
  /\ c \in issued
  /\ rows[c].status = "PENDING"
  /\ Goto(s, "cooldown", c)
  /\ UNCHANGED <<issued, rows, clock, failures, lock, authorised, crashes>>

CheckCooldown(s) ==
  /\ ses[s].pc = "cooldown"
  /\ IF recent \subseteq {ses[s].id} THEN Goto(s, "create", ses[s].id) ELSE Done(s)
  /\ UNCHANGED <<issued, rows, clock, failures, lock, authorised, crashes>>

Create(s, c) ==
  /\ ses[s].pc = "create"
  /\ c \notin issued
  /\ issued' = issued \cup {c}
  /\ recent' = recent \cup {c}
  /\ rows' = [rows EXCEPT ![c] = [status |-> "PENDING", prev |-> ses[s].id, sent |-> FALSE]]
  /\ ses' = [ses EXCEPT ![s] = [@ EXCEPT !.pc = "supersede", !.new = c]]
  /\ UNCHANGED <<due, failures, lock, authorised, crashes>>

\* Mutant of Supersede: only a challenge that is overdue is expired.
Supersede_OnlyDue(s) ==
  LET c == ses[s].id
  IN /\ ses[s].pc = "supersede"
     /\ Update(s, c, IF c \in due THEN "EXPIRED" ELSE rows[c].status)
     /\ ses' = [ses EXCEPT ![s].pc = "deliver"]
     /\ UNCHANGED <<issued, clock, failures, lock, authorised, crashes>>

Supersede(s) ==
  /\ ses[s].pc = "supersede"
  /\ Update(s, ses[s].id, "EXPIRED")
  /\ ses' = [ses EXCEPT ![s].pc = "deliver"]
  /\ UNCHANGED <<issued, clock, failures, lock, authorised, crashes>>

Deliver(s) ==
  /\ ses[s].pc = "deliver"
  /\ rows' = [rows EXCEPT ![ses[s].new].sent = TRUE]
  /\ Done(s)
  /\ UNCHANGED <<issued, clock, failures, lock, authorised, crashes>>

-----------------------------------------------------------------------------
(* challenge_detail: a look at the page expires an overdue challenge.      *)

View(s, c) ==
  /\ ses[s].pc = "idle"
  /\ c \in issued
  /\ rows[c].status = "PENDING" /\ c \in due
  /\ Goto(s, "expire", c)
  /\ UNCHANGED <<issued, rows, clock, failures, lock, authorised, crashes>>

\* A worker dies; PostgreSQL rolls its transaction back.
Crash(s) ==
  /\ ses[s].pc # "idle"
  /\ crashes < MaxCrashes
  /\ crashes' = crashes + 1
  /\ lock' = [c \in Challenges |-> IF lock[c] = s THEN None ELSE lock[c]]
  /\ Done(s)
  /\ UNCHANGED <<issued, rows, clock, failures, authorised>>

-----------------------------------------------------------------------------

Proceed(s) ==
  \/ LockAndVerify(s) \/ Commit(s) \/ Expire(s)
  \/ CountFailures(s) \/ LogFailure(s)
  \/ CheckCooldown(s) \/ \E c \in Challenges : Create(s, c)
  \/ Supersede(s) \/ Deliver(s)

Next ==
  \/ \E c \in Challenges : Issue(c) \/ CoolDown(c) \/ Elapse(c)
  \/ \E s \in Sessions :
       \/ \E c \in Challenges, op \in {"confirm", "attempt"},
            answer \in {"right", "wrong", "tampered"} : Submit(s, c, op, answer)
       \/ \E c \in Challenges : Reissue(s, c) \/ View(s, c)
       \/ Proceed(s)
       \/ Crash(s)

Spec == Init /\ [][Next]_vars

-----------------------------------------------------------------------------
(* Properties.                                                             *)

\* Superseding is two statements and delivery a third, with verifications and
\* crashes in between: still, once a replacement code is in the customer's
\* hands, the code it replaces opens nothing any more.
SentSupersedes ==
  \A c \in issued :
    rows[c].sent /\ rows[c].prev # None => rows[rows[c].prev].status = "EXPIRED"

\* Wrong codes are counted outside the lock, so that more than MAX_ATTEMPTS
\* can be tried, but not many more: each other session can slip in two (one it
\* counted early and one on its way to the tombstone), each crash one.
GuessesBounded ==
  \A c \in Challenges :
    failures[c] <= MaxAttempts + 2 * (Cardinality(Sessions) - 1) + crashes

\* Not true.  What challenge_guard.py says: MAX_ATTEMPTS wrong codes tombstone the
\* challenge, at the latest when no request is in the middle of it.
AttemptsTombstone ==
  crashes = 0 /\ (\A s \in Sessions : ses[s].pc = "idle") =>
    \A c \in issued : failures[c] >= MaxAttempts => rows[c].status # "PENDING"

-----------------------------------------------------------------------------
(* The inductive invariant, in parts.                                      *)

\* A session about to commit holds the lock of a challenge that is PENDING.
CommitLocked ==
  \A s \in Sessions : ses[s].pc = "commit" =>
    LET c == ses[s].id
    IN c \in issued /\ lock[c] = s /\ rows[c].status = "PENDING"

\* A challenge that let an operation through is used up, for ever.
UsedUp ==
  \A c \in Challenges :
    /\ c \notin issued => authorised[c] = 0 /\ rows[c] = NoRow
    /\ authorised[c] <= 1
    /\ authorised[c] = 1 => rows[c].status \in {"CONSUMED", "EXPIRED"}

\* What a session works on exists.
SessionsKnow ==
  \A s \in Sessions :
    /\ ses[s].pc # "idle" => ses[s].id \in issued
    /\ ses[s].pc \in {"supersede", "deliver"} =>
         ses[s].new \in issued /\ rows[ses[s].new].prev = ses[s].id
    /\ ses[s].pc = "deliver" => rows[ses[s].id].status = "EXPIRED"

\* Reissued challenges replace challenges that exist.
PrevIssued == \A c \in issued : rows[c].prev \in issued \cup {None}

CInv == /\ TypeOK /\ CommitLocked /\ UsedUp /\ SessionsKnow
        /\ PrevIssued /\ SentSupersedes

\* How many wrong codes session s can still add to those counted for c: one it
\* has on its way; one more while the challenge lives and it has not counted
\* enough of them to go and expire it, which is all it then does.
Left(s, c) ==
  LET here(pcs) == ses[s].id = c /\ ses[s].pc \in pcs
  IN (IF here({"count", "log"}) THEN 1 ELSE 0)
     + (IF /\ Alive(c) /\ ~here({"count", "expire"})
           /\ here({"log"}) => ses[s].seen + 1 < MaxAttempts
          THEN 1 ELSE 0)

GuessesLeft(c) == SumFunction([s \in Sessions |-> Left(s, c)])

\* From the last attempt allowed on, guesses made and guesses left are bounded
\* together.
GInv ==
  /\ \A c \in Challenges \ issued : failures[c] = 0
  /\ \A s \in Sessions : ses[s].pc = "log" => ses[s].seen <= failures[ses[s].id]
  /\ \A c \in Challenges :
       \/ failures[c] + 1 < MaxAttempts
       \/ failures[c] + GuessesLeft(c) <= MaxAttempts + 2 * (Cardinality(Sessions) - 1) + crashes

-----------------------------------------------------------------------------
(* Refinement.                                                             *)

Life(c) == CASE c \notin issued -> "none"
             [] authorised[c] > 0 -> "used"
             [] authorised[c] = 0 /\ c \in issued /\ rows[c].status = "PENDING" -> "live"
             [] OTHER -> "dead"

lives == [c \in Challenges |-> Life(c)]

Token == INSTANCE OneTimeToken WITH Tokens <- Challenges, token <- lives,
                                    uses <- authorised

\* One challenge lets at most one operation through: it is counted once, in the
\* step that ends its life, and one that is used, verified elsewhere, superseded
\* or tombstoned never authorises (again), although the updates around the lock
\* overwrite whatever they find.
TokenSpec == Token!Spec
=============================================================================
