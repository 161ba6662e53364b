---------------------------- MODULE SignInProofs ----------------------------
(* Proofs about SignIn and the fraud desk it stands on, for every set of     *)
(* workers, browsers, staff and jobs: SInv, stated there, is an inductive    *)
(* invariant.  The desk's half of it (DeskInv) is about rules, evaluations   *)
(* and cases that several requests work on from stale instances, the         *)
(* sign-in's half about the user row, the sessions and the passwords.        *)
EXTENDS SignIn, TableTheorems

-----------------------------------------------------------------------------
(* Scores and decisions.                                                     *)

\* A score is a number from 0 to 100, whatever rules fired.
LEMMA ScoreIs ==
  ASSUME NEW rs \in Seq(RuleRows), NEW fired \in SUBSET DOMAIN rs
  PROVE  Score(rs, fired) \in 0 .. 100
<1>. DEFINE f == [r \in fired |-> rs[r].score]
<1>1. IsFiniteSet(fired)
  <2>1. DOMAIN rs = 1 .. Len(rs) /\ Len(rs) \in Nat
    BY LenProperties
  <2>2. IsFiniteSet(DOMAIN rs)
    BY <2>1, FS_Interval
  <2>. QED
    BY <2>2, FS_Subset
<1>2. \A r \in fired : f[r] \in Int
  <2>1. \A r \in fired : rs[r] \in RuleRows
    BY RowIn
  <2>. QED
    BY <2>1 DEF RuleRows
<1>3. DOMAIN f = fired
  OBVIOUS
<1>. HIDE DEF f
<1>4. SumFunctionOnSet(f, fired) \in Int
  BY <1>1, <1>2, SumInt
<1>5. SumFunction(f) \in Int
  BY <1>3, <1>4 DEF SumFunction
<1>6. Score(rs, fired) = Clamp(SumFunction(f))
  BY DEF Score, f
<1>7. ASSUME NEW n \in Int PROVE Clamp(n) \in 0 .. 100
  BY DEF Clamp
<1>. QED
  BY <1>5, <1>6, <1>7

LEMMA LevelIs == ASSUME NEW n \in 0 .. 100 PROVE RiskLevel(n) \in {"LOW", "MEDIUM", "HIGH", "CRITICAL"}
BY DEF RiskLevel

LEMMA DecideIs ==
  ASSUME NEW op \in Ops, NEW level \in {"LOW", "MEDIUM", "HIGH", "CRITICAL"}
  PROVE  Decide(op, level) \in Decisions
BY DEF Decide, Policy, Decisions

\* What a flow does with a decision is a decision; a sign-in or a password
\* change is never left to a reviewer.
LEMMA OutcomeIs ==
  ASSUME NEW op \in Ops, NEW m \in Modes, NEW d \in Decisions
  PROVE  /\ Outcome(op, m, d) \in Decisions
         /\ op \in {"LOGIN", "PASSWORD_CHANGE"} => Outcome(op, m, d) \in {"ALLOW", "CHALLENGE", "BLOCK"}
BY DEF Outcome, Enforce, EnforceAndProceed, SignInAction, EffectiveDecision, Decisions, Modes

\* More points are never treated more mildly.
LEMMA Escalates ==
  ASSUME NEW op \in {"TRANSFER", "LOGIN"}, NEW m \in Modes, NEW a \in 0 .. 100, NEW b \in 0 .. 100, a <= b
  PROVE  Strictness[Outcome(op, m, Decide(op, RiskLevel(a)))]
           <= Strictness[Outcome(op, m, Decide(op, RiskLevel(b)))]
<1>. DEFINE S(level) == Strictness[Outcome(op, m, Decide(op, level))]
<1>1. CASE op = "TRANSFER"
  <2>1. /\ S("LOW") \in 0 .. 3 /\ S("MEDIUM") \in 0 .. 3 /\ S("HIGH") \in 0 .. 3 /\ S("CRITICAL") \in 0 .. 3
        /\ S("LOW") <= S("MEDIUM") /\ S("MEDIUM") <= S("HIGH") /\ S("HIGH") <= S("CRITICAL")
    BY <1>1 DEF Outcome, Enforce, EffectiveDecision, Decide, Policy, Strictness, Modes
  <2>. HIDE DEF S
  <2>. QED
    BY <2>1 DEF RiskLevel, S
<1>2. CASE op = "LOGIN"
  <2>1. /\ S("LOW") \in 0 .. 3 /\ S("MEDIUM") \in 0 .. 3 /\ S("HIGH") \in 0 .. 3 /\ S("CRITICAL") \in 0 .. 3
        /\ S("LOW") <= S("MEDIUM") /\ S("MEDIUM") <= S("HIGH") /\ S("HIGH") <= S("CRITICAL")
    BY <1>2 DEF Outcome, SignInAction, EffectiveDecision, Decide, Policy, Strictness, Modes
  <2>. HIDE DEF S
  <2>. QED
    BY <2>1 DEF RiskLevel, S
<1>. QED
  BY <1>1, <1>2

-----------------------------------------------------------------------------
(* Frames: what no step undoes.                                              *)

\* Rules are never deleted, keep their makers, and once checked stay checked.
RulesGrow ==
  /\ rules \in Seq(RuleRows) /\ rules' \in Seq(RuleRows)
  /\ DOMAIN rules \subseteq DOMAIN rules'
  /\ \A r \in DOMAIN rules : /\ rules'[r].maker = rules[r].maker
                             /\ Checked(rules[r]) => Checked(rules'[r])

\* Evaluations are never deleted, keep their operation, and once over are not
\* touched again.
EvalsGrow ==
  /\ Len(evals) \in Nat /\ Len(evals') \in Nat /\ Len(evals) <= Len(evals')
  /\ DOMAIN evals \subseteq DOMAIN evals'
  /\ \A e \in DOMAIN evals : /\ evals'[e].op = evals[e].op
                             /\ evals[e].status # "EVALUATING" => evals'[e] = evals[e]

\* Numbers only grow.
PersonGrows ==
  /\ Len(changes) \in Nat /\ Len(changes') \in Nat /\ Len(changes) <= Len(changes')
  /\ codes.made \in Nat /\ codes'.made \in Nat /\ codes.made <= codes'.made
  /\ locks.made \in Nat /\ locks'.made \in Nat /\ locks.made <= locks'.made
  /\ clock \in Nat /\ clock' \in Nat /\ clock <= clock'
  /\ fails \in Nat /\ fails' \in Nat /\ fails <= fails'

\* A session may end, but keeps what it rests on.
WebKept(b) == /\ web'[b].eval = web[b].eval
              /\ web'[b].mfa = web[b].mfa /\ web'[b].coded = web[b].coded

Grow == RulesGrow /\ EvalsGrow /\ DOMAIN cases \subseteq DOMAIN cases' /\ PersonGrows

\* The tables of SInv, and its workers.
DeskRows ==
  /\ mode \in Modes
  /\ rules \in Seq(RuleRows) /\ evals \in Seq(EvalRows)
  /\ alerts \in Seq(AlertRows) /\ cases \in Seq(CaseRows)
  /\ \A e \in DOMAIN evals :
       evals[e].fired \subseteq evals[e].eligible /\ evals[e].eligible \subseteq DOMAIN rules
  /\ \A c \in DOMAIN cases : cases[c].log # <<>>
  /\ RulesInv /\ EvalsInv /\ TimelineMatches

PersonRows ==
  /\ UserOK(user)
  /\ codes \in [made : Nat, aged : Nat] /\ codes.aged <= codes.made
  /\ locks \in [made : Nat, over : Nat] /\ locks.over <= locks.made
  /\ clock \in 1 .. MaxClock /\ fails \in Nat /\ records \in [failed : Nat, changed : Nat]
  /\ web \in [Browsers -> WebRows] /\ \A b \in Browsers : web[b].eval <= Len(evals)
  /\ devices \in [Browsers -> {"absent", "untrusted", "trusted"}]
  /\ changes \in Seq([eval : Nat, coded : BOOLEAN])
  /\ FailuresCounted(user) /\ WebInv /\ SessionsEarned /\ ChangesInv /\ PasswordJustified

JobOK(j) == WellFormed(j, rules) /\ (j.op \in UserOps => j.by \in Browsers)

WorkerOK(v) == DeskWorker(v) /\ UserWorker(v)

\* Two workers neither evaluate one evaluation nor serve one browser.
Apart(v, w) ==
  /\ ~(v.pc = "evaluating" /\ w.pc = "evaluating" /\ v.eval = w.eval)
  /\ ~(/\ v.pc # "idle" /\ v.job.op \in UserOps /\ w.pc # "idle" /\ w.job.op \in UserOps
       /\ v.job.by = w.job.by)

Serving ==
  /\ \A j \in todo : JobOK(j)
  /\ DOMAIN worker = Workers /\ \A w \in Workers : WorkerOK(worker[w])
  /\ \A v, w \in Workers : v # w => Apart(worker[v], worker[w])

LEMMA SInvIs == SInv <=> DeskRows /\ PersonRows /\ Serving
<1>1. SInv => DeskRows /\ PersonRows
  BY DEF SInv, DeskInv, TypeOK, DeskTypeOK, DeskRows, PersonRows
<1>2. SInv => Serving
  BY DEF SInv, DeskInv, Serving, WorkerOK, JobOK, Apart, Browser
<1>3. DeskRows /\ PersonRows /\ Serving => SInv
  BY DEF SInv, DeskInv, TypeOK, DeskTypeOK, DeskRows, PersonRows, Serving, WorkerOK, JobOK, Apart,
     Browser, DeskWorker
<1>. QED
  BY <1>1, <1>2, <1>3

\* The same in the next state.
LEMMA SInvAfter == DeskRows' /\ PersonRows' /\ Serving' => SInv'
BY SInvIs, PTL

LEMMA JobKept == ASSUME NEW j, JobOK(j), RulesGrow PROVE JobOK(j)'
BY DEF JobOK, WellFormed, RulesGrow

LEMMA SettledKept == ASSUME NEW e, Settled(e), EvalsGrow PROVE Settled(e)' /\ evals'[e] = evals[e]
BY DEF Settled, EvalsGrow

LEMMA UpTo ==
  ASSUME NEW a \in Int, NEW b \in Int, NEW c \in Int, b <= c, NEW x \in a .. b
  PROVE  x \in a .. c
OBVIOUS

\* What was numbered stays in range while the counters grow.
LEMMA InRange ==
  ASSUME PersonGrows
  PROVE  /\ \A x \in 0 .. codes.made : x \in 0 .. codes'.made
         /\ \A x \in 0 .. locks.made : x \in 0 .. locks'.made
         /\ \A x \in 0 .. clock : x \in 0 .. clock'
         /\ 0 \in 0 .. locks'.made /\ 0 \in 0 .. clock' /\ clock \in 0 .. clock'
<1>1. \A x \in 0 .. codes.made : x \in 0 .. codes'.made
  <2>1. PICK m \in Int, n \in Int : m = codes.made /\ n = codes'.made /\ m <= n
    BY DEF PersonGrows
  <2>. QED
    BY <2>1
<1>2. (\A x \in 0 .. locks.made : x \in 0 .. locks'.made) /\ 0 \in 0 .. locks'.made
  <2>1. PICK m \in Nat, n \in Nat : m = locks.made /\ n = locks'.made /\ m <= n
    BY DEF PersonGrows
  <2>. QED
    BY <2>1
<1>3. /\ \A x \in 0 .. clock : x \in 0 .. clock'
      /\ 0 \in 0 .. clock' /\ clock \in 0 .. clock'
  <2>1. PICK m \in Nat, n \in Nat : m = clock /\ n = clock' /\ m <= n
    BY DEF PersonGrows
  <2>. QED
    BY <2>1
<1>. QED
  BY <1>1, <1>2, <1>3

LEMMA UserKept ==
  ASSUME NEW u, UserOK(u), FailuresCounted(u), PersonGrows
  PROVE  UserOK(u)' /\ FailuresCounted(u)'
<1>1. u \in UserRows
  BY DEF UserOK
<1>2. u.pass \in Nat /\ u.failed \in Nat /\ u.locked \in Nat /\ u.otp \in Nat /\ u.last \in Nat
  BY <1>1 DEF UserRows
<1>3. UserOK(u)'
  <2>1. PICK m \in Int, n \in Int : m = Len(changes) + 1 /\ n = Len(changes') + 1 /\ m <= n
    BY DEF PersonGrows
  <2>2. u.pass \in 1 .. Len(changes') + 1
    <3>1. u.pass \in 1 .. m
      BY <2>1 DEF UserOK
    <3>2. u.pass \in 1 .. n
      BY <2>1, <3>1, UpTo
    <3>. QED
      BY <2>1, <3>2
  <2>3. u.otp \in 0 .. codes'.made
    <3>1. u.otp \in 0 .. codes.made
      BY DEF UserOK
    <3>. QED
      BY <3>1, InRange
  <2>4. u.locked \in 0 .. locks'.made
    <3>1. u.locked \in 0 .. locks.made
      BY DEF UserOK
    <3>. QED
      BY <3>1, InRange
  <2>5. u.last \in 0 .. clock'
    <3>1. u.last \in 0 .. clock
      BY DEF UserOK
    <3>. QED
      BY <3>1, InRange
  <2>6. u.failed \in 0 .. MaxFailed
    BY DEF UserOK
  <2>. QED
    BY <1>1, <2>2, <2>3, <2>4, <2>5, <2>6 DEF UserOK
<1>4. FailuresCounted(u)'
  <2>1. MaxFailed \in Nat /\ fails \in Nat /\ fails' \in Nat /\ fails <= fails'
    BY SignInAssumption DEF PersonGrows
  <2>2. u.failed <= fails /\ (u.locked # 0 => fails >= MaxFailed)
    BY DEF FailuresCounted
  <2>3. u.failed <= fails' /\ (u.locked # 0 => fails' >= MaxFailed)
    BY <1>2, <2>1, <2>2
  <2>. QED
    BY <2>3 DEF FailuresCounted
<1>. QED
  BY <1>3, <1>4

\* What a session rests on stays accepted, and what it earned stays earned.
LEMMA SessionKept ==
  ASSUME NEW b, Accepted(web[b].eval), EvalsGrow, WebKept(b)
  PROVE  Accepted(web[b].eval)' /\ (Earned(web[b]) => Earned(web[b])')
<1>1. PICK e : e = web[b].eval
  OBVIOUS
<1>2. Settled(e) /\ Settled(e)' /\ evals'[e] = evals[e]
  BY <1>1, SettledKept DEF Accepted
<1>3. web'[b].eval = e /\ web'[b].mfa = web[b].mfa /\ web'[b].coded = web[b].coded
  BY <1>1 DEF WebKept
<1>. QED
  BY <1>1, <1>2, <1>3 DEF Accepted, Earned, Settled

\* A worker that does nothing keeps what it holds.
LEMMA WorkerKept ==
  ASSUME NEW v, WorkerOK(v), Grow,
         v.pc = "evaluating" => evals'[v.eval].status = "EVALUATING",
         v.pc # "idle" /\ v.job.op \in {"code", "password"} => WebKept(v.job.by)
  PROVE  WorkerOK(v)'
<1>1. DeskWorker(v)'
  <2>1. v.eval \in 0 .. Len(evals')
    BY DEF WorkerOK, DeskWorker, Grow, EvalsGrow
  <2>2. v.pc # "idle" => WellFormed(v.job, rules)'
    BY DEF WorkerOK, DeskWorker, WellFormed, Grow, RulesGrow
  <2>3. v.pc # "idle" /\ v.job.op \in RuleOps =>
          /\ v.seen \in RuleRows /\ v.job.on \in DOMAIN rules'
          /\ v.seen.maker = rules'[v.job.on].maker
          /\ v.seen.lifecycle = "APPROVED" => Checked(rules'[v.job.on])
    BY DEF WorkerOK, DeskWorker, Grow, RulesGrow
  <2>4. v.pc = "evaluating" => v.eval \in DOMAIN evals' /\ evals'[v.eval].status = "EVALUATING"
    BY DEF WorkerOK, DeskWorker, Grow, EvalsGrow
  <2>5. v.pc # "idle" /\ v.job.op = "alert" /\ v.seen = "missing" => v.job.on \in DOMAIN evals'
    BY DEF WorkerOK, DeskWorker, Grow, EvalsGrow
  <2>. QED
    BY <2>1, <2>2, <2>3, <2>4, <2>5 DEF WorkerOK, DeskWorker, Grow
<1>2. UserWorker(v)'
  <2>1. UserOK(v.seen) /\ FailuresCounted(v.seen) => UserOK(v.seen)' /\ FailuresCounted(v.seen)'
    BY UserKept DEF Grow
  <2>2. Settled(v.eval) => Settled(v.eval)' /\ evals'[v.eval] = evals[v.eval]
    BY SettledKept DEF Grow
  <2>3. v.pc # "idle" /\ v.job.op \in {"code", "password"} =>
          Accepted(web[v.job.by].eval)' /\ (v.job.op = "password" => Earned(web[v.job.by])')
    BY SessionKept DEF WorkerOK, UserWorker, Grow, UserOps, PageOps
  <2>. QED
    BY <2>1, <2>2, <2>3 DEF WorkerOK, UserWorker, Grow, EvalsGrow
<1>. QED
  BY <1>1, <1>2 DEF WorkerOK

\* One worker moves on to v, and the others can go on.
LEMMA OthersGoOn ==
  ASSUME Serving, Grow, NEW w \in Workers, NEW v, worker' = [worker EXCEPT ![w] = v],
         WorkerOK(v)', todo' \subseteq todo,
         \A x \in Workers \ {w} : Apart(v, worker[x]) /\ Apart(worker[x], v),
         \A x \in Workers \ {w} : worker[x].pc = "evaluating" => evals'[worker[x].eval].status = "EVALUATING",
         \A x \in Workers \ {w} : worker[x].pc # "idle" /\ worker[x].job.op \in {"code", "password"} =>
           WebKept(worker[x].job.by)
  PROVE  Serving'
<1>1. \A j \in todo' : JobOK(j)'
  BY JobKept DEF Serving, Grow
<1>2. DOMAIN worker' = Workers /\ \A x \in Workers : worker'[x] = IF x = w THEN v ELSE worker[x]
  BY DEF Serving
<1>3. \A x \in Workers : WorkerOK(worker[x]) 
  BY DEF Serving
<1>4. ASSUME NEW x \in Workers PROVE WorkerOK(worker[x])'
  <2>1. CASE x = w
    BY <1>2, <2>1
  <2>2. CASE x # w
    <3>1. worker'[x] = worker[x]
      BY <1>2, <2>2
    <3>. DEFINE y == worker[x]
    <3>2. /\ WorkerOK(y) /\ (y.pc = "evaluating" => evals'[y.eval].status = "EVALUATING")
          /\ (y.pc # "idle" /\ y.job.op \in {"code", "password"} => WebKept(y.job.by))
      BY <1>3, <2>2
    <3>. QED
      BY <3>1, <3>2, WorkerKept
  <2>. QED
    BY <2>1, <2>2
<1>5. \A x, y \in Workers : x # y => Apart(worker'[x], worker'[y])
  BY <1>2 DEF Serving
<1>. QED
  BY <1>1, <1>2, <1>4, <1>5 DEF Serving, Apart

LEMMA RulesSame == ASSUME DeskRows, UNCHANGED rules PROVE RulesGrow
BY DEF DeskRows, RulesGrow

LEMMA EvalsSame == ASSUME DeskRows, UNCHANGED evals PROVE EvalsGrow
<1>1. Len(evals) \in Nat
  BY LenProperties DEF DeskRows
<1>. QED
  BY <1>1 DEF EvalsGrow

LEMMA PersonSame ==
  ASSUME PersonRows, UNCHANGED <<changes, codes, locks, clock, fails>>
  PROVE  PersonGrows
<1>1. Len(changes) \in Nat /\ clock \in Nat
  BY LenProperties DEF PersonRows
<1>. QED
  BY <1>1 DEF PersonRows, PersonGrows

LEMMA AllSame ==
  ASSUME SInv, UNCHANGED <<rules, evals, cases, changes, codes, locks, clock, fails>>
  PROVE  Grow
BY SInvIs, RulesSame, EvalsSame, PersonSame DEF Grow

\* Rows that do not change stay sound.
LEMMA DeskRowsSame == ASSUME DeskRows, UNCHANGED <<desk, evals>> PROVE DeskRows'
BY DEF DeskRows, desk, RulesInv, EvalsInv, TimelineMatches

LEMMA PersonRowsSame == ASSUME PersonRows, EvalsGrow, UNCHANGED signVars PROVE PersonRows'
<1>1. UNCHANGED <<user, codes, locks, clock, fails, records, web, devices, changes, notes, muted>>
  BY DEF signVars, person
<1>2. \A e : Settled(e) => Settled(e)' /\ evals'[e] = evals[e]
  BY SettledKept
<1>3. UserOK(user)' /\ FailuresCounted(user)'
  BY <1>1 DEF PersonRows, UserOK, FailuresCounted
<1>4. WebInv'
  BY <1>1, <1>2 DEF PersonRows, WebInv, Accepted
<1>5. SessionsEarned'
  BY <1>1, <1>2 DEF PersonRows, WebInv, SessionsEarned, Earned, Accepted, WebRows
<1>6. ChangesInv' /\ PasswordJustified'
  BY <1>1, <1>2 DEF PersonRows, ChangesInv, PasswordJustified
<1>7. \A b \in Browsers : web'[b].eval <= Len(evals')
  <2>1. \A b \in Browsers : web[b].eval \in Nat /\ web[b].eval <= Len(evals)
    BY DEF PersonRows, WebRows
  <2>. QED
    BY <1>1, <2>1 DEF EvalsGrow
<1>. QED
  BY <1>1, <1>3, <1>4, <1>5, <1>6, <1>7 DEF PersonRows

LEMMA IdleApart == ASSUME NEW v PROVE Apart(Idle, v) /\ Apart(v, Idle)
BY DEF Apart, Idle

LEMMA IdleWorker == ASSUME EvalsGrow PROVE WorkerOK(Idle)'
BY DEF WorkerOK, DeskWorker, UserWorker, Idle, EvalsGrow

\* A request is over, with what it wrote.
LEMMA EndStep ==
  ASSUME SInv, NEW w \in Workers, End(w), Grow, DeskRows', PersonRows',
         \A x \in Workers \ {w} : worker[x].pc = "evaluating" => evals'[worker[x].eval].status = "EVALUATING",
         \A x \in Workers \ {w} : worker[x].pc # "idle" /\ worker[x].job.op \in {"code", "password"} =>
           WebKept(worker[x].job.by)
  PROVE  SInv'
<1>1. Serving
  BY SInvIs
<1>2. worker' = [worker EXCEPT ![w] = Idle] /\ todo' \subseteq todo
  BY DEF End
<1>3. WorkerOK(Idle)'
  BY IdleWorker DEF Grow
<1>4. Serving'
  BY <1>1, <1>2, <1>3, IdleApart, OthersGoOn
<1>. QED
  BY <1>4, SInvAfter

\* What the others hold, when no evaluation and no session changes.
LEMMA OthersSame ==
  ASSUME SInv, UNCHANGED <<evals, web>>, NEW x \in Workers
  PROVE  /\ worker[x].pc = "evaluating" => evals'[worker[x].eval].status = "EVALUATING"
         /\ worker[x].pc # "idle" /\ worker[x].job.op \in {"code", "password"} => WebKept(worker[x].job.by)
<1>1. WorkerOK(worker[x])
  BY SInvIs DEF Serving
<1>. QED
  BY <1>1 DEF WorkerOK, DeskWorker, WebKept

LEMMA QuietEnd ==
  ASSUME SInv, NEW w \in Workers, End(w), Grow, DeskRows', PersonRows', UNCHANGED <<evals, web>>
  PROVE  SInv'
BY OthersSame, EndStep

\* A request of the desk is over.
LEMMA DeskEnd ==
  ASSUME SInv, NEW w \in Workers, End(w), RulesGrow, DOMAIN cases \subseteq DOMAIN cases', DeskRows',
         UNCHANGED <<evals, signVars>>
  PROVE  SInv'
<1>1. UNCHANGED <<changes, codes, locks, clock, fails, records, web>>
  BY DEF signVars, person
<1>2. EvalsGrow /\ PersonGrows
  BY <1>1, SInvIs, EvalsSame, PersonSame
<1>3. PersonRows'
  BY <1>2, SInvIs, PersonRowsSame
<1>. QED
  BY <1>1, <1>2, <1>3, QuietEnd DEF Grow

LEMMA RefuseStep == ASSUME SInv, NEW w \in Workers, Refuse(w), UNCHANGED signVars PROVE SInv'
<1>1. End(w) /\ UNCHANGED <<desk, evals>> /\ UNCHANGED <<rules, cases>>
  BY DEF Refuse, desk
<1>2. DeskRows' /\ RulesGrow
  BY <1>1, SInvIs, DeskRowsSame, RulesSame
<1>. QED
  BY <1>1, <1>2, DeskEnd

\* A request moves on within its work, and nothing is written.
LEMMA MoveOn ==
  ASSUME SInv, NEW w \in Workers, NEW v, worker' = [worker EXCEPT ![w] = v], WorkerOK(v),
         todo' \subseteq todo, UNCHANGED <<desk, evals, signVars>>,
         \A x \in Workers \ {w} : Apart(v, worker[x]) /\ Apart(worker[x], v)
  PROVE  SInv'
<1>1. UNCHANGED <<rules, evals, cases, changes, codes, locks, clock, fails, records, web>>
  BY DEF desk, signVars, person
<1>2. Grow
  BY <1>1, AllSame
<1>3. DeskRows' /\ PersonRows'
  BY <1>2, SInvIs, DeskRowsSame, PersonRowsSame DEF Grow
<1>4. v.pc = "evaluating" => evals'[v.eval].status = "EVALUATING"
  BY <1>1 DEF WorkerOK, DeskWorker
<1>5. v.pc # "idle" /\ v.job.op \in {"code", "password"} => WebKept(v.job.by)
  BY <1>1 DEF WebKept
<1>6. WorkerOK(v)'
  BY <1>2, <1>4, <1>5, WorkerKept
<1>7. Serving'
  BY <1>1, <1>2, <1>6, SInvIs, OthersSame, OthersGoOn
<1>. QED
  BY <1>3, <1>7, SInvAfter

-----------------------------------------------------------------------------
(* Requests begin.                                                           *)

LEMMA BeginStep ==
  ASSUME SInv, NEW w \in Workers, NEW j \in todo, NEW seen, todo' = todo \ {j},
         worker' = [worker EXCEPT ![w] = [pc |-> "begun", job |-> j, seen |-> seen, eval |-> 0]],
         UNCHANGED <<desk, evals, signVars>>,
         j.op \in RuleOps => j.on \in DOMAIN rules /\ seen = rules[j.on],
         j.op = "version" => seen \in RuleRows,
         j.op \in {"claim", "move"} /\ seen # None => j.on \in DOMAIN cases /\ seen = cases[j.on],
         j.op = "alert" /\ seen = "missing" => j.on \in DOMAIN evals,
         j.op \in UserOps =>
           /\ seen = user /\ (j.op \in {"code", "password"} => Accepted(web[j.by].eval))
           /\ j.op = "password" => Earned(web[j.by])
           /\ \A x \in Workers \ {w} : worker[x].pc # "idle" => worker[x].job.by # j.by
  PROVE  SInv'
<1>. DEFINE v == [pc |-> "begun", job |-> j, seen |-> seen, eval |-> 0]
<1>1. v.pc = "begun" /\ v.job = j /\ v.seen = seen /\ v.eval = 0 /\ DOMAIN v = DOMAIN Idle
  BY DEF Idle
<1>2. JobOK(j) /\ DeskRows /\ PersonRows
  BY SInvIs DEF Serving
<1>. HIDE DEF v
<1>3. DeskWorker(v)
  <2>1. Len(evals) \in Nat
    BY <1>2, LenProperties DEF DeskRows
  <2>2. j.op \in RuleOps =>
          seen \in RuleRows /\ (seen.lifecycle = "APPROVED" => Checked(rules[j.on]))
    BY <1>2, RowIn DEF DeskRows, RulesInv, OnItsWay
  <2>3. j.op \in {"claim", "move"} /\ seen # None => seen \in CaseRows
    BY <1>2, RowIn DEF DeskRows
  <2>. QED
    BY <1>1, <1>2, <2>1, <2>2, <2>3 DEF DeskWorker, JobOK
<1>4. UserWorker(v)
  BY <1>1, <1>2 DEF UserWorker, JobOK, PersonRows
<1>5. \A x \in Workers \ {w} : Apart(v, worker[x]) /\ Apart(worker[x], v)
  BY <1>1 DEF Apart
<1>. QED
  BY <1>3, <1>4, <1>5, MoveOn DEF WorkerOK, v

\* A rule has a newest version.
LEMMA NewestIs ==
  ASSUME DeskRows, NEW o \in DOMAIN rules
  PROVE  LET same == {r \in DOMAIN rules : rules[r].name = rules[o].name}
         IN rules[CHOOSE r \in same : \A q \in same : rules[q].version <= rules[r].version] \in RuleRows
<1>. DEFINE same == {r \in DOMAIN rules : rules[r].name = rules[o].name}
            f == [r \in same |-> rules[r].version]
<1>1. DOMAIN rules = 1 .. Len(rules) /\ Len(rules) \in Nat
  BY LenProperties DEF DeskRows
<1>2. IsFiniteSet(same)
  <2>1. IsFiniteSet(DOMAIN rules)
    BY <1>1, FS_Interval
  <2>2. same \subseteq DOMAIN rules
    OBVIOUS
  <2>. QED
    BY <2>1, <2>2, FS_Subset
<1>3. same # {} /\ same \subseteq DOMAIN rules
  OBVIOUS
<1>4. \A r \in same : f[r] \in Int
  <2>1. \A r \in DOMAIN rules : rules[r] \in RuleRows
    BY RowIn DEF DeskRows
  <2>2. \A q \in RuleRows : q.version \in Nat
    BY DEF RuleRows
  <2>3. \A r \in same : r \in DOMAIN rules /\ f[r] = rules[r].version
    OBVIOUS
  <2>. HIDE DEF same, f
  <2>. QED
    BY <2>1, <2>2, <2>3
<1>5. \A r \in same : f[r] = rules[r].version
  OBVIOUS
<1>. HIDE DEF same, f
<1>6. \E r \in same : \A q \in same : f[q] <= f[r]
  BY <1>2, <1>3, <1>4, Largest
<1>7. \E r \in same : \A q \in same : rules[q].version <= rules[r].version
  BY <1>5, <1>6
<1>8. (CHOOSE r \in same : \A q \in same : rules[q].version <= rules[r].version) \in same
  BY <1>7
<1>9. rules[CHOOSE r \in same : \A q \in same : rules[q].version <= rules[r].version] \in RuleRows
  BY <1>3, <1>8, RowIn DEF DeskRows
<1>. QED
  BY <1>9 DEF same

LEMMA DeskBegins ==
  ASSUME SInv, NEW w \in Workers, UNCHANGED signVars,
         \/ BeginFlow(w) \/ BeginDesk(w) \/ BeginRule(w) \/ BeginVersion(w) \/ BeginAlert(w)
         \/ BeginAlertView(w) \/ BeginCase(w)
  PROVE  SInv'
<1>. DEFINE Taken(j, seen) ==
       /\ todo' = todo \ {j} /\ UNCHANGED <<desk, evals>>
       /\ worker' = [worker EXCEPT ![w] = [pc |-> "begun", job |-> j, seen |-> seen, eval |-> 0]]
<1>1. CASE BeginFlow(w)
  <2>1. PICK j \in todo : j.op \in FlowOps /\ Taken(j, None)
    BY <1>1 DEF BeginFlow, Begin
  <2>. QED
    BY <2>1, BeginStep DEF FlowOps, UserOps, PageOps, RuleOps
<1>2. CASE BeginDesk(w)
  <2>1. PICK j \in todo : j.op \in {"mode", "draft"} /\ Taken(j, None)
    BY <1>2 DEF BeginDesk, Begin
  <2>. QED
    BY <2>1, BeginStep DEF UserOps, PageOps, RuleOps
<1>3. CASE BeginRule(w)
  <2>1. PICK j \in todo : j.op \in RuleOps /\ Taken(j, LoadRule(j))
    BY <1>3 DEF BeginRule, Begin
  <2>2. worker'[w].seen # None
    BY <1>3 DEF BeginRule
  <2>3. LoadRule(j) # None
    BY <2>1, <2>2, SInvIs DEF Serving
  <2>4. j.on \in DOMAIN rules /\ LoadRule(j) = rules[j.on]
    BY <2>3 DEF LoadRule
  <2>. QED
    BY <2>1, <2>4, BeginStep DEF UserOps, PageOps, RuleOps
<1>4. CASE BeginVersion(w)
  <2>. DEFINE seen(j) == LET same == {r \in DOMAIN rules : rules[r].name = rules[j.on].name}
                         IN rules[CHOOSE r \in same : \A q \in same : rules[q].version <= rules[r].version]
  <2>1. PICK j \in todo : j.op = "version" /\ Taken(j, seen(j))
    BY <1>4 DEF BeginVersion, Begin
  <2>2. j.on \in DOMAIN rules
    BY <2>1, SInvIs DEF Serving, JobOK, WellFormed
  <2>3. seen(j) \in RuleRows
    BY <2>2, NewestIs, SInvIs
  <2>. HIDE DEF seen
  <2>. QED
    BY <2>1, <2>3, BeginStep DEF UserOps, PageOps, RuleOps
<1>5. CASE BeginAlert(w)
  <2>1. PICK j \in todo : j.op = "alert" /\ Taken(j, FindAlert(j))
    BY <1>5 DEF BeginAlert, Begin
  <2>2. FindAlert(j) = "missing" => j.on \in DOMAIN evals
    BY DEF FindAlert, Missing
  <2>. QED
    BY <2>1, <2>2, BeginStep DEF UserOps, PageOps, RuleOps
<1>6. CASE BeginAlertView(w)
  <2>1. PICK j \in todo : j.op \in {"acknowledge", "open"} /\ Taken(j, AlertStatus(j))
    BY <1>6 DEF BeginAlertView, Begin
  <2>. QED
    BY <2>1, BeginStep DEF UserOps, PageOps, RuleOps
<1>7. CASE BeginCase(w)
  <2>1. PICK j \in todo : j.op \in {"claim", "move"} /\ Taken(j, LoadCase(j))
    BY <1>7 DEF BeginCase, Begin
  <2>2. LoadCase(j) # None => j.on \in DOMAIN cases /\ LoadCase(j) = cases[j.on]
    BY DEF LoadCase
  <2>. QED
    BY <2>1, <2>2, BeginStep DEF UserOps, PageOps, RuleOps
<1>. QED
  BY <1>1, <1>2, <1>3, <1>4, <1>5, <1>6, <1>7

-----------------------------------------------------------------------------
(* Rules.                                                                    *)

\* The desk's rules change, and nothing else does.
LEMMA RulesStep ==
  ASSUME SInv, NEW w \in Workers, End(w), RulesGrow, RulesInv', UNCHANGED <<mode, evals, alerts, cases>>,
         UNCHANGED signVars
  PROVE  SInv'
<1>1. DeskRows
  BY SInvIs
<1>2. DeskRows'
  BY <1>1 DEF DeskRows, RulesGrow, EvalsInv, TimelineMatches
<1>. QED
  BY <1>2, DeskEnd

LEMMA RulesLeft == ASSUME SInv, UNCHANGED rules PROVE RulesGrow /\ RulesInv'
<1>1. DeskRows
  BY SInvIs
<1>. QED
  BY <1>1, RulesSame DEF DeskRows, RulesInv

\* A rule is born neither approved nor enabled.
LEMMA RuleRowIs ==
  ASSUME NEW name \in STRING, NEW version \in Nat, NEW fact \in Registry \cup {""}, NEW score \in Int,
         NEW maker \in Names, NEW author \in Names
  PROVE  RuleRow(name, version, fact, score, maker, author) \in RuleRows
         /\ ~OnItsWay(RuleRow(name, version, fact, score, maker, author))
<1>. DEFINE no == FALSE
            row == [name |-> name, version |-> version, fact |-> fact, score |-> score, ops |-> {},
                    lifecycle |-> "DRAFT", enabled |-> no, maker |-> maker, approver |-> None,
                    author |-> author]
<1>1. no \in BOOLEAN /\ ~no
  OBVIOUS
<1>2. RuleRow(name, version, fact, score, maker, author) = row
  BY DEF RuleRow
<1>. HIDE DEF no
<1>3. no \in BOOLEAN
  BY <1>1
<1>4. None \in Names
  BY DEF Names
<1>5. row \in RuleRows
  BY <1>3, <1>4 DEF RuleRows
<1>6. row.enabled = no /\ row.lifecycle = "DRAFT"
  OBVIOUS
<1>. HIDE DEF row
<1>7. ~OnItsWay(row)
  BY <1>1, <1>6 DEF OnItsWay
<1>. QED
  BY <1>2, <1>5, <1>7

LEMMA InsertStep ==
  ASSUME SInv, NEW row \in RuleRows, ~OnItsWay(row), Insert(row)
  PROVE  RulesGrow /\ RulesInv'
<1>1. DeskRows
  BY SInvIs
<1>2. CASE rules' = rules
  BY <1>2, RulesLeft
<1>3. CASE rules' = Append(rules, row)
  <2>1. /\ rules' \in Seq(RuleRows) /\ DOMAIN rules' = DOMAIN rules \cup {Len(rules) + 1}
        /\ \A r \in DOMAIN rules : rules'[r] = rules[r]
        /\ rules'[Len(rules) + 1] = row
    BY <1>1, <1>3, RowAdded DEF DeskRows
  <2>2. RulesGrow
    BY <1>1, <2>1 DEF DeskRows, RulesGrow
  <2>3. RulesInv'
    BY <1>1, <2>1 DEF DeskRows, RulesInv
  <2>. QED
    BY <2>2, <2>3
<1>. QED
  BY <1>2, <1>3 DEF Insert

\* One row of the rules is written.
LEMMA RuleWritten ==
  ASSUME SInv, NEW w \in Workers, NEW on \in DOMAIN rules, NEW row \in RuleRows,
         rules' = [rules EXCEPT ![on] = row],
         row.maker = rules[on].maker, OnItsWay(row) => Checked(row),
         Checked(rules[on]) => Checked(row),
         End(w), UNCHANGED <<mode, evals, alerts, cases>>, UNCHANGED signVars
  PROVE  SInv'
<1>1. DeskRows
  BY SInvIs
<1>2. /\ rules' \in Seq(RuleRows) /\ DOMAIN rules' = DOMAIN rules
      /\ \A r \in DOMAIN rules : rules'[r] = IF r = on THEN row ELSE rules[r]
  BY <1>1, RowChanged DEF DeskRows
<1>3. RulesGrow
  BY <1>1, <1>2 DEF DeskRows, RulesGrow
<1>4. RulesInv'
  BY <1>1, <1>2 DEF DeskRows, RulesInv
<1>. QED
  BY <1>3, <1>4, RulesStep

\* What a request at the desk holds.
LEMMA RuleHeld ==
  ASSUME SInv, NEW w \in Workers, worker[w].pc = "begun"
  PROVE  /\ worker[w].job \in Job /\ JobOK(worker[w].job)
         /\ worker[w].job.op \in RuleOps =>
              /\ worker[w].seen \in RuleRows /\ worker[w].job.on \in DOMAIN rules
              /\ worker[w].seen.maker = rules[worker[w].job.on].maker
              /\ worker[w].seen.lifecycle = "APPROVED" => Checked(rules[worker[w].job.on])
         /\ worker[w].job.op = "version" => worker[w].seen \in RuleRows
         /\ worker[w].job.op = "alert" /\ worker[w].seen = "missing" =>
              worker[w].job.on \in DOMAIN evals
         /\ worker[w].job.op \in {"claim", "move"} /\ worker[w].seen # None =>
              worker[w].seen \in CaseRows /\ worker[w].job.on \in DOMAIN cases
<1>1. DeskWorker(worker[w]) /\ UserWorker(worker[w])
  BY SInvIs DEF Serving, WorkerOK
<1>. QED
  BY <1>1 DEF DeskWorker, UserWorker, WellFormed, JobOK

LEMMA SetModeStep == ASSUME SInv, NEW w \in Workers, SetMode(w), UNCHANGED signVars PROVE SInv'
<1>1. worker[w].job.op = "mode" /\ worker[w].pc = "begun"
  BY DEF SetMode, At
<1>2. WellFormed(worker[w].job, rules)
  BY <1>1, RuleHeld DEF JobOK
<1>3. worker[w].job.val \in Modes
  BY <1>1, <1>2 DEF WellFormed
<1>4. DeskRows
  BY SInvIs
<1>5. mode' \in Modes /\ UNCHANGED <<rules, evals, alerts, cases>> /\ End(w)
  BY <1>3, <1>4 DEF SetMode, DeskRows
<1>6. DeskRows'
  BY <1>4, <1>5 DEF DeskRows, RulesInv, EvalsInv, TimelineMatches
<1>. QED
  BY <1>4, <1>5, <1>6, RulesSame, DeskEnd

LEMMA CreateDraftStep == ASSUME SInv, NEW w \in Workers, CreateDraft(w), UNCHANGED signVars PROVE SInv'
<1>. DEFINE j == worker[w].job
            row == RuleRow(j.val, 1, "", j.on, j.by, j.by)
<1>1. End(w) /\ UNCHANGED <<mode, evals, alerts, cases>> /\ (Insert(row) \/ rules' = rules)
  BY DEF CreateDraft
<1>2. j \in Job
  BY RuleHeld DEF CreateDraft, At
<1>3. j.val \in STRING /\ j.on \in Nat /\ j.by \in STRING
  BY <1>2 DEF Job
<1>4. j.by \in Names /\ "" \in Registry \cup {""} /\ 1 \in Nat /\ j.on \in Int
  BY <1>3 DEF Names
<1>. HIDE DEF j
<1>5. row \in RuleRows /\ ~OnItsWay(row)
  BY <1>3, <1>4, RuleRowIs
<1>. HIDE DEF row
<1>6. RulesGrow /\ RulesInv'
  BY <1>1, <1>5, InsertStep, RulesLeft
<1>. QED
  BY <1>1, <1>6, RulesStep

LEMMA NewRuleVersionStep == ASSUME SInv, NEW w \in Workers, NewRuleVersion(w), UNCHANGED signVars PROVE SInv'
<1>. DEFINE last == worker[w].seen
            row == RuleRow(last.name, last.version + 1, last.fact, last.score, None, worker[w].job.by)
            by == worker[w].job.by
<1>1. End(w) /\ UNCHANGED <<mode, evals, alerts, cases>> /\ Insert(row)
  BY DEF NewRuleVersion
<1>2. last \in RuleRows /\ worker[w].job \in Job
  BY RuleHeld DEF NewRuleVersion, At
<1>. HIDE DEF last
<1>3. last.name \in STRING /\ last.version \in Nat
  BY <1>2 DEF RuleRows
<1>4. last.fact \in Registry \cup {""} /\ last.score \in Int
  BY <1>2 DEF RuleRows
<1>5. last.version + 1 \in Nat /\ None \in Names /\ by \in Names
  BY <1>2, <1>3 DEF Names, Job
<1>6. row \in RuleRows /\ ~OnItsWay(row)
  BY <1>3, <1>4, <1>5, RuleRowIs
<1>. HIDE DEF row
<1>7. RulesGrow /\ RulesInv'
  BY <1>1, <1>6, InsertStep
<1>. QED
  BY <1>1, <1>7, RulesStep

LEMMA ApproveStep == ASSUME SInv, NEW w \in Workers, ApproveRule(w), UNCHANGED signVars PROVE SInv'
<1>. DEFINE j == worker[w].job
            row == [rules[j.on] EXCEPT !.lifecycle = "APPROVED", !.approver = j.by]
<1>1. CASE ~MayApprove(j, worker[w].seen)
  <2>1. Refuse(w)
    BY <1>1 DEF ApproveRule
  <2>. QED
    BY <2>1, RefuseStep
<1>2. CASE MayApprove(j, worker[w].seen)
  <2>1. End(w) /\ UNCHANGED <<mode, evals, alerts, cases>> /\ rules' = [rules EXCEPT ![j.on] = row]
    BY <1>2 DEF ApproveRule, WriteRule
  <2>2. /\ j.on \in DOMAIN rules /\ worker[w].seen.maker = rules[j.on].maker /\ j \in Job
    BY RuleHeld DEF ApproveRule, At, RuleOps
  <2>3. j.by \in STRING /\ j.by # None /\ j.by # rules[j.on].maker
    BY <1>2, <2>2, DeskAssumption DEF MayApprove, May, Job
  <2>4. rules[j.on] \in RuleRows
    BY <2>2, RowIn, SInvIs DEF DeskRows
  <2>5. j.by \in Names
    BY <2>3 DEF Names
  <2>. HIDE DEF j
  <2>6. row \in RuleRows
    BY <2>4, <2>5 DEF RuleRows
  <2>7. row.maker = rules[j.on].maker /\ row.approver = j.by
    BY <2>4 DEF RuleRows
  <2>. HIDE DEF row
  <2>8. Checked(row)
    BY <2>3, <2>7 DEF Checked
  <2>. QED
    BY <2>1, <2>2, <2>6, <2>7, <2>8, RuleWritten
<1>. QED
  BY <1>1, <1>2

LEMMA ActivateStep == ASSUME SInv, NEW w \in Workers, ActivateRule(w), UNCHANGED signVars PROVE SInv'
<1>. DEFINE j == worker[w].job
            ok == May(j.by, "manage_policies") /\ worker[w].seen.lifecycle = "APPROVED"
            yes == TRUE
            row == [rules[j.on] EXCEPT !.lifecycle = "ACTIVE", !.enabled = yes]
<1>1. CASE ~ok
  <2>1. Refuse(w)
    BY <1>1 DEF ActivateRule
  <2>. QED
    BY <2>1, RefuseStep
<1>2. CASE ok
  <2>1. End(w) /\ UNCHANGED <<mode, evals, alerts, cases>> /\ rules' = [rules EXCEPT ![j.on] = row]
    BY <1>2 DEF ActivateRule, WriteRule
  <2>2. j.on \in DOMAIN rules /\ Checked(rules[j.on])
    BY <1>2, RuleHeld DEF ActivateRule, At, RuleOps
  <2>3. rules[j.on] \in RuleRows
    BY <2>2, RowIn, SInvIs DEF DeskRows
  <2>4. yes \in BOOLEAN
    OBVIOUS
  <2>. HIDE DEF yes, j
  <2>5. row \in RuleRows
    BY <2>3, <2>4 DEF RuleRows
  <2>6. row.maker = rules[j.on].maker /\ row.approver = rules[j.on].approver
    BY <2>3 DEF RuleRows
  <2>. HIDE DEF row
  <2>7. Checked(row)
    BY <2>2, <2>6 DEF Checked
  <2>. QED
    BY <2>1, <2>2, <2>5, <2>6, <2>7, RuleWritten
<1>. QED
  BY <1>1, <1>2

LEMMA DisableStep == ASSUME SInv, NEW w \in Workers, DisableRule(w), UNCHANGED signVars PROVE SInv'
<1>. DEFINE j == worker[w].job
            no == FALSE
            row == [rules[j.on] EXCEPT !.lifecycle = "RETIRED", !.enabled = no]
<1>1. CASE ~May(j.by, "manage_policies")
  <2>1. Refuse(w)
    BY <1>1 DEF DisableRule
  <2>. QED
    BY <2>1, RefuseStep
<1>2. CASE May(j.by, "manage_policies")
  <2>1. End(w) /\ UNCHANGED <<mode, evals, alerts, cases>> /\ rules' = [rules EXCEPT ![j.on] = row]
    BY <1>2 DEF DisableRule, WriteRule
  <2>2. j.on \in DOMAIN rules
    BY RuleHeld DEF DisableRule, At, RuleOps
  <2>3. rules[j.on] \in RuleRows
    BY <2>2, RowIn, SInvIs DEF DeskRows
  <2>4. no \in BOOLEAN /\ ~no
    OBVIOUS
  <2>. HIDE DEF no, j
  <2>5. no \in BOOLEAN
    BY <2>4
  <2>6. row \in RuleRows
    BY <2>3, <2>5 DEF RuleRows
  <2>7. row.maker = rules[j.on].maker /\ row.approver = rules[j.on].approver
    BY <2>3 DEF RuleRows
  <2>8. row.lifecycle = "RETIRED" /\ row.enabled = no
    BY <2>3 DEF RuleRows
  <2>. HIDE DEF row
  <2>9. ~OnItsWay(row) /\ (Checked(rules[j.on]) => Checked(row))
    BY <2>4, <2>7, <2>8 DEF Checked, OnItsWay
  <2>. QED
    BY <2>1, <2>2, <2>6, <2>7, <2>9, RuleWritten
<1>. QED
  BY <1>1, <1>2

-----------------------------------------------------------------------------
(* Alerts and cases.                                                         *)

LEMMA AlertsStep ==
  ASSUME SInv, NEW w \in Workers, End(w), UNCHANGED <<mode, rules, evals, cases>>, UNCHANGED signVars,
         alerts' \in Seq(AlertRows)
  PROVE  SInv'
<1>1. DeskRows
  BY SInvIs
<1>2. DeskRows'
  BY <1>1 DEF DeskRows, RulesInv, EvalsInv, TimelineMatches
<1>. QED
  BY <1>1, <1>2, RulesSame, DeskEnd

\* The key of an alert is an operation and the names of rules.
LEMMA AlertKeyIs == ASSUME DeskRows, NEW e \in DOMAIN evals PROVE AlertKey(e) \in Ops \X SUBSET STRING
<1>1. evals[e] \in EvalRows /\ \A r \in evals[e].fired : rules[r] \in RuleRows
  BY RowIn DEF DeskRows
<1>2. evals[e].op \in Ops
  BY <1>1 DEF EvalRows
<1>3. \A q \in RuleRows : q.name \in STRING
  BY DEF RuleRows
<1>4. {rules[r].name : r \in evals[e].fired} \in SUBSET STRING
  BY <1>1, <1>3
<1>. QED
  BY <1>2, <1>4 DEF AlertKey

LEMMA AlertMarked ==
  ASSUME SInv, NEW on, NEW s \in {"OPEN", "ACKNOWLEDGED", "ESCALATED"}
  PROVE  [alerts EXCEPT ![on].status = s] \in Seq(AlertRows)
<1>1. alerts \in Seq(AlertRows)
  BY SInvIs DEF DeskRows
<1>2. CASE on \in DOMAIN alerts
  <2>. DEFINE q == alerts[on]
              row == [q EXCEPT !.status = s]
  <2>1. q \in AlertRows
    BY <1>1, <1>2, RowIn
  <2>2. [alerts EXCEPT ![on].status = s] = [alerts EXCEPT ![on] = row]
    OBVIOUS
  <2>. HIDE DEF q
  <2>3. row \in AlertRows
    BY <2>1 DEF AlertRows
  <2>. HIDE DEF row
  <2>. QED
    BY <1>1, <1>2, <2>2, <2>3, RowChanged
<1>3. CASE on \notin DOMAIN alerts
  <2>1. alerts = [a \in DOMAIN alerts |-> alerts[a]]
    BY <1>1
  <2>2. [alerts EXCEPT ![on].status = s] = alerts
    BY <1>3, <2>1
  <2>. QED
    BY <1>1, <2>2
<1>. QED
  BY <1>2, <1>3

LEMMA RaiseStep == ASSUME SInv, NEW w \in Workers, RaiseAlert(w), UNCHANGED signVars PROVE SInv'
<1>. DEFINE on == worker[w].job.on
            row == [key |-> AlertKey(on), status |-> "OPEN"]
<1>1. End(w) /\ UNCHANGED <<mode, rules, evals, cases>>
      /\ ((worker[w].seen = "missing" /\ alerts' = Append(alerts, row)) \/ alerts' = alerts)
  BY DEF RaiseAlert
<1>2. alerts \in Seq(AlertRows) /\ DeskRows
  BY SInvIs DEF DeskRows
<1>3. ASSUME worker[w].seen = "missing" PROVE row \in AlertRows
  <2>1. on \in DOMAIN evals
    BY <1>3, RuleHeld DEF RaiseAlert, At
  <2>2. AlertKey(on) \in Ops \X SUBSET STRING
    BY <1>2, <2>1, AlertKeyIs
  <2>. QED
    BY <2>2 DEF AlertRows
<1>. HIDE DEF row
<1>4. alerts' \in Seq(AlertRows)
  BY <1>1, <1>2, <1>3, RowAdded
<1>. QED
  BY <1>1, <1>4, AlertsStep

LEMMA AcknowledgeStep == ASSUME SInv, NEW w \in Workers, AcknowledgeAlert(w), UNCHANGED signVars PROVE SInv'
<1>1. End(w) /\ UNCHANGED <<mode, rules, evals, cases>>
      /\ (alerts' = [alerts EXCEPT ![worker[w].job.on].status = "ACKNOWLEDGED"] \/ alerts' = alerts)
  BY DEF AcknowledgeAlert
<1>2. alerts' \in Seq(AlertRows)
  BY <1>1, AlertMarked, SInvIs DEF DeskRows
<1>. QED
  BY <1>1, <1>2, AlertsStep

\* A row of the cases, its timeline up to date.
CaseOK(row) == row \in CaseRows /\ row.log # <<>> /\ row.status = row.log[Len(row.log)]

LEMMA Logged ==
  ASSUME NEW log \in Seq(CaseStatus), NEW s \in CaseStatus
  PROVE  /\ Append(log, s) \in Seq(CaseStatus) /\ Append(log, s)[Len(Append(log, s))] = s
         /\ Append(log, s) # <<>>
<1>1. Append(log, s) \in Seq(CaseStatus) /\ Append(log, s)[Len(log) + 1] = s
  BY RowAdded
<1>2. Len(Append(log, s)) = Len(log) + 1 /\ Len(log) \in Nat
  BY AppendProperties, LenProperties
<1>3. Len(<<>>) = 0
  OBVIOUS
<1>. QED
  BY <1>1, <1>2, <1>3

LEMMA CasesStep ==
  ASSUME SInv, NEW w \in Workers, End(w), UNCHANGED <<mode, rules, evals>>, UNCHANGED signVars,
         alerts' \in Seq(AlertRows), cases' \in Seq(CaseRows), DOMAIN cases \subseteq DOMAIN cases',
         \A c \in DOMAIN cases' : CaseOK(cases'[c])
  PROVE  SInv'
<1>1. DeskRows
  BY SInvIs
<1>2. DeskRows'
  BY <1>1 DEF DeskRows, RulesInv, EvalsInv, TimelineMatches, CaseOK
<1>. QED
  BY <1>1, <1>2, RulesSame, DeskEnd

LEMMA CasesAre == ASSUME SInv, NEW c \in DOMAIN cases PROVE CaseOK(cases[c])
<1>1. DeskRows
  BY SInvIs
<1>2. cases[c] \in CaseRows
  BY <1>1, RowIn DEF DeskRows
<1>. QED
  BY <1>1, <1>2 DEF DeskRows, TimelineMatches, CaseOK

LEMMA OpenCaseStep == ASSUME SInv, NEW w \in Workers, OpenCase(w), UNCHANGED signVars PROVE SInv'
<1>. DEFINE no == FALSE
            row == [status |-> "OPEN", analyst |-> None, reason |-> no, log |-> <<"OPEN">>]
<1>1. /\ End(w) /\ UNCHANGED <<mode, rules, evals>>
      /\ \/ cases' = Append(cases, row) /\ alerts' = [alerts EXCEPT ![worker[w].job.on].status = "ESCALATED"]
         \/ UNCHANGED <<cases, alerts>>
  BY DEF OpenCase
<1>2. alerts \in Seq(AlertRows) /\ cases \in Seq(CaseRows)
  BY SInvIs DEF DeskRows
<1>3. CASE UNCHANGED <<cases, alerts>>
  BY <1>1, <1>2, <1>3, CasesAre, CasesStep
<1>4. CASE cases' = Append(cases, row) /\ alerts' = [alerts EXCEPT ![worker[w].job.on].status = "ESCALATED"]
  <2>1. no \in BOOLEAN
    OBVIOUS
  <2>. HIDE DEF no
  <2>2. None \in Names /\ <<"OPEN">> \in Seq(CaseStatus) /\ "OPEN" \in CaseStatus
    BY DEF Names, CaseStatus
  <2>3. row \in CaseRows
    BY <2>1, <2>2 DEF CaseRows
  <2>4. row.status = "OPEN" /\ row.log = <<"OPEN">>
    OBVIOUS
  <2>. HIDE DEF row
  <2>5. CaseOK(row)
    BY <2>3, <2>4 DEF CaseOK
  <2>6. /\ cases' \in Seq(CaseRows) /\ DOMAIN cases' = DOMAIN cases \cup {Len(cases) + 1}
        /\ \A c \in DOMAIN cases : cases'[c] = cases[c]
        /\ cases'[Len(cases) + 1] = row
    BY <1>2, <1>4, <2>3, RowAdded
  <2>7. alerts' \in Seq(AlertRows)
    BY <1>4, AlertMarked
  <2>. QED
    BY <1>1, <2>5, <2>6, <2>7, CasesAre, CasesStep
<1>. QED
  BY <1>1, <1>3, <1>4

\* One row of the cases is written.
LEMMA CaseWritten ==
  ASSUME SInv, NEW w \in Workers, NEW row, worker[w].job.on \in DOMAIN cases, CaseOK(row),
         WriteCase(w, row), UNCHANGED signVars
  PROVE  SInv'
<1>1. /\ End(w) /\ UNCHANGED <<mode, rules, evals, alerts>>
      /\ cases' = [cases EXCEPT ![worker[w].job.on] = row]
  BY DEF WriteCase
<1>2. alerts \in Seq(AlertRows) /\ cases \in Seq(CaseRows) /\ row \in CaseRows
  BY SInvIs DEF DeskRows, CaseOK
<1>3. /\ cases' \in Seq(CaseRows) /\ DOMAIN cases' = DOMAIN cases
      /\ \A c \in DOMAIN cases : cases'[c] = IF c = worker[w].job.on THEN row ELSE cases[c]
  BY <1>1, <1>2, RowChanged
<1>. QED
  BY <1>1, <1>2, <1>3, CasesAre, CasesStep

LEMMA ClaimStep == ASSUME SInv, NEW w \in Workers, Claim(w), UNCHANGED signVars PROVE SInv'
<1>. DEFINE j == worker[w].job
            q == cases[j.on]
            row == [q EXCEPT !.analyst = j.by]
<1>1. Refuse(w) \/ (worker[w].seen # None /\ WriteCase(w, row))
  BY DEF Claim, ClaimedCase
<1>2. CASE Refuse(w)
  BY <1>2, RefuseStep
<1>3. CASE worker[w].seen # None /\ WriteCase(w, row)
  <2>1. j.on \in DOMAIN cases /\ j \in Job
    BY <1>3, RuleHeld DEF Claim, At
  <2>2. j.by \in Names
    BY <2>1 DEF Job, Names
  <2>3. CaseOK(q)
    BY <2>1, CasesAre
  <2>. HIDE DEF q, j
  <2>4. row \in CaseRows
    BY <2>2, <2>3 DEF CaseOK, CaseRows
  <2>5. row.status = q.status /\ row.log = q.log
    BY <2>3 DEF CaseOK, CaseRows
  <2>. HIDE DEF row
  <2>6. CaseOK(row)
    BY <2>3, <2>4, <2>5 DEF CaseOK
  <2>. QED
    BY <1>3, <2>1, <2>6, CaseWritten DEF j
<1>. QED
  BY <1>1, <1>2, <1>3

LEMMA MoveStep == ASSUME SInv, NEW w \in Workers, Move(w), UNCHANGED signVars PROVE SInv'
<1>. DEFINE j == worker[w].job
            seen == worker[w].seen
            why == seen.reason \/ j.val \in Terminal
            log == Append(cases[j.on].log, j.val)
            row == [seen EXCEPT !.status = j.val, !.reason = why, !.log = log]
<1>1. Refuse(w) \/ (seen # None /\ j.val \in CaseTransitions[seen.status] /\ WriteCase(w, row))
  BY DEF Move
<1>2. CASE Refuse(w)
  BY <1>2, RefuseStep
<1>3. CASE seen # None /\ j.val \in CaseTransitions[seen.status] /\ WriteCase(w, row)
  <2>1. j.on \in DOMAIN cases /\ seen \in CaseRows
    BY <1>3, RuleHeld DEF Move, At
  <2>2. seen.status \in CaseStatus
    BY <2>1 DEF CaseRows
  <2>3. j.val \in CaseStatus
    BY <1>3, <2>2 DEF CaseStatus, CaseTransitions
  <2>4. CaseOK(cases[j.on])
    BY <2>1, CasesAre
  <2>5. cases[j.on].log \in Seq(CaseStatus)
    BY <2>4 DEF CaseOK, CaseRows
  <2>6. log \in Seq(CaseStatus) /\ log[Len(log)] = j.val /\ log # <<>>
    BY <2>3, <2>5, Logged
  <2>8. why \in BOOLEAN
    BY <2>1 DEF CaseRows
  <2>. HIDE DEF why, log, seen, j
  <2>9. row \in CaseRows
    BY <2>1, <2>3, <2>6, <2>8 DEF CaseRows
  <2>10. row.status = j.val /\ row.log = log
    BY <2>1 DEF CaseRows
  <2>. HIDE DEF row
  <2>11. CaseOK(row)
    BY <2>6, <2>9, <2>10 DEF CaseOK
  <2>. QED
    BY <1>3, <2>1, <2>11, CaseWritten DEF j
<1>. QED
  BY <1>1, <1>2, <1>3

-----------------------------------------------------------------------------
(* Evaluations.                                                              *)

\* A row of the evaluations, sound with the rules there are.
EvalOK(row) ==
  /\ row \in EvalRows /\ row.fired \subseteq row.eligible /\ row.eligible \subseteq DOMAIN rules
  /\ row.status = "COMPLETED" => row.outcome = Outcome(row.op, row.mode, Decide(row.op, RiskLevel(row.score)))
  /\ row.status # "EVALUATING" /\ row.op \in {"LOGIN", "PASSWORD_CHANGE"} =>
       row.outcome \in {"ALLOW", "CHALLENGE", "BLOCK"}

LEMMA EvalsAre == ASSUME DeskRows, NEW e \in DOMAIN evals PROVE EvalOK(evals[e])
<1>1. evals[e] \in EvalRows
  BY RowIn DEF DeskRows
<1>. QED
  BY <1>1 DEF DeskRows, EvalsInv, EvalOK

LEMMA EvalsWritten ==
  ASSUME DeskRows, UNCHANGED desk, evals' \in Seq(EvalRows), \A e \in DOMAIN evals' : EvalOK(evals'[e])
  PROVE  DeskRows'
<1>1. UNCHANGED <<mode, rules, alerts, cases>>
  BY DEF desk
<1>2. EvalsInv'
  BY DEF EvalsInv, EvalOK
<1>. QED
  BY <1>1, <1>2 DEF DeskRows, RulesInv, TimelineMatches, EvalOK

\* A new evaluation is open.
LEMMA EvaluationOpened ==
  ASSUME DeskRows, UNCHANGED desk, NEW op \in Ops,
         evals' = Append(evals, [op |-> op, mode |-> mode, status |-> "EVALUATING", facts |-> {},
                                 eligible |-> {}, fired |-> {}, score |-> 0, decision |-> "PENDING",
                                 outcome |-> "PENDING"])
  PROVE  /\ DeskRows' /\ EvalsGrow
         /\ Len(evals) \in Nat /\ Len(evals') = Len(evals) + 1 /\ Len(evals) + 1 \notin DOMAIN evals
         /\ Len(evals) + 1 \in DOMAIN evals' /\ evals'[Len(evals) + 1].status = "EVALUATING"
         /\ evals'[Len(evals) + 1].op = op
         /\ \A e \in DOMAIN evals : evals'[e] = evals[e]
<1>. DEFINE row == [op |-> op, mode |-> mode, status |-> "EVALUATING", facts |-> {},
                    eligible |-> {}, fired |-> {}, score |-> 0, decision |-> "PENDING",
                    outcome |-> "PENDING"]
<1>1. row \in EvalRows
  BY DEF EvalRows, DeskRows
<1>2. row.status = "EVALUATING" /\ row.op = op /\ row.fired = {} /\ row.eligible = {}
  OBVIOUS
<1>. HIDE DEF row
<1>3. EvalOK(row)
  BY <1>1, <1>2 DEF EvalOK
<1>4. evals \in Seq(EvalRows) /\ evals' = Append(evals, row)
  BY DEF DeskRows, row
<1>5. /\ evals' \in Seq(EvalRows) /\ DOMAIN evals' = DOMAIN evals \cup {Len(evals) + 1}
      /\ \A e \in DOMAIN evals : e # Len(evals) + 1 /\ evals'[e] = evals[e]
      /\ evals'[Len(evals) + 1] = row
  BY <1>1, <1>4, RowAdded
<1>6. Len(evals) \in Nat /\ Len(evals') = Len(evals) + 1
  BY <1>1, <1>4, AppendProperties, LenProperties
<1>7. DeskRows'
  BY <1>3, <1>5, EvalsAre, EvalsWritten
<1>8. EvalsGrow
  BY <1>5, <1>6 DEF EvalsGrow
<1>. QED
  BY <1>2, <1>5, <1>6, <1>7, <1>8

\* An evaluation is over, with a score or without.
LEMMA EvaluationOver ==
  ASSUME DeskRows, UNCHANGED desk, NEW e \in DOMAIN evals, evals[e].status = "EVALUATING",
         NEW facts \in SUBSET Registry, Complete(e, facts) \/ Fail(e)
  PROVE  /\ DeskRows' /\ EvalsGrow /\ DOMAIN evals' = DOMAIN evals
         /\ \A x \in DOMAIN evals : x # e => evals'[x] = evals[x]
         /\ evals'[e].op = evals[e].op /\ evals'[e].status # "EVALUATING"
<1>. DEFINE q == evals[e]
<1>1. EvalOK(q) /\ evals \in Seq(EvalRows) /\ rules \in Seq(RuleRows)
  BY EvalsAre DEF DeskRows
<1>2. q \in EvalRows /\ q.op \in Ops /\ q.mode \in Modes
  BY <1>1 DEF EvalOK, EvalRows
<1>3. \E row : evals' = [evals EXCEPT ![e] = row] /\ EvalOK(row) /\ row.op = q.op /\ row.status # "EVALUATING"
  <2>1. CASE Complete(e, facts)
    <3>. DEFINE values == Collect(q.op, facts)
                eligible == Eligible(rules, q.op)
                fired  == Triggered(rules, q.op, values)
                score  == Score(rules, fired)
                decision == Decide(q.op, RiskLevel(score))
                outcome == Outcome(q.op, q.mode, decision)
                row == [q EXCEPT !.status = "COMPLETED", !.facts = facts, !.fired = fired, !.score = score,
                                 !.eligible = eligible, !.decision = decision, !.outcome = outcome]
    <3>1. evals' = [evals EXCEPT ![e] = row]
      BY <2>1 DEF Complete
    <3>2. eligible \subseteq DOMAIN rules /\ fired \subseteq eligible
      BY DEF Eligible, Triggered
    <3>3. DOMAIN rules \subseteq Nat
      <4>1. DOMAIN rules = 1 .. Len(rules) /\ Len(rules) \in Nat
        BY <1>1, LenProperties
      <4>. QED
        BY <4>1
    <3>. HIDE DEF values, eligible, fired
    <3>4. score \in 0 .. 100
      BY <1>1, <3>2, ScoreIs
    <3>. HIDE DEF score
    <3>5. decision \in Decisions
      BY <1>2, <3>4, LevelIs, DecideIs
    <3>6. outcome \in Decisions
          /\ (q.op \in {"LOGIN", "PASSWORD_CHANGE"} => outcome \in {"ALLOW", "CHALLENGE", "BLOCK"})
      <4>. HIDE DEF decision, q
      <4>. QED
        BY <1>2, <3>5, OutcomeIs
    <3>7. outcome = Outcome(q.op, q.mode, Decide(q.op, RiskLevel(score)))
      OBVIOUS
    <3>. HIDE DEF decision, outcome, q
    <3>8. row \in EvalRows
      <4>1. fired \in SUBSET Nat /\ eligible \in SUBSET Nat
        BY <3>2, <3>3
      <4>. QED
        BY <1>2, <3>4, <3>5, <3>6, <4>1 DEF EvalRows
    <3>9. /\ row.op = q.op /\ row.mode = q.mode /\ row.status = "COMPLETED" /\ row.score = score
          /\ row.outcome = outcome /\ row.fired = fired /\ row.eligible = eligible
      BY <1>2 DEF EvalRows
    <3>. HIDE DEF row
    <3>10. EvalOK(row)
      BY <3>2, <3>6, <3>7, <3>8, <3>9 DEF EvalOK
    <3>. QED
      BY <3>1, <3>9, <3>10
  <2>2. CASE Fail(e)
    <3>. DEFINE outcome == OutcomeOfFailure(q.op, mode)
                row == [q EXCEPT !.status = "FAILED", !.decision = "DEFER", !.outcome = outcome]
    <3>1. evals' = [evals EXCEPT ![e] = row]
      BY <2>2 DEF Fail
    <3>2. outcome \in {"ALLOW", "BLOCK"}
      BY DEF OutcomeOfFailure
    <3>3. outcome \in Decisions
      BY <3>2 DEF Decisions
    <3>. HIDE DEF outcome, q
    <3>4. row \in EvalRows
      BY <1>2, <3>3 DEF EvalRows
    <3>5. /\ row.op = q.op /\ row.status = "FAILED" /\ row.outcome = outcome
          /\ row.fired = q.fired /\ row.eligible = q.eligible
      BY <1>2 DEF EvalRows
    <3>. HIDE DEF row
    <3>6. EvalOK(row)
      BY <1>1, <3>2, <3>4, <3>5 DEF EvalOK
    <3>. QED
      BY <3>1, <3>5, <3>6
  <2>. QED
    BY <2>1, <2>2
<1>4. PICK row : evals' = [evals EXCEPT ![e] = row] /\ EvalOK(row) /\ row.op = q.op /\ row.status # "EVALUATING"
  BY <1>3
<1>5. /\ evals' \in Seq(EvalRows) /\ DOMAIN evals' = DOMAIN evals
      /\ \A x \in DOMAIN evals : evals'[x] = IF x = e THEN row ELSE evals[x]
  BY <1>1, <1>4, RowChanged DEF EvalOK
<1>6. DeskRows'
  BY <1>4, <1>5, EvalsAre, EvalsWritten
<1>7. Len(evals') = Len(evals) /\ Len(evals) \in Nat
  BY <1>1, <1>5, LenProperties
<1>8. EvalsGrow
  BY <1>4, <1>5, <1>7 DEF EvalsGrow
<1>. QED
  BY <1>4, <1>5, <1>6, <1>8

\* What the others hold, when no session changes and only the evaluation of w does.
LEMMA OthersElse ==
  ASSUME SInv, NEW w \in Workers, UNCHANGED web, EvalsGrow,
         \A e \in DOMAIN evals : evals'[e] = evals[e] \/ (worker[w].pc = "evaluating" /\ e = worker[w].eval),
         NEW x \in Workers \ {w}
  PROVE  /\ worker[x].pc = "evaluating" => evals'[worker[x].eval].status = "EVALUATING"
         /\ worker[x].pc # "idle" /\ worker[x].job.op \in {"code", "password"} => WebKept(worker[x].job.by)
<1>1. WorkerOK(worker[x]) /\ Apart(worker[w], worker[x])
  BY SInvIs DEF Serving
<1>. QED
  BY <1>1 DEF WorkerOK, DeskWorker, Apart, WebKept

\* A request that is served moves on in its work.
LEMMA WorkerMoves ==
  ASSUME NEW u, NEW v, WorkerOK(u), Grow, u.pc # "idle", v.pc # "idle", DOMAIN v = DOMAIN u,
         v.job = u.job, v.job.op \notin UserOps => v.seen = u.seen,
         v.job.op \in UserOps =>
           /\ UserOK(v.seen)' /\ FailuresCounted(v.seen)'
           /\ v.pc \in {"evaluating", "decided", "coded"} => evals'[v.eval].op \in {"LOGIN", "PASSWORD_CHANGE"}
           /\ v.pc \in {"saved", "recorded"} => v.seen.pass > 1,
         v.eval \in 0 .. Len(evals'),
         v.pc \in {"evaluating", "decided", "coded"} => v.eval \in DOMAIN evals',
         v.pc = "evaluating" => evals'[v.eval].status = "EVALUATING",
         v.pc \in {"decided", "coded"} => evals'[v.eval].status # "EVALUATING",
         v.pc = "coded" => evals'[v.eval].outcome = "CHALLENGE",
         v.job.op \in {"code", "password"} => WebKept(v.job.by)
  PROVE  WorkerOK(v)'
<1>1. v.job.op \in RuleOps \cup {"version", "alert", "claim", "move"} => v.seen = u.seen
  BY DEF RuleOps, UserOps, PageOps
<1>2. DeskWorker(v)'
  <2>1. WellFormed(v.job, rules)'
    BY DEF WorkerOK, DeskWorker, WellFormed, Grow, RulesGrow
  <2>2. v.job.op \in RuleOps =>
          /\ v.seen \in RuleRows /\ v.job.on \in DOMAIN rules'
          /\ v.seen.maker = rules'[v.job.on].maker
          /\ v.seen.lifecycle = "APPROVED" => Checked(rules'[v.job.on])
    BY <1>1 DEF WorkerOK, DeskWorker, Grow, RulesGrow
  <2>3. /\ v.job.op = "version" => v.seen \in RuleRows
        /\ v.job.op \in {"claim", "move"} /\ v.seen # None =>
             v.seen \in CaseRows /\ v.job.on \in DOMAIN cases'
        /\ v.job.op = "alert" /\ v.seen = "missing" => v.job.on \in DOMAIN evals'
    BY <1>1 DEF WorkerOK, DeskWorker, Grow, EvalsGrow
  <2>. QED
    BY <2>1, <2>2, <2>3 DEF WorkerOK, DeskWorker
<1>3. UserWorker(v)'
  <2>1. v.job.op \in UserOps => v.job.by \in Browsers
    BY DEF WorkerOK, UserWorker
  <2>2. v.pc \in {"decided", "coded"} => Settled(v.eval)'
    BY DEF Settled
  <2>3. v.job.op \in {"code", "password"} =>
          Accepted(web[v.job.by].eval)' /\ (v.job.op = "password" => Earned(web[v.job.by])')
    BY SessionKept DEF WorkerOK, UserWorker, Grow, UserOps, PageOps
  <2>. QED
    BY <2>1, <2>2, <2>3 DEF UserWorker
<1>. QED
  BY <1>2, <1>3 DEF WorkerOK

\* A request that is served opens an evaluation.
LEMMA OpenStep ==
  ASSUME SInv, NEW w \in Workers, NEW op \in Ops, worker[w].pc \notin {"idle", "evaluating"},
         CreateEvaluation(w, op), worker[w].job.op \in UserOps => op \in {"LOGIN", "PASSWORD_CHANGE"},
         UNCHANGED signVars
  PROVE  SInv'
<1>1. DeskRows /\ PersonRows /\ Serving
  BY SInvIs
<1>2. PICK u, n : u = worker[w] /\ n = Len(evals) + 1
  OBVIOUS
<1>. DEFINE v == [u EXCEPT !.pc = "evaluating", !.eval = n]
<1>3. UNCHANGED desk /\ todo' = todo /\ worker' = [worker EXCEPT ![w] = v]
      /\ evals' = Append(evals, [op |-> op, mode |-> mode, status |-> "EVALUATING", facts |-> {},
                                 eligible |-> {}, fired |-> {}, score |-> 0, decision |-> "PENDING",
                                 outcome |-> "PENDING"])
  BY <1>2 DEF CreateEvaluation
<1>4. WorkerOK(u) /\ u.pc \notin {"idle", "evaluating"}
      /\ (u.job.op \in UserOps => op \in {"LOGIN", "PASSWORD_CHANGE"})
  BY <1>1, <1>2 DEF Serving
<1>5. /\ DeskRows' /\ EvalsGrow
      /\ Len(evals) \in Nat /\ Len(evals') = n /\ n \notin DOMAIN evals
      /\ n \in DOMAIN evals' /\ evals'[n].status = "EVALUATING" /\ evals'[n].op = op
      /\ \A e \in DOMAIN evals : evals'[e] = evals[e]
  BY <1>1, <1>2, <1>3, EvaluationOpened
<1>6. UNCHANGED <<rules, cases, changes, codes, locks, clock, fails, records, web>>
  BY <1>3 DEF desk, signVars, person
<1>7. Grow
  BY <1>1, <1>5, <1>6, RulesSame, PersonSame DEF Grow
<1>8. PersonRows'
  BY <1>1, <1>5, PersonRowsSame
<1>9. DOMAIN u = {"pc", "job", "seen", "eval"}
  BY <1>4 DEF WorkerOK, DeskWorker, Idle
<1>10. v.pc = "evaluating" /\ v.eval = n /\ v.job = u.job /\ v.seen = u.seen /\ DOMAIN v = DOMAIN u
  BY <1>9
<1>. HIDE DEF v
<1>11. WorkerOK(v)'
  <2>1. u.job.op \in UserOps => UserOK(v.seen)' /\ FailuresCounted(v.seen)'
    <3>1. u.job.op \in UserOps => UserOK(u.seen) /\ FailuresCounted(u.seen)
      BY <1>4 DEF WorkerOK, UserWorker
    <3>2. u.job.op \in UserOps => UserOK(u.seen)' /\ FailuresCounted(u.seen)'
      BY <1>7, <3>1, UserKept DEF Grow
    <3>. QED
      BY <1>10, <3>2
  <2>2. WebKept(u.job.by)
    BY <1>6 DEF WebKept
  <2>3. v.eval \in 0 .. Len(evals')
    BY <1>2, <1>5, <1>10
  <2>4. v.pc = "evaluating" /\ v.pc # "idle"
    BY <1>10
  <2>. HIDE DEF WebKept
  <2>. QED
    BY <1>4, <1>5, <1>7, <1>10, <2>1, <2>2, <2>3, <2>4, WorkerMoves
<1>12. ASSUME NEW x \in Workers \ {w} PROVE Apart(v, worker[x]) /\ Apart(worker[x], v)
  <2>1. Apart(u, worker[x]) /\ WorkerOK(worker[x])
    BY <1>1, <1>2 DEF Serving
  <2>. QED
    BY <1>4, <1>5, <1>10, <2>1 DEF Apart, WorkerOK, DeskWorker
<1>13. ASSUME NEW x \in Workers \ {w}
       PROVE  /\ worker[x].pc = "evaluating" => evals'[worker[x].eval].status = "EVALUATING"
              /\ worker[x].pc # "idle" /\ worker[x].job.op \in {"code", "password"} => WebKept(worker[x].job.by)
  BY <1>5, <1>6, OthersElse
<1>14. Serving'
  BY <1>1, <1>3, <1>7, <1>11, <1>12, <1>13, OthersGoOn
<1>. QED
  BY <1>5, <1>8, <1>14, SInvAfter

\* The facts a flow, a sign-in or a password change is judged by.
LEMMA FactsAre == ASSUME NEW b PROVE Facts(b) \in SUBSET Registry
<1>. DEFINE all == {"FAILED_LOGIN_COUNT_24H", "NEW_DEVICE", "PASSWORD_CHANGED_RECENTLY_24H",
                    "ATO_CORRELATION_POINTS"}
<1>1. all \subseteq ActorSignals \cup AtoSignals
  BY DEF ActorSignals, AtoSignals
<1>2. ActorSignals \cup AtoSignals \subseteq Registry
  BY DEF Registry
<1>3. Facts(b) \subseteq all
  BY DEF Facts
<1>. QED
  BY <1>1, <1>2, <1>3

\* What is left of an evaluation when it is over.
LEMMA OverFrame ==
  ASSUME SInv, NEW w \in Workers, worker[w].pc = "evaluating", UNCHANGED desk, UNCHANGED signVars,
         NEW facts \in SUBSET Registry, Complete(worker[w].eval, facts) \/ Fail(worker[w].eval)
  PROVE  /\ DeskRows' /\ PersonRows' /\ Grow
         /\ \A e \in DOMAIN evals : evals'[e] = evals[e] \/ (worker[w].pc = "evaluating" /\ e = worker[w].eval)
         /\ worker[w].eval \in DOMAIN evals' /\ evals'[worker[w].eval].op = evals[worker[w].eval].op
         /\ evals'[worker[w].eval].status # "EVALUATING"
<1>1. DeskRows /\ PersonRows /\ WorkerOK(worker[w])
  BY SInvIs DEF Serving
<1>2. worker[w].eval \in DOMAIN evals /\ evals[worker[w].eval].status = "EVALUATING"
  BY <1>1 DEF WorkerOK, DeskWorker
<1>3. PICK e : e = worker[w].eval
  OBVIOUS
<1>4. /\ DeskRows' /\ EvalsGrow /\ DOMAIN evals' = DOMAIN evals
      /\ \A x \in DOMAIN evals : x # e => evals'[x] = evals[x]
      /\ evals'[e].op = evals[e].op /\ evals'[e].status # "EVALUATING"
  BY <1>1, <1>2, <1>3, EvaluationOver
<1>5. UNCHANGED <<rules, cases, changes, codes, locks, clock, fails, records>>
  BY DEF desk, signVars, person
<1>6. Grow
  BY <1>1, <1>4, <1>5, RulesSame, PersonSame DEF Grow
<1>7. PersonRows'
  BY <1>1, <1>4, PersonRowsSame
<1>. QED
  BY <1>2, <1>3, <1>4, <1>6, <1>7

LEMMA RunFlowStep == ASSUME SInv, NEW w \in Workers, RunFlow(w), UNCHANGED signVars PROVE SInv'
<1>1. /\ worker[w].pc = "evaluating" /\ UNCHANGED desk /\ End(w)
      /\ Complete(worker[w].eval, worker[w].job.facts) \/ Fail(worker[w].eval)
  BY DEF RunFlow, At
<1>2. worker[w].job \in Job
  BY <1>1, SInvIs DEF Serving, WorkerOK, DeskWorker, WellFormed
<1>3. worker[w].job.facts \in SUBSET Registry
  BY <1>2 DEF Job
<1>4. /\ DeskRows' /\ PersonRows' /\ Grow /\ EvalsGrow
      /\ \A e \in DOMAIN evals : evals'[e] = evals[e] \/ (worker[w].pc = "evaluating" /\ e = worker[w].eval)
  BY <1>1, <1>3, OverFrame DEF Grow
<1>5. UNCHANGED web
  BY DEF signVars, person
<1>6. ASSUME NEW x \in Workers \ {w}
      PROVE  /\ worker[x].pc = "evaluating" => evals'[worker[x].eval].status = "EVALUATING"
             /\ worker[x].pc # "idle" /\ worker[x].job.op \in {"code", "password"} => WebKept(worker[x].job.by)
  BY <1>4, <1>5, OthersElse
<1>. QED
  BY <1>1, <1>4, <1>6, EndStep

\* A request of the customer's moves on, and the others are not touched.
LEMMA UserMoves ==
  ASSUME SInv, NEW w \in Workers, NEW v, DeskRows', PersonRows', Grow,
         worker' = [worker EXCEPT ![w] = v], todo' = todo, UNCHANGED web,
         worker[w].pc # "idle", worker[w].job.op \in UserOps,
         v.pc \notin {"idle", "evaluating"}, DOMAIN v = DOMAIN worker[w], v.job = worker[w].job,
         UserOK(v.seen)', FailuresCounted(v.seen)', v.eval = worker[w].eval,
         v.pc \in {"decided", "coded"} =>
           /\ v.eval \in DOMAIN evals' /\ evals'[v.eval].status # "EVALUATING"
           /\ evals'[v.eval].op \in {"LOGIN", "PASSWORD_CHANGE"},
         v.pc = "coded" => evals'[v.eval].outcome = "CHALLENGE",
         v.pc \in {"saved", "recorded"} => v.seen.pass > 1,
         \A e \in DOMAIN evals : evals'[e] = evals[e] \/ (worker[w].pc = "evaluating" /\ e = worker[w].eval)
  PROVE  SInv'
<1>1. DeskRows /\ PersonRows /\ Serving
  BY SInvIs
<1>2. PICK u : u = worker[w]
  OBVIOUS
<1>3. WorkerOK(u)
  BY <1>1, <1>2 DEF Serving
<1>4. u.job.op \in {"code", "password"} => WebKept(u.job.by)
  BY DEF WebKept
<1>5. v.eval \in 0 .. Len(evals')
  BY <1>2, <1>3 DEF WorkerOK, DeskWorker, Grow, EvalsGrow
<1>6. WorkerOK(v)'
  BY <1>2, <1>3, <1>4, <1>5, WorkerMoves
<1>7. ASSUME NEW x \in Workers \ {w} PROVE Apart(v, worker[x]) /\ Apart(worker[x], v)
  <2>1. Apart(u, worker[x])
    BY <1>1, <1>2 DEF Serving
  <2>. QED
    BY <1>2, <2>1 DEF Apart
<1>8. ASSUME NEW x \in Workers \ {w}
      PROVE  /\ worker[x].pc = "evaluating" => evals'[worker[x].eval].status = "EVALUATING"
             /\ worker[x].pc # "idle" /\ worker[x].job.op \in {"code", "password"} => WebKept(worker[x].job.by)
  BY OthersElse DEF Grow
<1>9. Serving'
  BY <1>1, <1>6, <1>7, <1>8, OthersGoOn
<1>. QED
  BY <1>9, SInvAfter

LEMMA EvaluateStep ==
  ASSUME SInv, NEW w \in Workers, worker[w].pc = "evaluating", worker[w].job.op \in UserOps,
         NEW facts \in SUBSET Registry, Evaluate(w, facts, "decided"), UNCHANGED signVars
  PROVE  SInv'
<1>1. PICK u : u = worker[w]
  OBVIOUS
<1>. DEFINE v == [u EXCEPT !.pc = "decided"]
<1>2. /\ worker' = [worker EXCEPT ![w] = v] /\ todo' = todo /\ UNCHANGED desk
      /\ Complete(worker[w].eval, facts) \/ Fail(worker[w].eval)
  BY <1>1 DEF Evaluate
<1>3. WorkerOK(u)
  BY <1>1, SInvIs DEF Serving
<1>4. DOMAIN u = {"pc", "job", "seen", "eval"}
  BY <1>3 DEF WorkerOK, DeskWorker, Idle
<1>5. v.pc = "decided" /\ v.eval = u.eval /\ v.job = u.job /\ v.seen = u.seen /\ DOMAIN v = DOMAIN u
  BY <1>4
<1>. HIDE DEF v
<1>6. UserOK(u.seen) /\ FailuresCounted(u.seen) /\ evals[u.eval].op \in {"LOGIN", "PASSWORD_CHANGE"}
  BY <1>1, <1>3 DEF WorkerOK, UserWorker
<1>7. /\ DeskRows' /\ PersonRows' /\ Grow
      /\ \A e \in DOMAIN evals : evals'[e] = evals[e] \/ (worker[w].pc = "evaluating" /\ e = worker[w].eval)
      /\ u.eval \in DOMAIN evals' /\ evals'[u.eval].op = evals[u.eval].op
      /\ evals'[u.eval].status # "EVALUATING"
  BY <1>1, <1>2, OverFrame
<1>8. UNCHANGED web
  BY DEF signVars, person
<1>9. UserOK(v.seen)' /\ FailuresCounted(v.seen)'
  BY <1>5, <1>6, <1>7, UserKept DEF Grow
<1>. QED
  BY <1>1, <1>2, <1>5, <1>6, <1>7, <1>8, <1>9, UserMoves

-----------------------------------------------------------------------------
(* The customer's rows, part by part.                                        *)

UserPart == UserOK(user) /\ FailuresCounted(user)

Counters == /\ codes \in [made : Nat, aged : Nat] /\ codes.aged <= codes.made
            /\ locks \in [made : Nat, over : Nat] /\ locks.over <= locks.made
            /\ clock \in 1 .. MaxClock /\ fails \in Nat
            /\ records \in [failed : Nat, changed : Nat]

\* A session rests on an evaluation that is over and did not refuse.
WebOK(row) ==
  /\ row \in WebRows /\ row.eval <= Len(evals)
  /\ row.state # "out" => Accepted(row.eval)
  /\ row.state = "in" => Earned(row)

WebPart     == DOMAIN web = Browsers /\ web = [b \in Browsers |-> web[b]] /\ \A b \in Browsers : WebOK(web[b])
DevicePart  == devices \in [Browsers -> {"absent", "untrusted", "trusted"}]
ChangesPart == changes \in Seq([eval : Nat, coded : BOOLEAN]) /\ ChangesInv /\ PasswordJustified

LEMMA PersonIs == PersonRows <=> UserPart /\ Counters /\ WebPart /\ DevicePart /\ ChangesPart
<1>1. PersonRows => UserPart /\ Counters /\ DevicePart /\ ChangesPart
  BY DEF PersonRows, UserPart, Counters, DevicePart, ChangesPart
<1>2. PersonRows => WebPart
  BY DEF PersonRows, WebPart, WebOK, WebInv, SessionsEarned
<1>3. WebPart => web \in [Browsers -> WebRows] /\ (\A b \in Browsers : web[b].eval <= Len(evals)) /\ WebInv
                 /\ SessionsEarned
  BY DEF WebPart, WebOK, WebInv, SessionsEarned
<1>4. UserPart /\ Counters /\ WebPart /\ DevicePart /\ ChangesPart => PersonRows
  BY <1>3 DEF PersonRows, UserPart, Counters, DevicePart, ChangesPart
<1>. QED
  BY <1>1, <1>2, <1>4

LEMMA PersonAfter == UserPart' /\ Counters' /\ WebPart' /\ DevicePart' /\ ChangesPart' => PersonRows'
BY PersonIs, PTL

LEMMA Parts == ASSUME SInv PROVE UserPart /\ Counters /\ WebPart /\ DevicePart /\ ChangesPart
BY SInvIs, PersonIs

LEMMA CountersSame == ASSUME SInv, UNCHANGED <<codes, locks, clock, fails, records>> PROVE Counters'
BY Parts DEF Counters

LEMMA WebSame == ASSUME SInv, UNCHANGED <<web, evals>> PROVE WebPart'
BY Parts DEF WebPart, WebOK, Accepted, Earned, Settled

LEMMA DevicesSame == ASSUME SInv, UNCHANGED devices PROVE DevicePart'
BY Parts DEF DevicePart

\* A notice of something else than a password leaves the passwords' as they are.
LEMMA ChangesSame ==
  ASSUME SInv, UNCHANGED <<changes, evals>>,
         UNCHANGED notes \/ \E kind, key : kind # "PASSWORD_CHANGED" /\ Notify(kind, key)
  PROVE  ChangesPart'
<1>1. \A n \in notes' : n[1] = "PASSWORD_CHANGED" => n \in notes
  BY DEF Notify
<1>2. ChangesPart
  BY Parts
<1>. QED
  BY <1>1, <1>2 DEF ChangesPart, ChangesInv, PasswordJustified, Settled

LEMMA UserSame == ASSUME SInv, PersonGrows, UNCHANGED user PROVE UserPart'
<1>1. UserOK(user)' /\ FailuresCounted(user)'
  <2>1. PICK u : u = user
    OBVIOUS
  <2>2. UserOK(u) /\ FailuresCounted(u)
    BY <2>1, Parts DEF UserPart
  <2>3. UserOK(u)' /\ FailuresCounted(u)'
    BY <2>2, UserKept
  <2>. QED
    BY <2>1, <2>3 DEF UserOK, FailuresCounted
<1>. QED
  BY <1>1 DEF UserPart

\* A request of the customer's is over; other sessions it at most ended.
LEMMA UserEnd ==
  ASSUME SInv, NEW w \in Workers, End(w), UNCHANGED <<desk, evals>>, PersonGrows,
         worker[w].pc # "idle", worker[w].job.op \in UserOps,
         UserPart', Counters', WebPart', DevicePart', ChangesPart',
         \A b \in Browsers : b = Browser(w) \/ WebKept(b)
  PROVE  SInv'
<1>1. DeskRows /\ Serving
  BY SInvIs
<1>2. UNCHANGED <<rules, cases>> /\ UNCHANGED evals
  BY DEF desk
<1>3. DeskRows' /\ Grow
  BY <1>1, <1>2, DeskRowsSame, RulesSame, EvalsSame DEF Grow
<1>4. PersonRows'
  BY PersonAfter
<1>5. ASSUME NEW x \in Workers \ {w}
      PROVE  /\ worker[x].pc = "evaluating" => evals'[worker[x].eval].status = "EVALUATING"
             /\ worker[x].pc # "idle" /\ worker[x].job.op \in {"code", "password"} => WebKept(worker[x].job.by)
  <2>1. WorkerOK(worker[x]) /\ Apart(worker[w], worker[x]) /\ {"code", "password"} \subseteq UserOps
    BY <1>1 DEF Serving, UserOps, PageOps
  <2>. QED
    BY <1>2, <2>1 DEF WorkerOK, DeskWorker, UserWorker, Apart, Browser
<1>. QED
  BY <1>3, <1>4, <1>5, EndStep

\* What a request of the customer's holds.
LEMMA UserHeld ==
  ASSUME SInv, NEW w \in Workers, worker[w].pc # "idle", worker[w].job.op \in UserOps
  PROVE  /\ UserOK(worker[w].seen) /\ FailuresCounted(worker[w].seen) /\ Browser(w) \in Browsers
         /\ worker[w].job.op \in {"code", "password"} => Accepted(web[Browser(w)].eval)
         /\ worker[w].job.op = "password" => Earned(web[Browser(w)])
         /\ worker[w].pc \in {"decided", "coded"} =>
              /\ Settled(worker[w].eval) /\ worker[w].eval \in 0 .. Len(evals)
              /\ evals[worker[w].eval].op \in {"LOGIN", "PASSWORD_CHANGE"}
              /\ evals[worker[w].eval].outcome \in {"ALLOW", "CHALLENGE", "BLOCK"}
         /\ worker[w].pc = "coded" => evals[worker[w].eval].outcome = "CHALLENGE"
         /\ worker[w].pc \in {"saved", "recorded"} => worker[w].seen.pass > 1
<1>1. WorkerOK(worker[w]) /\ DeskRows
  BY SInvIs DEF Serving
<1>2. /\ UserOK(worker[w].seen) /\ FailuresCounted(worker[w].seen) /\ Browser(w) \in Browsers
      /\ worker[w].job.op \in {"code", "password"} => Accepted(web[Browser(w)].eval)
      /\ worker[w].job.op = "password" => Earned(web[Browser(w)])
      /\ worker[w].pc = "coded" => evals[worker[w].eval].outcome = "CHALLENGE"
      /\ worker[w].pc \in {"saved", "recorded"} => worker[w].seen.pass > 1
  BY <1>1 DEF WorkerOK, UserWorker, Browser
<1>3. worker[w].pc \in {"decided", "coded"} =>
        /\ Settled(worker[w].eval) /\ worker[w].eval \in 0 .. Len(evals)
        /\ evals[worker[w].eval].op \in {"LOGIN", "PASSWORD_CHANGE"}
  BY <1>1 DEF WorkerOK, UserWorker, DeskWorker
<1>. QED
  BY <1>1, <1>2, <1>3 DEF DeskRows, EvalsInv, Settled

\* The user row is written, its password left alone.
LEMMA UserWritten ==
  ASSUME SInv, PersonGrows, user' \in UserRows, user'.pass = user.pass, user'.failed \in {0, user.failed},
         user'.locked \in {0, user.locked}, user'.otp = user.otp \/ user'.otp \in 0 .. codes'.made,
         user'.last \in {0, user.last, clock}
  PROVE  UserPart'
<1>1. UserOK(user) /\ FailuresCounted(user) /\ user \in UserRows
  BY Parts DEF UserPart, UserOK
<1>2. /\ user.pass \in Nat /\ user.failed \in Nat /\ user.locked \in Nat /\ user.otp \in Nat
      /\ user.last \in Nat
  BY <1>1 DEF UserRows
<1>3. clock \in Nat
  BY DEF PersonGrows
<1>4. /\ user.pass \in 1 .. Len(changes) + 1 /\ user.failed \in 0 .. MaxFailed
      /\ user.otp \in 0 .. codes.made /\ user.locked \in 0 .. locks.made /\ user.last \in 0 .. clock
  BY <1>1 DEF UserOK
<1>5. UserOK(user)'
  <2>1. PICK m \in Int, n \in Int : m = Len(changes) + 1 /\ n = Len(changes') + 1 /\ m <= n
    BY DEF PersonGrows
  <2>2. user'.pass \in 1 .. Len(changes') + 1
    <3>1. user'.pass \in 1 .. m
      BY <1>4, <2>1
    <3>2. user'.pass \in 1 .. n
      BY <2>1, <3>1, UpTo
    <3>. QED
      BY <2>1, <3>2
  <2>3. user'.failed \in 0 .. MaxFailed
    <3>1. user'.failed \in {0, user.failed} /\ user.failed \in 0 .. MaxFailed
      BY <1>4
    <3>2. 0 \in 0 .. MaxFailed
      BY SignInAssumption
    <3>. QED
      BY <3>1, <3>2
  <2>4. user'.otp \in 0 .. codes'.made
    <3>1. user.otp \in 0 .. codes'.made
      BY <1>4, InRange
    <3>. QED
      BY <3>1
  <2>5. user.locked \in 0 .. locks'.made /\ 0 \in 0 .. locks'.made
    BY <1>4, InRange
  <2>6. user.last \in 0 .. clock' /\ 0 \in 0 .. clock' /\ clock \in 0 .. clock'
    BY <1>4, InRange
  <2>. QED
    BY <2>2, <2>3, <2>4, <2>5, <2>6 DEF UserOK
<1>6. FailuresCounted(user)'
  BY <1>1, <1>2, SignInAssumption DEF FailuresCounted, PersonGrows
<1>. QED
  BY <1>5, <1>6 DEF UserPart

\* A request that writes the user row, codes and notices is over.
LEMMA UserStep ==
  ASSUME SInv, NEW w \in Workers, Done(w), PersonGrows, UserPart', Counters',
         worker[w].pc # "idle", worker[w].job.op \in UserOps, UNCHANGED <<web, devices, changes>>,
         UNCHANGED notes \/ \E kind, key : kind # "PASSWORD_CHANGED" /\ Notify(kind, key)
  PROVE  SInv'
<1>1. End(w) /\ UNCHANGED <<desk, evals>> /\ UNCHANGED evals
  BY DEF Done
<1>2. WebPart' /\ DevicePart' /\ ChangesPart'
  BY <1>1, WebSame, DevicesSame, ChangesSame
<1>3. \A b \in Browsers : WebKept(b)
  BY DEF WebKept
<1>. QED
  BY <1>1, <1>2, <1>3, UserEnd

\* Codes are numbered.
LEMMA GenerateOtpIs ==
  ASSUME SInv, GenerateOtp, UNCHANGED <<locks, clock, fails, records, changes>>
  PROVE  PersonGrows /\ UserPart' /\ Counters'
<1>1. Counters /\ codes \in [made : Nat, aged : Nat] /\ user \in UserRows
  BY Parts DEF Counters, UserPart, UserOK
<1>2. PICK n \in Nat : n = codes.made + 1 /\ codes.made \in Nat
  BY <1>1
<1>3. user' = [user EXCEPT !.otp = n] /\ codes' = [codes EXCEPT !.made = n]
  BY <1>2 DEF GenerateOtp
<1>4. codes' \in [made : Nat, aged : Nat] /\ codes'.made = n /\ codes'.aged = codes.aged
  BY <1>1, <1>2, <1>3
<1>5. PersonGrows
  <2>1. PersonRows /\ Len(changes) \in Nat
    BY SInvIs, LenProperties DEF PersonRows
  <2>2. locks.made \in Nat /\ clock \in Nat /\ fails \in Nat
    BY <1>1 DEF Counters
  <2>. QED
    BY <1>2, <1>4, <2>1, <2>2 DEF PersonGrows
<1>6. Counters'
  BY <1>1, <1>2, <1>4 DEF Counters
<1>7. user' \in UserRows
  BY <1>1, <1>2, <1>3 DEF UserRows
<1>8. /\ user'.pass = user.pass /\ user'.failed = user.failed /\ user'.locked = user.locked
      /\ user'.otp = n /\ user'.last = user.last
  BY <1>1, <1>3 DEF UserRows
<1>9. UserPart'
  BY <1>2, <1>4, <1>5, <1>7, <1>8, UserWritten
<1>. QED
  BY <1>5, <1>6, <1>9

LEMMA StartMfaStep == ASSUME SInv, NEW w \in Workers, StartMfa(w) PROVE SInv'
<1>1. /\ GenerateOtp /\ Done(w) /\ worker[w].pc = "begun" /\ worker[w].job.op = "mfa_start"
      /\ UNCHANGED <<locks, clock, fails, records, changes>> /\ UNCHANGED <<web, devices, changes>> /\ UNCHANGED notes
  BY DEF StartMfa, At
<1>2. PersonGrows /\ UserPart' /\ Counters'
  BY <1>1, GenerateOtpIs
<1>3. worker[w].job.op \in UserOps
  BY <1>1 DEF UserOps, PageOps
<1>. QED
  BY <1>1, <1>2, <1>3, UserStep

\* A request that leaves the counters alone.
LEMMA UserRowStep ==
  ASSUME SInv, NEW w \in Workers, Done(w), worker[w].pc # "idle", worker[w].job.op \in UserOps,
         NEW row \in UserRows, user' = row, row.pass = user.pass, row.failed \in {0, user.failed},
         row.locked \in {0, user.locked}, row.otp \in {0, user.otp}, row.last \in {0, user.last, clock},
         UNCHANGED <<codes, locks, clock, fails, records, web, devices, changes>>,
         UNCHANGED notes \/ \E kind, key : kind # "PASSWORD_CHANGED" /\ Notify(kind, key)
  PROVE  SInv'
<1>1. PersonGrows /\ Counters'
  BY SInvIs, PersonSame, CountersSame
<1>2. row.otp = user.otp \/ row.otp \in 0 .. codes'.made
  BY <1>1 DEF PersonGrows
<1>3. UserPart'
  BY <1>1, <1>2, UserWritten
<1>. QED
  BY <1>1, <1>3, UserStep

LEMMA UserIs == ASSUME SInv PROVE user \in UserRows
BY Parts DEF UserPart, UserOK

LEMMA ConfirmMfaStep == ASSUME SInv, NEW w \in Workers, ConfirmMfa(w) PROVE SInv'
<1>. DEFINE seen == worker[w].seen
<1>1. /\ Done(w) /\ worker[w].pc = "begun" /\ worker[w].job.op = "mfa_confirm"
      /\ UNCHANGED <<codes, locks, clock, fails, records, web, devices, changes>>
  BY DEF ConfirmMfa, At
<1>2. PICK c \in 0 .. codes.made :
        /\ user' = [user EXCEPT !.otp = IF OtpCleared(seen, c) THEN 0 ELSE @, !.mfa = @ \/ OtpOk(seen, c)]
        /\ IF OtpOk(seen, c) THEN Notify("MFA_ENABLED", "user") ELSE notes' = notes
  BY DEF ConfirmMfa
<1>. DEFINE mfa == user.mfa \/ OtpOk(seen, c)
            otp == IF OtpCleared(seen, c) THEN 0 ELSE user.otp
            row == [user EXCEPT !.otp = otp, !.mfa = mfa]
<1>3. user' = row
  BY <1>2
<1>4. mfa \in BOOLEAN
  BY UserIs DEF UserRows
<1>5. otp \in {0, user.otp} /\ otp \in Nat
  BY UserIs DEF UserRows
<1>. HIDE DEF mfa, otp
<1>6. row \in UserRows
  BY <1>4, <1>5, UserIs DEF UserRows
<1>7. /\ row.pass = user.pass /\ row.failed = user.failed /\ row.locked = user.locked
      /\ row.otp = otp /\ row.last = user.last
  BY UserIs DEF UserRows
<1>8. UNCHANGED notes \/ \E kind, key : kind # "PASSWORD_CHANGED" /\ Notify(kind, key)
  BY <1>2
<1>9. worker[w].job.op \in UserOps
  BY <1>1 DEF UserOps, PageOps
<1>. HIDE DEF row
<1>. QED
  BY <1>1, <1>3, <1>5, <1>6, <1>7, <1>8, <1>9, UserRowStep

LEMMA StartTotpStep == ASSUME SInv, NEW w \in Workers, StartTotp(w) PROVE SInv'
<1>. DEFINE row == [user EXCEPT !.totp = 1, !.last = 0]
<1>1. /\ Done(w) /\ worker[w].pc = "begun" /\ worker[w].job.op = "totp_start" /\ user' = row
      /\ UNCHANGED <<codes, locks, clock, fails, records, web, devices, changes>> /\ UNCHANGED notes
  BY DEF StartTotp, At
<1>2. row \in UserRows
  BY UserIs DEF UserRows
<1>3. /\ row.pass = user.pass /\ row.failed = user.failed /\ row.locked = user.locked
      /\ row.otp = user.otp /\ row.last = 0
  BY UserIs DEF UserRows
<1>4. worker[w].job.op \in UserOps
  BY <1>1 DEF UserOps, PageOps
<1>. HIDE DEF row
<1>. QED
  BY <1>1, <1>2, <1>3, <1>4, UserRowStep

LEMMA ConfirmTotpStep == ASSUME SInv, NEW w \in Workers, ConfirmTotp(w) PROVE SInv'
<1>. DEFINE yes == TRUE
            row == [user EXCEPT !.mfa = yes]
<1>1. /\ Done(w) /\ worker[w].pc = "begun" /\ worker[w].job.op = "totp_confirm"
      /\ UNCHANGED <<codes, locks, clock, fails, records, web, devices, changes>>
      /\ (user' = row /\ Notify("MFA_ENABLED", "user")) \/ UNCHANGED <<user, notes>>
  BY DEF ConfirmTotp, At
<1>2. worker[w].job.op \in UserOps
  BY <1>1 DEF UserOps, PageOps
<1>3. yes \in BOOLEAN
  OBVIOUS
<1>. HIDE DEF yes
<1>4. row \in UserRows
  BY <1>3, UserIs DEF UserRows
<1>5. /\ row.pass = user.pass /\ row.failed = user.failed /\ row.locked = user.locked
      /\ row.otp = user.otp /\ row.last = user.last
  BY UserIs DEF UserRows
<1>. HIDE DEF row
<1>6. CASE UNCHANGED <<user, notes>>
  BY <1>1, <1>2, <1>6, UserIs, UserRowStep
<1>7. CASE user' = row /\ Notify("MFA_ENABLED", "user")
  BY <1>1, <1>2, <1>4, <1>5, <1>7, UserRowStep
<1>. QED
  BY <1>1, <1>6, <1>7

LEMMA DisableMfaStep == ASSUME SInv, NEW w \in Workers, DisableMfa(w) PROVE SInv'
<1>. DEFINE no == FALSE
            row == [user EXCEPT !.mfa = no, !.otp = 0]
<1>1. /\ Done(w) /\ worker[w].pc = "begun" /\ worker[w].job.op = "mfa_disable"
      /\ UNCHANGED <<codes, locks, clock, fails, records, web, devices, changes>>
      /\ (user' = row /\ Notify("MFA_DISABLED", "user")) \/ UNCHANGED <<user, notes>>
  BY DEF DisableMfa, At
<1>2. worker[w].job.op \in UserOps
  BY <1>1 DEF UserOps, PageOps
<1>3. no \in BOOLEAN
  OBVIOUS
<1>. HIDE DEF no
<1>4. row \in UserRows
  BY <1>3, UserIs DEF UserRows
<1>5. /\ row.pass = user.pass /\ row.failed = user.failed /\ row.locked = user.locked
      /\ row.otp = 0 /\ row.last = user.last
  BY UserIs DEF UserRows
<1>. HIDE DEF row
<1>6. CASE UNCHANGED <<user, notes>>
  BY <1>1, <1>2, <1>6, UserIs, UserRowStep
<1>7. CASE user' = row /\ Notify("MFA_DISABLED", "user")
  BY <1>1, <1>2, <1>4, <1>5, <1>7, UserRowStep
<1>. QED
  BY <1>1, <1>6, <1>7

-----------------------------------------------------------------------------
(* Requests of the customer's begin, and time goes on.                       *)

LEMMA LoadsStep ==
  ASSUME SInv, NEW w \in Workers, NEW op \in UserOps,
         \/ Loads(w, op, LAMBDA b : ~SignedIn(b)) /\ op \notin {"code", "password"}
         \/ Loads(w, op, LAMBDA b : web[b].pend /\ (web[b].state = "pending" \/ SignedIn(b))) /\ op = "code"
         \/ Loads(w, op, SignedIn) /\ op # "code"
  PROVE  SInv'
<1>1. PICK j \in todo :
        /\ j.op = op /\ todo' = todo \ {j}
        /\ worker' = [worker EXCEPT ![w] = [pc |-> "begun", job |-> j, seen |-> user, eval |-> 0]]
  BY DEF Loads, Begin
<1>2. w \in DOMAIN worker /\ j.by \in Browsers
  BY <1>1, SInvIs DEF Serving, JobOK
<1>3. worker'[w].job.by = j.by
  BY <1>1, <1>2
<1>4. UNCHANGED <<desk, evals, signVars>> /\ \A x \in Workers \ {w} : worker[x].pc # "idle" => worker[x].job.by # j.by
  BY <1>3 DEF Loads, Browser
<1>5. /\ j.op = "code" => web[j.by].state # "out"
      /\ j.op = "password" => web[j.by].state = "in"
  BY <1>1, <1>3 DEF Loads, SignedIn
<1>6. /\ j.op \in {"code", "password"} => Accepted(web[j.by].eval)
      /\ j.op = "password" => Earned(web[j.by])
  BY <1>2, <1>5, Parts DEF WebPart, WebOK
<1>7. j.op \notin RuleOps \cup {"version", "alert", "claim", "move"}
  BY <1>1 DEF UserOps, PageOps, RuleOps
<1>. QED
  BY <1>1, <1>4, <1>6, <1>7, BeginStep

LEMMA UserBegins ==
  ASSUME SInv, NEW w \in Workers, BeginLogin(w) \/ BeginCode(w) \/ BeginPage(w)
  PROVE  SInv'
<1>1. CASE BeginLogin(w)
  BY <1>1, LoadsStep DEF BeginLogin, UserOps
<1>2. CASE BeginCode(w)
  BY <1>2, LoadsStep DEF BeginCode, UserOps
<1>3. CASE BeginPage(w)
  <2>1. PICK op \in PageOps : Loads(w, op, SignedIn)
    BY <1>3 DEF BeginPage
  <2>2. op \in UserOps /\ op # "code"
    BY DEF UserOps, PageOps
  <2>. QED
    BY <2>1, <2>2, LoadsStep
<1>. QED
  BY <1>1, <1>2, <1>3

LEMMA SetPreferenceStep == ASSUME SInv, NEW w \in Workers, SetPreference(w) PROVE SInv'
<1>1. /\ Done(w) /\ worker[w].pc = "begun" /\ worker[w].job.op = "prefer" /\ UNCHANGED user
      /\ UNCHANGED <<codes, locks, clock, fails, records, web, devices, changes>> /\ UNCHANGED notes
  BY DEF SetPreference, At
<1>2. worker[w].job.op \in UserOps
  BY <1>1 DEF UserOps, PageOps
<1>. QED
  BY <1>1, <1>2, UserIs, UserRowStep

LEMMA ChangeDeviceStep == ASSUME SInv, NEW w \in Workers, ChangeDevice(w) PROVE SInv'
<1>1. /\ Done(w) /\ worker[w].pc = "begun" /\ worker[w].job.op \in {"trust", "untrust", "revoke"}
      /\ UNCHANGED <<user, changes, codes, locks, clock, fails, records>> /\ UNCHANGED <<web, changes>> /\ UNCHANGED notes
  BY DEF ChangeDevice, At
<1>2. End(w) /\ UNCHANGED <<desk, evals>> /\ UNCHANGED evals /\ UNCHANGED web
  BY <1>1 DEF Done
<1>3. worker[w].job.op \in UserOps
  BY <1>1 DEF UserOps, PageOps
<1>4. PersonGrows
  BY <1>1, SInvIs, PersonSame
<1>5. UserPart' /\ Counters' /\ WebPart' /\ ChangesPart'
  BY <1>1, <1>2, <1>4, UserSame, CountersSame, WebSame, ChangesSame
<1>6. DevicePart'
  BY Parts DEF DevicePart, ChangeDevice
<1>7. \A b \in Browsers : WebKept(b)
  BY <1>2 DEF WebKept
<1>. QED
  BY <1>1, <1>2, <1>3, <1>4, <1>5, <1>6, <1>7, UserEnd

-----------------------------------------------------------------------------
(* Sessions.                                                                 *)

LEMMA OutOK == ASSUME Len(evals) \in Nat PROVE WebOK(Out)
<1>. DEFINE no == FALSE
            out == [state |-> "out", eval |-> 0, tries |-> 0, pass |-> 0, mfa |-> no, coded |-> no,
                    pend |-> no, bound |-> no]
<1>1. no \in BOOLEAN
  OBVIOUS
<1>2. Out = out
  BY DEF Out
<1>. HIDE DEF no
<1>3. out \in WebRows
  BY <1>1, SignInAssumption DEF WebRows
<1>4. out.state = "out" /\ out.eval = 0
  OBVIOUS
<1>. HIDE DEF out
<1>5. WebOK(out)
  BY <1>3, <1>4 DEF WebOK
<1>. QED
  BY <1>2, <1>5

LEMMA EvalsCount == ASSUME SInv PROVE Len(evals) \in Nat
BY SInvIs, LenProperties DEF DeskRows

LEMMA WebWritten ==
  ASSUME SInv, UNCHANGED evals, NEW b \in Browsers, NEW row, WebOK(row), web' = [web EXCEPT ![b] = row]
  PROVE  WebPart' /\ \A x \in Browsers : x = b \/ WebKept(x)
<1>1. WebPart
  BY Parts
<1>2. DOMAIN web' = Browsers /\ \A x \in Browsers : web'[x] = IF x = b THEN row ELSE web[x]
  BY <1>1 DEF WebPart
<1>3. web' = [x \in Browsers |-> web'[x]]
  BY <1>1 DEF WebPart
<1>4. \A x \in Browsers : WebOK(web'[x])
  BY <1>1, <1>2 DEF WebPart
<1>5. WebPart'
  BY <1>2, <1>3, <1>4 DEF WebPart, WebOK, Accepted, Earned, Settled
<1>. QED
  BY <1>2, <1>5 DEF WebKept

\* Sessions end, and what a request of them is doing goes on.
LEMMA SessionsEnd ==
  ASSUME SInv, NEW w \in Workers, Done(w), worker[w].pc # "idle", worker[w].job.op \in UserOps,
         UNCHANGED <<user, codes, locks, clock, fails, records, devices, changes, notes>>,
         DOMAIN web' = Browsers, web' = [b \in Browsers |-> web'[b]],
         \A b \in Browsers : b = Browser(w) \/ WebKept(b), \A b \in Browsers : WebOK(web'[b])
  PROVE  SInv'
<1>1. End(w) /\ UNCHANGED <<desk, evals>> /\ UNCHANGED evals
  BY DEF Done
<1>2. PersonGrows
  BY SInvIs, PersonSame
<1>3. UserPart' /\ Counters' /\ DevicePart' /\ ChangesPart'
  BY <1>1, <1>2, UserSame, CountersSame, DevicesSame, ChangesSame
<1>4. WebPart'
  BY <1>1 DEF WebPart, WebOK, Accepted, Earned, Settled
<1>. QED
  BY <1>1, <1>2, <1>3, <1>4, UserEnd

LEMMA RevokeSessionsStep == ASSUME SInv, NEW w \in Workers, RevokeSessions(w) PROVE SInv'
<1>1. /\ Done(w) /\ worker[w].pc = "begun" /\ worker[w].job.op = "sessions"
      /\ UNCHANGED <<user, codes, locks, clock, fails, records, devices, changes, notes>>
  BY DEF RevokeSessions, At
<1>2. PICK gone : web' = [b \in Browsers |-> IF b \in gone THEN [web[b] EXCEPT !.state = "out"] ELSE web[b]]
  BY DEF RevokeSessions
<1>3. worker[w].job.op \in UserOps
  BY <1>1 DEF UserOps, PageOps
<1>4. ASSUME NEW b \in Browsers PROVE WebKept(b) /\ WebOK(web'[b])
  <2>1. PICK row : row = web[b]
    OBVIOUS
  <2>2. WebOK(row) /\ row \in WebRows
    BY <2>1, Parts DEF WebPart, WebOK
  <2>. DEFINE gone_ == [row EXCEPT !.state = "out"]
  <2>3. /\ gone_ \in WebRows /\ gone_.state = "out" /\ gone_.eval = row.eval
        /\ gone_.mfa = row.mfa /\ gone_.coded = row.coded
    BY <2>2 DEF WebRows
  <2>4. web'[b] = gone_ \/ web'[b] = row
    BY <1>2, <2>1
  <2>. HIDE DEF gone_
  <2>5. WebOK(gone_)
    BY <2>2, <2>3 DEF WebOK
  <2>. QED
    BY <2>1, <2>2, <2>3, <2>4, <2>5 DEF WebKept
<1>5. DOMAIN web' = Browsers /\ web' = [b \in Browsers |-> web'[b]]
  BY <1>2
<1>. QED
  BY <1>1, <1>3, <1>4, <1>5, SessionsEnd

LEMMA LogoutStep == ASSUME SInv, NEW w \in Workers, Logout(w) PROVE SInv'
<1>1. /\ Done(w) /\ worker[w].pc = "begun" /\ worker[w].job.op = "logout"
      /\ UNCHANGED <<user, codes, locks, clock, fails, records, devices, changes, notes>>
      /\ web' = [web EXCEPT ![Browser(w)] = Out]
  BY DEF Logout, At
<1>2. worker[w].job.op \in UserOps
  BY <1>1 DEF UserOps, PageOps
<1>3. UNCHANGED evals /\ Browser(w) \in Browsers
  BY <1>1, <1>2, UserHeld DEF Done
<1>4. WebOK(Out)
  BY OutOK, EvalsCount
<1>5. WebPart' /\ \A b \in Browsers : b = Browser(w) \/ WebKept(b)
  BY <1>1, <1>3, <1>4, WebWritten
<1>6. PersonGrows
  BY <1>1, SInvIs, PersonSame
<1>7. UserPart' /\ Counters' /\ DevicePart' /\ ChangesPart'
  BY <1>1, <1>3, <1>6, UserSame, CountersSame, DevicesSame, ChangesSame
<1>8. End(w) /\ UNCHANGED <<desk, evals>>
  BY <1>1 DEF Done
<1>. QED
  BY <1>1, <1>2, <1>5, <1>6, <1>7, <1>8, UserEnd

\* A session begins without a code that was not asked for, or with the code.
LEMMA SessionIs ==
  ASSUME SInv, NEW w \in Workers, worker[w].pc # "idle", worker[w].job.op \in UserOps, NEW c \in BOOLEAN,
         c => Accepted(web[Browser(w)].eval),
         ~c => /\ worker[w].pc = "decided" /\ evals[worker[w].eval].outcome # "BLOCK"
               /\ ~NeedsCode(worker[w].seen, evals[worker[w].eval].outcome)
  PROVE  WebOK(Session(w, c))
<1>. DEFINE held == web[Browser(w)]
            eval == IF c THEN held.eval ELSE worker[w].eval
            mfa  == IF c THEN held.mfa ELSE worker[w].seen.mfa
            pass == worker[w].seen.pass
            tries == IF c THEN 0 ELSE Kept(Browser(w))
            pend == ~c
            yes  == TRUE
            row  == [state |-> "in", eval |-> eval, tries |-> tries, pass |-> pass, mfa |-> mfa, coded |-> c,
                     pend |-> pend, bound |-> yes]
<1>1. Session(w, c) = row
  BY DEF Session
<1>2. Browser(w) \in Browsers /\ worker[w].seen \in UserRows
  BY UserHeld DEF UserOK
<1>3. WebOK(held) /\ held \in WebRows
  BY <1>2, Parts DEF WebPart, WebOK
<1>4. mfa \in BOOLEAN /\ pass \in Nat /\ pend \in BOOLEAN /\ yes \in BOOLEAN
  BY <1>2, <1>3 DEF UserRows, WebRows
<1>5. Accepted(eval) /\ eval \in Nat /\ eval <= Len(evals)
  <2>1. CASE c
    BY <1>3, <2>1 DEF WebOK, WebRows
  <2>2. CASE ~c
    <3>1. Accepted(eval) /\ eval \in 0 .. Len(evals)
      BY <2>2, UserHeld DEF Accepted
    <3>. QED
      BY <3>1, EvalsCount
  <2>. QED
    BY <2>1, <2>2
<1>6. ~c => evals[eval].outcome # "CHALLENGE" /\ ~mfa
  BY DEF NeedsCode
<1>7. tries \in 0 .. MaxTries
  BY <1>3, SignInAssumption DEF Kept, WebRows
<1>. HIDE DEF mfa, eval, pass, tries, pend, yes
<1>8. row \in WebRows
  BY <1>4, <1>5, <1>7 DEF WebRows
<1>9. row.state = "in" /\ row.eval = eval /\ row.mfa = mfa /\ row.coded = c
  OBVIOUS
<1>. HIDE DEF row
<1>10. WebOK(row)
  BY <1>5, <1>6, <1>8, <1>9 DEF WebOK, Earned, Accepted
<1>. QED
  BY <1>1, <1>10

LEMMA FinishLoginStep == ASSUME SInv, NEW w \in Workers, FinishLogin(w) PROVE SInv'
<1>. DEFINE b == Browser(w)
            seen == worker[w].seen
            e == worker[w].eval
            action == evals[e].outcome
            held == [Out EXCEPT !.state = "pending", !.eval = e, !.tries = Kept(b), !.mfa = seen.mfa,
                       !.pend = TRUE]
<1>1. /\ Done(w) /\ worker[w].pc = "decided" /\ worker[w].job.op = "login"
      /\ UNCHANGED <<locks, clock, fails, records, changes>> /\ UNCHANGED devices /\ UNCHANGED notes
  BY DEF FinishLogin, At
<1>2. End(w) /\ UNCHANGED <<desk, evals>> /\ UNCHANGED evals /\ worker[w].pc # "idle"
  BY <1>1 DEF Done
<1>3. worker[w].job.op \in UserOps
  BY <1>1 DEF UserOps
<1>4. /\ b \in Browsers /\ seen \in UserRows /\ Settled(e) /\ e \in 0 .. Len(evals)
      /\ action \in {"ALLOW", "CHALLENGE", "BLOCK"}
  BY <1>1, <1>3, UserHeld DEF UserOK
<1>5. DevicePart' /\ ChangesPart'
  BY <1>1, <1>2, DevicesSame, ChangesSame
<1>6. PersonGrows /\ UserPart' /\ Counters'
  <2>1. CASE GenerateOtp
    BY <1>1, <2>1, GenerateOtpIs
  <2>2. CASE UNCHANGED <<user, codes>>
    <3>1. PersonGrows
      BY <1>1, <2>2, SInvIs, PersonSame
    <3>. QED
      BY <1>1, <2>2, <3>1, UserSame, CountersSame
  <2>. QED
    BY <2>1, <2>2 DEF FinishLogin
<1>7. WebPart' /\ \A x \in Browsers : x = b \/ WebKept(x)
  <2>1. CASE UNCHANGED web
    BY <1>2, <2>1, WebSame DEF WebKept
  <2>2. CASE action # "BLOCK" /\ web' = [web EXCEPT ![b] = held]
    <3>. DEFINE tries == Kept(b)
                mfa == seen.mfa
    <3>1. PICK yes \in BOOLEAN : yes = TRUE
      OBVIOUS
    <3>2. PICK out \in WebRows : out = Out
      BY OutOK, EvalsCount DEF WebOK
    <3>. DEFINE row == [out EXCEPT !.state = "pending", !.eval = e, !.tries = tries, !.mfa = mfa,
                          !.pend = yes]
    <3>3. held = row
      BY <3>1, <3>2
    <3>4. mfa \in BOOLEAN
      BY <1>4 DEF UserRows
    <3>5. tries \in 0 .. MaxTries
      BY <1>4, SignInAssumption, Parts DEF Kept, WebPart, WebOK, WebRows
    <3>6. e \in Nat /\ e <= Len(evals)
      BY <1>4, EvalsCount
    <3>. HIDE DEF tries, mfa, e
    <3>7. row \in WebRows /\ row.state = "pending" /\ row.eval = e
      BY <3>2, <3>4, <3>5, <3>6 DEF WebRows
    <3>. HIDE DEF row
    <3>8. action \in {"ALLOW", "CHALLENGE"}
      BY <1>4, <2>2
    <3>9. WebOK(row)
      BY <1>4, <3>6, <3>7, <3>8 DEF WebOK, Accepted, e
    <3>. QED
      BY <1>2, <1>4, <2>2, <3>3, <3>9, WebWritten
  <2>3. CASE action # "BLOCK" /\ ~NeedsCode(seen, action) /\ web' = [web EXCEPT ![b] = Session(w, FALSE)]
    <3>1. PICK c \in BOOLEAN : ~c /\ c = FALSE
      OBVIOUS
    <3>2. WebOK(Session(w, c)) /\ web' = [web EXCEPT ![b] = Session(w, c)]
      BY <1>1, <1>3, <2>3, <3>1, SessionIs
    <3>. QED
      BY <1>2, <1>4, <3>2, WebWritten
  <2>. QED
    BY <2>1, <2>2, <2>3 DEF FinishLogin
<1>. QED
  BY <1>2, <1>3, <1>5, <1>6, <1>7, UserEnd

\* A wrong code counts, ends the wait for one, or finds the session gone.
LEMMA WrongCodeIs == ASSUME SInv, NEW b \in Browsers PROVE WebOK(WrongCode(b))
<1>1. PICK row : row = web[b]
  OBVIOUS
<1>2. WebOK(row) /\ row \in WebRows
  BY <1>1, Parts DEF WebPart, WebOK
<1>3. PICK no \in BOOLEAN : no = FALSE
  OBVIOUS
<1>. DEFINE counted(n) == [row EXCEPT !.tries = n]
            ended == [row EXCEPT !.tries = 0, !.pend = no]
<1>4. ASSUME NEW n \in 0 .. MaxTries PROVE WebOK(counted(n))
  <2>1. counted(n) \in WebRows
    BY <1>2, <1>4 DEF WebRows
  <2>2. /\ counted(n).state = row.state /\ counted(n).eval = row.eval
        /\ counted(n).mfa = row.mfa /\ counted(n).coded = row.coded
    BY <1>2 DEF WebRows
  <2>. QED
    BY <1>2, <2>1, <2>2 DEF WebOK, Earned
<1>5. WebOK(ended)
  <2>1. 0 \in 0 .. MaxTries
    BY SignInAssumption
  <2>2. ended \in WebRows
    BY <1>2, <1>3, <2>1 DEF WebRows
  <2>3. /\ ended.state = row.state /\ ended.eval = row.eval
        /\ ended.mfa = row.mfa /\ ended.coded = row.coded
    BY <1>2 DEF WebRows
  <2>. QED
    BY <1>2, <2>2, <2>3 DEF WebOK, Earned
<1>6. WebOK(Out)
  BY OutOK, EvalsCount
<1>7. row.tries \in 0 .. MaxTries /\ row.state \in {"out", "pending", "in"} /\ MaxTries \in Nat
  BY <1>2, SignInAssumption DEF WebRows
<1>. DEFINE n == row.tries + 1
<1>8. n \in Int /\ (n < MaxTries => n \in 0 .. MaxTries) /\ (n < MaxTries \/ n >= MaxTries)
  BY <1>7
<1>9. WrongCode(b) = CASE row.state = "out" -> row
                       [] row.state # "out" /\ n < MaxTries -> counted(n)
                       [] row.state = "in" /\ n >= MaxTries -> ended
                       [] row.state = "pending" /\ n >= MaxTries -> Out
  BY <1>1, <1>3 DEF WrongCode
<1>10. n < MaxTries => WebOK(counted(n))
  BY <1>4, <1>8
<1>. HIDE DEF n, counted, ended
<1>11. ~(n < MaxTries /\ n >= MaxTries)
  BY <1>7, <1>8
<1>. QED
  BY <1>2, <1>5, <1>6, <1>7, <1>8, <1>9, <1>10, <1>11

LEMMA VerifyCodeStep == ASSUME SInv, NEW w \in Workers, VerifyCode(w) PROVE SInv'
<1>. DEFINE b == Browser(w)
            seen == worker[w].seen
<1>1. /\ Done(w) /\ worker[w].pc = "begun" /\ worker[w].job.op = "code"
      /\ UNCHANGED <<changes, codes, locks, clock, fails, records>> /\ UNCHANGED devices /\ UNCHANGED notes
  BY DEF VerifyCode, At
<1>2. End(w) /\ UNCHANGED <<desk, evals>> /\ UNCHANGED evals /\ worker[w].pc # "idle"
  BY <1>1 DEF Done
<1>3. worker[w].job.op \in UserOps
  BY <1>1 DEF UserOps
<1>4. b \in Browsers /\ Accepted(web[b].eval)
  BY <1>1, <1>3, UserHeld
<1>5. DevicePart' /\ ChangesPart' /\ PersonGrows /\ Counters'
  BY <1>1, <1>2, SInvIs, PersonSame, DevicesSame, ChangesSame, CountersSame
<1>6. PICK t \in Typed :
        /\ user' = AfterCode(user, seen, t)
        /\ web' = [web EXCEPT ![b] = IF CodeOk(seen, t) THEN Session(w, TRUE) ELSE WrongCode(b)]
  BY DEF VerifyCode
<1>7. UserPart'
  <2>. DEFINE otp == IF OtpCleared(seen, t[1]) THEN 0 ELSE user.otp
              last == IF ~OtpOk(seen, t[1]) /\ TotpOk(seen, t[2], TRUE) THEN clock ELSE user.last
              row == [user EXCEPT !.otp = otp, !.last = last]
  <2>1. user' = row
    BY <1>6 DEF AfterCode
  <2>2. user \in UserRows /\ user.otp \in Nat /\ user.last \in Nat /\ clock \in Nat
    BY <1>5, UserIs DEF UserRows, PersonGrows
  <2>3. otp \in {0, user.otp} /\ last \in {0, user.last, clock} /\ otp \in Nat /\ last \in Nat
    BY <2>2
  <2>. HIDE DEF otp, last
  <2>4. row \in UserRows
    BY <2>2, <2>3 DEF UserRows
  <2>5. /\ row.pass = user.pass /\ row.failed = user.failed /\ row.locked = user.locked
        /\ row.otp = otp /\ row.last = last
    BY <2>2 DEF UserRows
  <2>. HIDE DEF row
  <2>6. user'.otp = user.otp \/ user'.otp \in 0 .. codes'.made
    BY <1>5, <2>1, <2>3, <2>5 DEF PersonGrows
  <2>. QED
    BY <1>5, <2>1, <2>3, <2>4, <2>5, <2>6, UserWritten
<1>8. WebPart' /\ \A x \in Browsers : x = b \/ WebKept(x)
  <2>1. PICK c \in BOOLEAN : c /\ c = TRUE
    OBVIOUS
  <2>2. WebOK(Session(w, c))
    BY <1>2, <1>3, <1>4, <2>1, SessionIs
  <2>3. PICK row : row = (IF CodeOk(seen, t) THEN Session(w, c) ELSE WrongCode(b))
    OBVIOUS
  <2>4. WebOK(row) /\ web' = [web EXCEPT ![b] = row]
    BY <1>4, <1>6, <2>1, <2>2, <2>3, WrongCodeIs
  <2>. QED
    BY <1>2, <1>4, <2>4, WebWritten
<1>. QED
  BY <1>2, <1>3, <1>5, <1>7, <1>8, UserEnd

-----------------------------------------------------------------------------
(* Passwords.                                                                *)

\* A request goes on with the instance s.
LEMMA GotoStep ==
  ASSUME SInv, NEW w \in Workers,
         NEW pc \in {"known", "unknown", "failed", "device", "coded", "saved", "recorded"}, NEW s,
         Goto(w, pc, s), UserOK(s)', FailuresCounted(s)', worker[w].pc # "idle",
         worker[w].job.op \in UserOps, UNCHANGED web, PersonRows', PersonGrows,
         pc = "coded" => worker[w].pc = "decided" /\ evals[worker[w].eval].outcome = "CHALLENGE",
         pc \in {"saved", "recorded"} => s.pass > 1
  PROVE  SInv'
<1>1. PICK u : u = worker[w]
  OBVIOUS
<1>. DEFINE v == [u EXCEPT !.pc = pc, !.seen = s]
<1>2. worker' = [worker EXCEPT ![w] = v] /\ todo' = todo /\ UNCHANGED <<desk, evals>>
  BY <1>1 DEF Goto
<1>3. DeskRows /\ WorkerOK(u)
  BY <1>1, SInvIs DEF Serving
<1>4. DOMAIN u = {"pc", "job", "seen", "eval"}
  BY <1>3 DEF WorkerOK, DeskWorker, Idle
<1>5. v.pc = pc /\ v.eval = u.eval /\ v.job = u.job /\ v.seen = s /\ DOMAIN v = DOMAIN u
  BY <1>4
<1>. HIDE DEF v
<1>6. UNCHANGED <<rules, cases>> /\ UNCHANGED evals
  BY <1>2 DEF desk
<1>7. DeskRows' /\ Grow
  BY <1>2, <1>3, <1>6, DeskRowsSame, RulesSame, EvalsSame DEF Grow
<1>8. v.pc \notin {"idle", "evaluating", "decided"}
  BY <1>5
<1>9. v.pc = "coded" => /\ v.eval \in DOMAIN evals' /\ evals'[v.eval].status # "EVALUATING"
                        /\ evals'[v.eval].op \in {"LOGIN", "PASSWORD_CHANGE"}
                        /\ evals'[v.eval].outcome = "CHALLENGE"
  BY <1>1, <1>5, <1>6, UserHeld DEF Settled
<1>10. UserOK(v.seen)' /\ FailuresCounted(v.seen)' /\ (v.pc \in {"saved", "recorded"} => v.seen.pass > 1)
  BY <1>5
<1>. QED
  BY <1>1, <1>2, <1>5, <1>6, <1>7, <1>8, <1>9, <1>10, UserMoves

\* A saved password is the next one, and what justified it is kept.
LEMMA SavePasswordStep ==
  ASSUME SInv, NEW w \in Workers, worker[w].pc \in {"decided", "coded"}, worker[w].job.op = "password",
         NEW c \in BOOLEAN, SavePassword(w, c),
         \/ evals[worker[w].eval].outcome = "ALLOW"
         \/ evals[worker[w].eval].outcome = "CHALLENGE" /\ c,
         UNCHANGED <<locks, clock, fails, records, web, devices, notes>>
  PROVE  SInv'
<1>1. Counters /\ ChangesPart /\ worker[w].job.op \in UserOps
  BY Parts DEF UserOps, PageOps
<1>2. /\ Settled(worker[w].eval) /\ worker[w].eval \in 0 .. Len(evals)
      /\ UserOK(worker[w].seen) /\ FailuresCounted(worker[w].seen)
  BY <1>1, UserHeld
<1>3. changes \in Seq([eval : Nat, coded : BOOLEAN]) /\ Len(changes) \in Nat
  BY <1>1, LenProperties DEF ChangesPart
<1>4. PICK n \in Nat : n = Len(changes) + 2
  BY <1>3
<1>5. PICK e \in Nat : e = worker[w].eval
  BY <1>2, EvalsCount
<1>6. PICK seen : seen = worker[w].seen
  OBVIOUS
<1>. DEFINE q == [eval |-> e, coded |-> c]
            row == [seen EXCEPT !.pass = n]
<1>7. /\ user' = row /\ changes' = Append(changes, q) /\ UNCHANGED codes /\ Goto(w, "saved", row)
  BY <1>4, <1>5, <1>6 DEF SavePassword
<1>8. UNCHANGED evals
  BY <1>7 DEF Goto
<1>9. q \in [eval : Nat, coded : BOOLEAN] /\ q.eval = e /\ q.coded = c
  OBVIOUS
<1>10. seen \in UserRows
  BY <1>2, <1>6 DEF UserOK
<1>11. /\ row \in UserRows /\ row.pass = n /\ row.failed = seen.failed /\ row.locked = seen.locked
       /\ row.otp = seen.otp /\ row.last = seen.last
  BY <1>10 DEF UserRows
<1>. HIDE DEF q, row
<1>12. /\ changes' \in Seq([eval : Nat, coded : BOOLEAN])
       /\ DOMAIN changes' = DOMAIN changes \cup {Len(changes) + 1}
       /\ \A x \in DOMAIN changes : changes'[x] = changes[x]
       /\ changes'[Len(changes) + 1] = q
  BY <1>3, <1>7, <1>9, RowAdded
<1>13. Len(changes') = Len(changes) + 1
  BY <1>3, <1>7, <1>9, AppendProperties
<1>14. PersonGrows
  <2>1. codes.made \in Nat /\ locks.made \in Nat /\ clock \in Nat /\ fails \in Nat
    BY <1>1 DEF Counters
  <2>. QED
    BY <1>3, <1>7, <1>13, <2>1 DEF PersonGrows
<1>15. Counters' /\ WebPart' /\ DevicePart'
  BY <1>7, <1>8, CountersSame, WebSame, DevicesSame
<1>16. UserOK(row)' /\ FailuresCounted(row)'
  <2>1. UserOK(seen)' /\ FailuresCounted(seen)'
    BY <1>2, <1>6, <1>14, UserKept
  <2>2. n \in 1 .. Len(changes') + 1
    BY <1>3, <1>4, <1>13
  <2>3. UserOK(row)'
    BY <1>11, <2>1, <2>2 DEF UserOK
  <2>4. FailuresCounted(row)'
    BY <1>11, <2>1 DEF FailuresCounted
  <2>. QED
    BY <2>3, <2>4
<1>17. UserPart'
  <2>1. PICK r : r = row
    OBVIOUS
  <2>2. UserOK(r)' /\ FailuresCounted(r)' /\ user' = r
    BY <1>7, <1>16, <2>1
  <2>. QED
    BY <2>2 DEF UserPart, UserOK, FailuresCounted
<1>18. ChangesPart'
  <2>1. \A x \in DOMAIN changes : Settled(changes[x].eval)
    BY <1>1 DEF ChangesPart, ChangesInv
  <2>2. \A x \in DOMAIN changes' : Settled(changes[x].eval)'
    <3>1. changes'[Len(changes) + 1].eval = worker[w].eval
      BY <1>5, <1>9, <1>12
    <3>. QED
      BY <1>2, <1>8, <1>12, <2>1, <3>1 DEF Settled
  <2>3. \A x \in DOMAIN changes' : \/ evals'[changes'[x].eval].outcome = "ALLOW"
                                   \/ evals'[changes'[x].eval].outcome = "CHALLENGE" /\ changes'[x].coded
    BY <1>1, <1>5, <1>8, <1>9, <1>12 DEF ChangesPart, PasswordJustified
  <2>4. \A x \in notes' : x[1] = "PASSWORD_CHANGED" => x[2] - 1 \in DOMAIN changes'
    BY <1>1, <1>12 DEF ChangesPart, PasswordJustified
  <2>5. ChangesInv'
    BY <2>2 DEF ChangesInv
  <2>6. PasswordJustified'
    BY <2>3, <2>4 DEF PasswordJustified
  <2>. QED
    BY <1>12, <2>5, <2>6 DEF ChangesPart
<1>19. PersonRows'
  BY <1>15, <1>17, <1>18, PersonAfter
<1>20. row.pass > 1
  BY <1>3, <1>4, <1>11
<1>. QED
  BY <1>1, <1>7, <1>14, <1>16, <1>19, <1>20, GotoStep

\* The code is used up: nothing else of the row changes.
LEMMA CodeUsed ==
  ASSUME SInv, NEW c, NEW seen, UNCHANGED <<codes, locks, clock, fails, records, changes>>,
         user' = [user EXCEPT !.otp = IF OtpCleared(seen, c) THEN 0 ELSE @]
  PROVE  PersonGrows /\ UserPart' /\ Counters'
<1>1. PICK otp : user' = [user EXCEPT !.otp = otp] /\ otp \in {0, user.otp}
  OBVIOUS
<1>2. PersonGrows /\ Counters'
  BY SInvIs, PersonSame, CountersSame
<1>3. user \in UserRows /\ user.otp \in Nat
  BY UserIs DEF UserRows
<1>4. user' \in UserRows
  BY <1>1, <1>3 DEF UserRows
<1>5. /\ user'.pass = user.pass /\ user'.failed = user.failed /\ user'.locked = user.locked
      /\ user'.otp = otp /\ user'.last = user.last
  BY <1>1, <1>3 DEF UserRows
<1>6. otp = user.otp \/ otp \in 0 .. codes'.made
  BY <1>1, <1>2 DEF PersonGrows
<1>7. UserPart'
  BY <1>2, <1>4, <1>5, <1>6, UserWritten
<1>. QED
  BY <1>2, <1>7

LEMMA DecideChangeStep == ASSUME SInv, NEW w \in Workers, DecideChange(w) PROVE SInv'
<1>. DEFINE seen == worker[w].seen
            action == evals[worker[w].eval].outcome
<1>1. /\ worker[w].pc = "decided" /\ worker[w].job.op = "password"
      /\ UNCHANGED <<locks, clock, fails, records, web, devices, notes>>
  BY DEF DecideChange, At
<1>2. worker[w].job.op \in UserOps
  BY <1>1 DEF UserOps, PageOps
<1>3. UserOK(seen) /\ FailuresCounted(seen) /\ seen \in UserRows
  BY <1>1, <1>2, UserHeld DEF UserOK
<1>4. CASE GenerateOtp /\ Done(w) /\ UNCHANGED changes
  <2>1. PersonGrows /\ UserPart' /\ Counters'
    BY <1>1, <1>4, GenerateOtpIs
  <2>. QED
    BY <1>1, <1>2, <1>4, <2>1, UserStep
<1>5. CASE /\ action = "CHALLENGE" /\ UNCHANGED <<codes, changes>>
           /\ \E c \in 0 .. codes.made :
                /\ user' = [user EXCEPT !.otp = IF OtpCleared(seen, c) THEN 0 ELSE @]
                /\ Goto(w, "coded", [seen EXCEPT !.otp = 0]) \/ Done(w)
  <2>1. PICK c : /\ user' = [user EXCEPT !.otp = IF OtpCleared(seen, c) THEN 0 ELSE @]
                 /\ Goto(w, "coded", [seen EXCEPT !.otp = 0]) \/ Done(w)
    BY <1>5
  <2>2. PersonGrows /\ UserPart' /\ Counters'
    BY <1>1, <1>5, <2>1, CodeUsed
  <2>3. CASE Done(w)
    BY <1>1, <1>2, <1>5, <2>2, <2>3, UserStep
  <2>4. CASE Goto(w, "coded", [seen EXCEPT !.otp = 0])
    <3>1. PICK row : row = [seen EXCEPT !.otp = 0]
      OBVIOUS
    <3>2. /\ row \in UserRows /\ row.pass = seen.pass /\ row.failed = seen.failed
          /\ row.locked = seen.locked /\ row.otp = 0 /\ row.last = seen.last
      BY <1>3, <3>1 DEF UserRows
    <3>3. 0 \in 0 .. codes.made
      BY Parts DEF Counters
    <3>4. UserOK(row) /\ FailuresCounted(row)
      BY <1>3, <3>2, <3>3 DEF UserOK, FailuresCounted
    <3>5. UserOK(row)' /\ FailuresCounted(row)'
      BY <2>2, <3>4, UserKept
    <3>6. UNCHANGED evals
      BY <2>4 DEF Goto
    <3>7. PersonRows'
      BY <1>1, <1>5, <2>2, <3>6, WebSame, DevicesSame, ChangesSame, PersonAfter
    <3>. QED
      BY <1>1, <1>2, <1>5, <2>2, <2>4, <3>1, <3>5, <3>7, GotoStep
  <2>. QED
    BY <2>1, <2>3, <2>4
<1>6. CASE action = "ALLOW" /\ SavePassword(w, FALSE)
  <2>1. PICK c \in BOOLEAN : c = FALSE
    OBVIOUS
  <2>. QED
    BY <1>1, <1>6, <2>1, SavePasswordStep
<1>7. CASE Done(w) /\ UNCHANGED <<user, codes, changes>>
  BY <1>1, <1>2, <1>7, UserIs, UserRowStep
<1>. QED
  BY <1>4, <1>5, <1>6, <1>7 DEF DecideChange, ChangeChallenged

LEMMA ChangeCodedStep == ASSUME SInv, NEW w \in Workers, ChangeCoded(w) PROVE SInv'
<1>1. /\ worker[w].pc = "coded" /\ worker[w].job.op = "password" /\ SavePassword(w, TRUE)
      /\ UNCHANGED <<locks, clock, fails, records, web, devices, notes>>
  BY DEF ChangeCoded, At
<1>2. evals[worker[w].eval].outcome = "CHALLENGE"
  BY <1>1, UserHeld DEF UserOps, PageOps
<1>3. PICK c \in BOOLEAN : c /\ c = TRUE
  OBVIOUS
<1>. QED
  BY <1>1, <1>2, <1>3, SavePasswordStep

\* The notice is of a password that was saved.
LEMMA RecordChangeStep == ASSUME SInv, NEW w \in Workers, RecordChange(w) PROVE SInv'
<1>1. /\ worker[w].pc = "saved" /\ worker[w].job.op = "password" /\ Goto(w, "recorded", worker[w].seen)
      /\ records' = [records EXCEPT !.changed = @ + 1] /\ Notify("PASSWORD_CHANGED", worker[w].seen.pass)
      /\ UNCHANGED <<user, codes, locks, clock, fails, web, devices, changes>>
  BY DEF RecordChange, At
<1>2. worker[w].job.op \in UserOps
  BY <1>1 DEF UserOps, PageOps
<1>3. PICK s : s = worker[w].seen
  OBVIOUS
<1>4. UserOK(s) /\ FailuresCounted(s) /\ s.pass > 1 /\ UNCHANGED evals
  BY <1>1, <1>2, <1>3, UserHeld DEF Goto
<1>5. PersonGrows
  BY <1>1, SInvIs, PersonSame
<1>6. UserOK(s)' /\ FailuresCounted(s)'
  BY <1>4, <1>5, UserKept
<1>7. UserPart' /\ WebPart' /\ DevicePart'
  BY <1>1, <1>4, <1>5, UserSame, WebSame, DevicesSame
<1>8. Counters'
  <2>1. Counters /\ records \in [failed : Nat, changed : Nat]
    BY Parts DEF Counters
  <2>2. records' \in [failed : Nat, changed : Nat]
    BY <1>1, <2>1
  <2>. QED
    BY <1>1, <2>1, <2>2 DEF Counters
<1>9. ChangesPart'
  <2>1. ChangesPart /\ changes \in Seq([eval : Nat, coded : BOOLEAN])
    BY Parts DEF ChangesPart
  <2>2. s.pass - 1 \in DOMAIN changes
    <3>1. s.pass \in 1 .. Len(changes) + 1 /\ DOMAIN changes = 1 .. Len(changes) /\ Len(changes) \in Nat
      BY <1>4, <2>1, LenProperties DEF UserOK
    <3>. QED
      BY <1>4, <3>1
  <2>3. PICK p : p = s.pass
    OBVIOUS
  <2>4. \A n \in notes' : n \in notes \/ n = <<"PASSWORD_CHANGED", p>>
    BY <1>1, <1>3, <2>3 DEF Notify
  <2>5. \A n \in notes' : n[1] = "PASSWORD_CHANGED" => n[2] - 1 \in DOMAIN changes
    <3>1. \A n \in notes : n[1] = "PASSWORD_CHANGED" => n[2] - 1 \in DOMAIN changes
      BY <2>1 DEF ChangesPart, PasswordJustified
    <3>. QED
      BY <2>2, <2>3, <2>4, <3>1
  <2>. QED
    BY <1>1, <1>4, <2>1, <2>5 DEF ChangesPart, ChangesInv, PasswordJustified, Settled
<1>10. PersonRows'
  BY <1>7, <1>8, <1>9, PersonAfter
<1>. QED
  BY <1>1, <1>2, <1>3, <1>4, <1>5, <1>6, <1>10, GotoStep

LEMMA FinishChangeStep == ASSUME SInv, NEW w \in Workers, FinishChange(w) PROVE SInv'
<1>. DEFINE b == Browser(w)
<1>1. /\ Done(w) /\ worker[w].pc = "recorded" /\ worker[w].job.op = "password"
      /\ UNCHANGED <<user, codes, locks, clock, fails, records, devices, changes, notes>>
      /\ web' = [web EXCEPT ![b] = [@ EXCEPT !.state = "in", !.pass = worker[w].seen.pass, !.bound = FALSE]]
  BY DEF FinishChange, At
<1>2. worker[w].job.op \in UserOps /\ worker[w].pc # "idle"
  BY <1>1 DEF UserOps, PageOps
<1>3. /\ b \in Browsers /\ worker[w].seen \in UserRows /\ Accepted(web[b].eval) /\ Earned(web[b])
  BY <1>1, <1>2, UserHeld DEF UserOK
<1>4. End(w) /\ UNCHANGED <<desk, evals>> /\ UNCHANGED evals
  BY <1>1 DEF Done
<1>5. PersonGrows
  BY <1>1, SInvIs, PersonSame
<1>6. UserPart' /\ Counters' /\ DevicePart' /\ ChangesPart'
  BY <1>1, <1>4, <1>5, UserSame, CountersSame, DevicesSame, ChangesSame
<1>7. PICK no \in BOOLEAN : no = FALSE
  OBVIOUS
<1>. DEFINE row == web[b]
            p   == worker[w].seen.pass
<1>. DEFINE new == [row EXCEPT !.state = "in", !.pass = p, !.bound = no]
<1>8. WebOK(row) /\ row \in WebRows /\ p \in Nat
  BY <1>3, Parts DEF WebPart, WebOK, UserRows
<1>. HIDE DEF row, p
<1>9. /\ new \in WebRows /\ new.state = "in" /\ new.eval = row.eval
      /\ new.mfa = row.mfa /\ new.coded = row.coded
  BY <1>8 DEF WebRows
<1>10. web' = [web EXCEPT ![b] = new]
  BY <1>1, <1>7 DEF row, p
<1>. HIDE DEF new
<1>11. WebOK(new)
  BY <1>3, <1>8, <1>9 DEF WebOK, Earned, row
<1>12. WebPart' /\ \A x \in Browsers : x = b \/ WebKept(x)
  BY <1>3, <1>4, <1>10, <1>11, WebWritten
<1>. QED
  BY <1>2, <1>4, <1>5, <1>6, <1>12, UserEnd

LEMMA RecordFailureStep == ASSUME SInv, NEW w \in Workers, RecordFailure(w) PROVE SInv'
<1>. DEFINE seen == worker[w].seen
            full == LimitReached(seen.failed + 1)
            failed == IF full THEN 0 ELSE seen.failed + 1
            locked == IF full THEN locks.made + 1 ELSE seen.locked
<1>1. /\ Goto(w, "failed", seen) /\ worker[w].pc = "unknown" /\ worker[w].job.op = "login"
      /\ UNCHANGED <<codes, clock, changes, records>> /\ UNCHANGED <<web, devices, changes>> /\ UNCHANGED notes
      /\ user' = [user EXCEPT !.failed = failed, !.locked = locked]
      /\ locks' = (IF full THEN [locks EXCEPT !.made = @ + 1] ELSE locks) /\ fails' = fails + 1
  BY DEF RecordFailure, At
<1>2. worker[w].job.op \in UserOps
  BY <1>1 DEF UserOps
<1>3. UserOK(seen) /\ FailuresCounted(seen) /\ Counters /\ UserOK(user)
  BY <1>1, <1>2, UserHeld, Parts DEF UserPart
<1>4. seen \in UserRows /\ seen.failed \in Nat /\ seen.locked \in Nat /\ seen.locked <= locks.made
      /\ seen.failed \in 0 .. MaxFailed
  BY <1>3 DEF UserOK, UserRows
<1>5. locks \in [made : Nat, over : Nat] /\ locks.over <= locks.made /\ fails \in Nat /\ locks.made \in Nat
  BY <1>3 DEF Counters
<1>6. /\ locks' \in [made : Nat, over : Nat] /\ locks'.over = locks.over
      /\ locks'.made = IF full THEN locks.made + 1 ELSE locks.made
  <2>1. CASE full
    BY <1>1, <1>5, <2>1
  <2>2. CASE ~full
    BY <1>1, <1>5, <2>2
  <2>. QED
    BY <2>1, <2>2
<1>7. PersonGrows
  <2>1. Len(changes) \in Nat /\ codes.made \in Nat /\ clock \in Nat
    BY SInvIs, LenProperties DEF PersonRows
  <2>2. UNCHANGED <<changes, codes, clock>>
    BY <1>1
  <2>. QED
    BY <1>1, <1>5, <1>6, <2>1, <2>2 DEF PersonGrows
<1>8. Counters'
  <2>1. locks'.over <= locks'.made
    BY <1>5, <1>6
  <2>. QED
    BY <1>1, <1>3, <1>5, <1>6, <2>1 DEF Counters
<1>9. failed \in 0 .. MaxFailed /\ failed <= fails' /\ failed \in Nat
  BY <1>1, <1>3, <1>4, <1>5, SignInAssumption DEF LimitReached, FailuresCounted
<1>10. locked \in 0 .. locks'.made /\ (locked # 0 => fails' >= MaxFailed) /\ locked \in Nat
  <2>1. CASE full
    BY <1>1, <1>3, <1>4, <1>5, <1>6, <2>1, SignInAssumption DEF LimitReached, FailuresCounted
  <2>2. CASE ~full
    BY <1>1, <1>3, <1>4, <1>5, <1>6, <2>2, SignInAssumption DEF FailuresCounted
  <2>. QED
    BY <2>1, <2>2
<1>. HIDE DEF failed, locked
<1>11. user \in UserRows
  BY UserIs
<1>12. user' \in UserRows
  BY <1>1, <1>9, <1>10, <1>11 DEF UserRows
<1>13. /\ user'.pass = user.pass /\ user'.failed = failed /\ user'.locked = locked
       /\ user'.otp = user.otp /\ user'.last = user.last
  BY <1>1, <1>11 DEF UserRows
<1>14. UserPart'
  <2>1. user'.pass \in 1 .. Len(changes') + 1 /\ user'.otp \in 0 .. codes'.made /\ user'.last \in 0 .. clock'
    BY <1>1, <1>3, <1>13 DEF UserOK
  <2>2. UserOK(user)'
    BY <1>9, <1>10, <1>12, <1>13, <2>1 DEF UserOK
  <2>. QED
    BY <1>9, <1>10, <1>13, <2>2 DEF UserPart, FailuresCounted
<1>15. UNCHANGED evals
  BY <1>1 DEF Goto
<1>16. PersonRows'
  BY <1>1, <1>8, <1>14, <1>15, WebSame, DevicesSame, ChangesSame, PersonAfter
<1>17. PICK s : s = seen
  OBVIOUS
<1>18. UserOK(s)' /\ FailuresCounted(s)'
  BY <1>3, <1>7, <1>17, UserKept
<1>. QED
  BY <1>1, <1>2, <1>7, <1>16, <1>17, <1>18, GotoStep

LEMMA LogFailureStep == ASSUME SInv, NEW w \in Workers, LogFailure(w) PROVE SInv'
<1>1. /\ Done(w) /\ worker[w].pc = "failed" /\ worker[w].job.op = "login"
      /\ records' = [records EXCEPT !.failed = @ + 1]
      /\ UNCHANGED <<user, codes, locks, clock, fails, web, devices, changes>> /\ UNCHANGED notes
  BY DEF LogFailure, At
<1>2. worker[w].job.op \in UserOps
  BY <1>1 DEF UserOps
<1>3. PersonGrows
  BY <1>1, SInvIs, PersonSame
<1>4. UserPart'
  BY <1>1, <1>3, UserSame
<1>5. Counters'
  <2>1. Counters /\ records \in [failed : Nat, changed : Nat]
    BY Parts DEF Counters
  <2>2. records' \in [failed : Nat, changed : Nat]
    BY <1>1, <2>1
  <2>. QED
    BY <1>1, <2>1, <2>2 DEF Counters
<1>. QED
  BY <1>1, <1>2, <1>3, <1>4, <1>5, UserStep

\* A worker dies: its request is over where it stands.
LEMMA DieStep == ASSUME SInv, NEW w \in Workers, Die(w) PROVE SInv'
<1>1. Refuse(w) /\ UNCHANGED signVars
  BY DEF Die, Done, Refuse
<1>. QED
  BY <1>1, RefuseStep

-----------------------------------------------------------------------------
(* A sign-in on its way.                                                     *)

LEMMA AuthenticateStep == ASSUME SInv, NEW w \in Workers, Authenticate(w) PROVE SInv'
<1>1. /\ worker[w].pc = "begun" /\ worker[w].job.op = "login" /\ UNCHANGED signVars
      /\ Done(w) \/ Goto(w, "known", user) \/ Goto(w, "unknown", user)
  BY DEF Authenticate, At
<1>2. worker[w].job.op \in UserOps
  BY <1>1 DEF UserOps
<1>3. UNCHANGED user /\ UNCHANGED <<codes, locks, clock, fails, records, web, devices, changes>> /\ UNCHANGED notes /\ UNCHANGED web
  BY <1>1 DEF signVars, person
<1>4. CASE Done(w)
  BY <1>1, <1>2, <1>3, <1>4, UserIs, UserRowStep
<1>5. CASE Goto(w, "known", user) \/ Goto(w, "unknown", user)
  <2>1. PICK s : s = user
    OBVIOUS
  <2>2. UserOK(s) /\ FailuresCounted(s)
    BY <2>1, Parts DEF UserPart
  <2>3. UNCHANGED evals
    BY <1>5 DEF Goto
  <2>4. PersonGrows /\ PersonRows'
    BY <1>1, <1>3, <2>3, SInvIs, EvalsSame, PersonSame, PersonRowsSame
  <2>5. UserOK(s)' /\ FailuresCounted(s)'
    BY <2>2, <2>4, UserKept
  <2>. QED
    BY <1>1, <1>2, <1>3, <1>5, <2>1, <2>4, <2>5, GotoStep
<1>. QED
  BY <1>1, <1>4, <1>5

LEMMA RecogniseStep == ASSUME SInv, NEW w \in Workers, Recognise(w) PROVE SInv'
<1>. DEFINE seen == worker[w].seen
            cleared == [seen EXCEPT !.failed = 0, !.locked = 0]
            b == Browser(w)
<1>1. /\ worker[w].pc = "known" /\ worker[w].job.op = "login" /\ Goto(w, "device", cleared)
      /\ UNCHANGED <<codes, locks, clock, fails, records, web, changes>> /\ UNCHANGED web
      /\ user' = [user EXCEPT !.failed = 0, !.locked = 0]
      /\ UNCHANGED <<devices, notes>> \/ (devices' = [devices EXCEPT ![b] = "untrusted"] /\ Notify("NEW_DEVICE", b))
  BY DEF Recognise, At
<1>2. worker[w].job.op \in UserOps
  BY <1>1 DEF UserOps
<1>3. UserOK(seen) /\ FailuresCounted(seen) /\ seen \in UserRows /\ user \in UserRows
  BY <1>1, <1>2, UserHeld, UserIs DEF UserOK
<1>4. UNCHANGED evals
  BY <1>1 DEF Goto
<1>5. PersonGrows /\ Counters' /\ WebPart'
  BY <1>1, <1>4, SInvIs, PersonSame, CountersSame, WebSame
<1>6. UserPart'
  <2>1. user' \in UserRows
    BY <1>1, <1>3 DEF UserRows
  <2>2. /\ user'.pass = user.pass /\ user'.failed = 0 /\ user'.locked = 0
        /\ user'.otp = user.otp /\ user'.last = user.last
    BY <1>1, <1>3 DEF UserRows
  <2>. QED
    BY <1>5, <2>1, <2>2, UserWritten
<1>7. DevicePart'
  BY <1>1, Parts DEF DevicePart
<1>8. ChangesPart'
  <2>1. UNCHANGED notes \/ \E kind, key : kind # "PASSWORD_CHANGED" /\ Notify(kind, key)
    BY <1>1
  <2>. QED
    BY <1>1, <1>4, <2>1, ChangesSame
<1>9. PersonRows'
  BY <1>5, <1>6, <1>7, <1>8, PersonAfter
<1>10. PICK s : s = cleared
  OBVIOUS
<1>11. UserOK(s) /\ FailuresCounted(s)
  <2>1. cleared \in UserRows
    BY <1>3 DEF UserRows
  <2>2. /\ cleared.pass = seen.pass /\ cleared.failed = 0 /\ cleared.locked = 0
        /\ cleared.otp = seen.otp /\ cleared.last = seen.last
    BY <1>3 DEF UserRows
  <2>3. 0 \in 0 .. MaxFailed /\ 0 \in 0 .. locks.made /\ 0 <= fails
    BY SignInAssumption, Parts DEF Counters
  <2>. HIDE DEF cleared
  <2>. QED
    BY <1>3, <1>10, <2>1, <2>2, <2>3 DEF UserOK, FailuresCounted
<1>12. UserOK(s)' /\ FailuresCounted(s)'
  BY <1>5, <1>11, UserKept
<1>. QED
  BY <1>1, <1>2, <1>5, <1>9, <1>10, <1>12, GotoStep

\* Evaluations of sign-ins and password changes.
LEMMA UserEvaluates ==
  ASSUME SInv, NEW w \in Workers, StartLogin(w) \/ EvaluateLogin(w) \/ StartChange(w) \/ EvaluateChange(w)
  PROVE  SInv'
<1>1. CASE StartLogin(w)
  <2>1. /\ worker[w].pc = "device" /\ CreateEvaluation(w, "LOGIN") /\ UNCHANGED signVars /\ "LOGIN" \in Ops
    BY <1>1 DEF StartLogin, At, Ops
  <2>. QED
    BY <2>1, OpenStep
<1>2. CASE EvaluateLogin(w)
  <2>1. /\ worker[w].pc = "evaluating" /\ worker[w].job.op \in UserOps /\ UNCHANGED signVars
        /\ Evaluate(w, Facts(Browser(w)), "decided")
    BY <1>2 DEF EvaluateLogin, At, UserOps
  <2>2. PICK facts \in SUBSET Registry : facts = Facts(Browser(w))
    BY FactsAre
  <2>. QED
    BY <2>1, <2>2, EvaluateStep
<1>3. CASE StartChange(w)
  <2>1. /\ worker[w].pc = "begun" /\ worker[w].job.op = "password" /\ UNCHANGED signVars
        /\ CreateEvaluation(w, "PASSWORD_CHANGE") \/ Done(w)
    BY <1>3 DEF StartChange, At
  <2>2. "PASSWORD_CHANGE" \in Ops /\ worker[w].job.op \in UserOps
    BY <2>1 DEF Ops, UserOps, PageOps
  <2>3. CASE CreateEvaluation(w, "PASSWORD_CHANGE")
    BY <2>1, <2>2, <2>3, OpenStep
  <2>4. CASE Done(w)
    <3>1. UNCHANGED user /\ UNCHANGED <<codes, locks, clock, fails, records, web, devices, changes>> /\ UNCHANGED notes
      BY <2>1 DEF signVars, person
    <3>. QED
      BY <2>1, <2>2, <2>4, <3>1, UserIs, UserRowStep
  <2>. QED
    BY <2>1, <2>3, <2>4
<1>4. CASE EvaluateChange(w)
  <2>1. /\ worker[w].pc = "evaluating" /\ worker[w].job.op \in UserOps /\ UNCHANGED signVars
        /\ Evaluate(w, Facts(Browser(w)), "decided")
    BY <1>4 DEF EvaluateChange, At, UserOps, PageOps
  <2>2. PICK facts \in SUBSET Registry : facts = Facts(Browser(w))
    BY FactsAre
  <2>. QED
    BY <2>1, <2>2, EvaluateStep
<1>. QED
  BY <1>1, <1>2, <1>3, <1>4

\* Nobody does anything but time.
LEMMA TimeStep ==
  ASSUME SInv, UNCHANGED <<deskVars, user, fails, records, web, devices, changes, notes>>, PersonGrows, Counters'
  PROVE  SInv'
<1>1. UNCHANGED <<todo, worker, desk, evals>> /\ UNCHANGED <<rules, cases>> /\ UNCHANGED evals /\ UNCHANGED worker
  BY DEF deskVars, desk
<1>2. DeskRows /\ Serving
  BY SInvIs
<1>3. DeskRows' /\ Grow
  BY <1>1, <1>2, DeskRowsSame, RulesSame, EvalsSame DEF Grow
<1>4. UserPart' /\ WebPart' /\ DevicePart' /\ ChangesPart'
  BY <1>1, UserSame, WebSame, DevicesSame, ChangesSame
<1>5. PersonRows'
  BY <1>4, PersonAfter
<1>6. ASSUME NEW x \in Workers PROVE WorkerOK(worker[x])'
  <2>1. PICK u : u = worker[x]
    OBVIOUS
  <2>2. WorkerOK(u)
    BY <1>2, <2>1 DEF Serving
  <2>3. u.pc = "evaluating" => evals'[u.eval].status = "EVALUATING"
    BY <1>1, <2>2 DEF WorkerOK, DeskWorker
  <2>4. u.pc # "idle" /\ u.job.op \in {"code", "password"} => WebKept(u.job.by)
    BY DEF WebKept
  <2>5. WorkerOK(u)'
    BY <1>3, <2>2, <2>3, <2>4, WorkerKept
  <2>6. worker'[x] = u
    BY <1>1, <2>1
  <2>. QED
    BY <2>5, <2>6
<1>7. \A j \in todo' : JobOK(j)'
  BY <1>1, <1>2, <1>3, JobKept DEF Serving, Grow
<1>8. DOMAIN worker' = Workers /\ \A x, y \in Workers : x # y => Apart(worker'[x], worker'[y])
  BY <1>1, <1>2 DEF Serving
<1>9. Serving'
  BY <1>6, <1>7, <1>8 DEF Serving, Apart
<1>. QED
  BY <1>3, <1>5, <1>9, SInvAfter

LEMMA TimePasses == ASSUME SInv, CodesAge \/ LocksEnd \/ Tick PROVE SInv'
<1>1. Counters
  BY Parts
<1>2. /\ codes \in [made : Nat, aged : Nat] /\ codes.aged <= codes.made
      /\ locks \in [made : Nat, over : Nat] /\ locks.over <= locks.made
      /\ clock \in 1 .. MaxClock /\ fails \in Nat /\ MaxClock \in Nat
      /\ records \in [failed : Nat, changed : Nat]
  BY <1>1, SignInAssumption DEF Counters
<1>3. codes.made \in Nat /\ locks.made \in Nat /\ clock \in Nat /\ Len(changes) \in Nat
  BY <1>2, SInvIs, LenProperties DEF PersonRows
<1>4. CASE CodesAge
  <2>1. UNCHANGED <<deskVars, user, fails, records, web, devices, changes, notes>> /\ UNCHANGED <<locks, clock>>
        /\ codes' = [codes EXCEPT !.aged = codes.made]
    BY <1>4 DEF CodesAge
  <2>2. codes' \in [made : Nat, aged : Nat] /\ codes'.made = codes.made /\ codes'.aged = codes.made
    BY <1>2, <1>3, <2>1
  <2>3. PersonGrows /\ Counters'
    BY <1>2, <1>3, <2>1, <2>2 DEF PersonGrows, Counters
  <2>. QED
    BY <2>1, <2>3, TimeStep
<1>5. CASE LocksEnd
  <2>1. UNCHANGED <<deskVars, user, fails, records, web, devices, changes, notes>> /\ UNCHANGED <<codes, clock>>
        /\ locks' = [locks EXCEPT !.over = locks.made]
    BY <1>5 DEF LocksEnd
  <2>2. locks' \in [made : Nat, over : Nat] /\ locks'.made = locks.made /\ locks'.over = locks.made
    BY <1>2, <1>3, <2>1
  <2>3. PersonGrows /\ Counters'
    BY <1>2, <1>3, <2>1, <2>2 DEF PersonGrows, Counters
  <2>. QED
    BY <2>1, <2>3, TimeStep
<1>6. CASE Tick
  <2>1. UNCHANGED <<deskVars, user, fails, records, web, devices, changes, notes>> /\ UNCHANGED <<codes, locks>>
        /\ clock < MaxClock /\ clock' = clock + 1
    BY <1>6 DEF Tick, person
  <2>2. PersonGrows /\ Counters'
    BY <1>2, <1>3, <2>1 DEF PersonGrows, Counters
  <2>. QED
    BY <2>1, <2>2, TimeStep
<1>. QED
  BY <1>4, <1>5, <1>6

-----------------------------------------------------------------------------
(* The invariant.                                                            *)

LEMMA InitSInv == Init => SInv
<1>. SUFFICES ASSUME Init PROVE SInv
  OBVIOUS
<1>1. PICK load \in Workloads : todo = load.jobs /\ rules = load.rules /\ mode = load.mode
  BY DEF Init, DeskInit
<1>2. /\ worker = [w \in Workers |-> Idle] /\ evals = <<>> /\ alerts = <<>> /\ cases = <<>>
      /\ changes = <<>> /\ notes = {}
  BY DEF Init, DeskInit
<1>3. DOMAIN evals = {} /\ DOMAIN cases = {} /\ DOMAIN changes = {} /\ Len(evals) = 0 /\ Len(changes) = 0
  BY <1>2
<1>4. DeskRows
  <2>1. evals \in Seq(EvalRows) /\ alerts \in Seq(AlertRows) /\ cases \in Seq(CaseRows)
    BY <1>2
  <2>2. mode \in Modes /\ rules \in Seq(RuleRows) /\ RulesInv
    BY <1>1, DeskAssumption DEF RulesInv
  <2>. QED
    BY <1>3, <2>1, <2>2 DEF DeskRows, EvalsInv, TimelineMatches
<1>5. Counters
  BY SignInAssumption DEF Init, Counters
<1>6. UserPart
  <2>. DEFINE no == FALSE
              row == [pass |-> 1, failed |-> 0, locked |-> 0, mfa |-> no, otp |-> 0, totp |-> 0, last |-> 0]
  <2>1. user = row
    BY DEF Init
  <2>2. no \in BOOLEAN
    OBVIOUS
  <2>. HIDE DEF no
  <2>3. row \in UserRows
    BY <2>2 DEF UserRows
  <2>4. row.pass = 1 /\ row.failed = 0 /\ row.locked = 0 /\ row.otp = 0 /\ row.last = 0
    OBVIOUS
  <2>. HIDE DEF row
  <2>5. 0 \in 0 .. MaxFailed /\ 0 \in 0 .. codes.made /\ 0 \in 0 .. locks.made /\ 0 \in 0 .. clock /\ 0 <= fails
    BY <1>5, SignInAssumption DEF Counters
  <2>6. UserOK(row) /\ FailuresCounted(row)
    BY <1>3, <2>3, <2>4, <2>5 DEF UserOK, FailuresCounted
  <2>. QED
    BY <2>1, <2>6 DEF UserPart
<1>7. WebPart
  <2>1. web = [b \in Browsers |-> Out]
    BY DEF Init
  <2>2. WebOK(Out)
    BY <1>3, OutOK
  <2>3. DOMAIN web = Browsers /\ \A b \in Browsers : web[b] = Out
    BY <2>1
  <2>4. web = [b \in Browsers |-> web[b]]
    BY <2>1
  <2>. QED
    BY <2>2, <2>3, <2>4 DEF WebPart
<1>8. DevicePart
  BY DEF Init, DevicePart
<1>9. ChangesPart
  <2>1. changes \in Seq([eval : Nat, coded : BOOLEAN])
    BY <1>2
  <2>. QED
    BY <1>2, <1>3, <2>1 DEF ChangesPart, ChangesInv, PasswordJustified
<1>10. PersonRows
  BY <1>5, <1>6, <1>7, <1>8, <1>9, PersonIs
<1>11. Serving
  <2>1. \A j \in todo : JobOK(j)
    BY <1>1, DeskAssumption, SignInAssumption DEF JobOK
  <2>2. DOMAIN worker = Workers /\ \A w \in Workers : worker[w] = Idle
    BY <1>2
  <2>3. WorkerOK(Idle)
    BY <1>3 DEF WorkerOK, DeskWorker, UserWorker, Idle
  <2>. QED
    BY <2>1, <2>2, <2>3, IdleApart DEF Serving
<1>. QED
  BY <1>4, <1>10, <1>11, SInvIs

LEMMA DeskSteps == ASSUME SInv, DeskNext, UNCHANGED signVars PROVE SInv'
<1>1. PICK w \in Workers :
        \/ BeginFlow(w) \/ StartFlow(w) \/ RunFlow(w)
        \/ BeginDesk(w) \/ SetMode(w) \/ CreateDraft(w) \/ BeginVersion(w) \/ NewRuleVersion(w)
        \/ BeginRule(w) \/ ApproveRule(w) \/ ActivateRule(w) \/ DisableRule(w)
        \/ BeginAlert(w) \/ RaiseAlert(w) \/ BeginAlertView(w) \/ AcknowledgeAlert(w) \/ OpenCase(w)
        \/ BeginCase(w) \/ Claim(w) \/ Move(w)
  BY DEF DeskNext
<1>2. CASE \/ BeginFlow(w) \/ BeginDesk(w) \/ BeginRule(w) \/ BeginVersion(w) \/ BeginAlert(w)
           \/ BeginAlertView(w) \/ BeginCase(w)
  BY <1>2, DeskBegins
<1>3. CASE StartFlow(w)
  <2>1. PICK op \in FlowOps : worker[w].pc = "begun" /\ worker[w].job.op = op /\ CreateEvaluation(w, op)
    BY <1>3 DEF StartFlow, At
  <2>2. op \in Ops /\ op \notin UserOps
    BY DEF FlowOps, Ops, UserOps, PageOps
  <2>. QED
    BY <2>1, <2>2, OpenStep
<1>4. CASE RunFlow(w)
  BY <1>4, RunFlowStep
<1>5. CASE SetMode(w) \/ CreateDraft(w) \/ NewRuleVersion(w) \/ ApproveRule(w) \/ ActivateRule(w) \/ DisableRule(w)
  BY <1>5, SetModeStep, CreateDraftStep, NewRuleVersionStep, ApproveStep, ActivateStep, DisableStep
<1>6. CASE RaiseAlert(w) \/ AcknowledgeAlert(w) \/ OpenCase(w) \/ Claim(w) \/ Move(w)
  BY <1>6, RaiseStep, AcknowledgeStep, OpenCaseStep, ClaimStep, MoveStep
<1>. QED
  BY <1>1, <1>2, <1>3, <1>4, <1>5, <1>6

LEMMA SignInSteps == ASSUME SInv, NEW w \in Workers, SignInStep(w) PROVE SInv'
<1>1. CASE BeginLogin(w) \/ BeginCode(w) \/ BeginPage(w)
  BY <1>1, UserBegins
<1>2. CASE \/ Authenticate(w) \/ RecordFailure(w) \/ LogFailure(w) \/ Recognise(w) \/ FinishLogin(w)
           \/ VerifyCode(w) \/ Die(w)
  BY <1>2, AuthenticateStep, RecordFailureStep, LogFailureStep, RecogniseStep, FinishLoginStep,
     VerifyCodeStep, DieStep
<1>3. CASE StartLogin(w) \/ EvaluateLogin(w) \/ StartChange(w) \/ EvaluateChange(w)
  BY <1>3, UserEvaluates
<1>4. CASE DecideChange(w) \/ ChangeCoded(w) \/ RecordChange(w) \/ FinishChange(w)
  BY <1>4, DecideChangeStep, ChangeCodedStep, RecordChangeStep, FinishChangeStep
<1>5. CASE StartMfa(w) \/ ConfirmMfa(w) \/ StartTotp(w) \/ ConfirmTotp(w) \/ DisableMfa(w)
  BY <1>5, StartMfaStep, ConfirmMfaStep, StartTotpStep, ConfirmTotpStep, DisableMfaStep
<1>6. CASE ChangeDevice(w) \/ RevokeSessions(w) \/ Logout(w) \/ SetPreference(w)
  BY <1>6, ChangeDeviceStep, RevokeSessionsStep, LogoutStep, SetPreferenceStep
<1>. QED
  BY <1>1, <1>2, <1>3, <1>4, <1>5, <1>6 DEF SignInStep

LEMMA NextSInv == SInv /\ [Next]_vars => SInv'
<1>. SUFFICES ASSUME SInv, [Next]_vars PROVE SInv'
  OBVIOUS
<1>1. CASE DeskNext /\ UNCHANGED signVars
  BY <1>1, DeskSteps
<1>2. CASE \E w \in Workers : SignInStep(w)
  BY <1>2, SignInSteps
<1>3. CASE CodesAge \/ LocksEnd \/ Tick
  BY <1>3, TimePasses
<1>4. CASE UNCHANGED vars
  <2>1. /\ UNCHANGED <<deskVars, user, fails, records, web, devices, changes, notes>>
        /\ UNCHANGED <<changes, codes, locks, clock, fails, records>>
    BY <1>4 DEF vars, signVars, person
  <2>2. PersonGrows /\ Counters'
    BY <2>1, SInvIs, PersonSame, CountersSame
  <2>. QED
    BY <2>1, <2>2, TimeStep
<1>. QED
  BY <1>1, <1>2, <1>3, <1>4 DEF Next

\* The invariant of the sign-in and of the desk under it.
THEOREM SignInInv == Spec => []SInv
BY InitSInv, NextSInv, PTL DEF Spec

\* The rows of the desk and of the customer keep their types.
THEOREM SignInTypes == Spec => []TypeOK
<1>1. SInv => TypeOK
  BY DEF SInv
<1>. QED
  BY <1>1, SignInInv, PTL

\* Maker-checker of rules: no rule is in force that the manager it names as its
\* creator approved, however many work on stale instances of it (approve_rule).
\* A version names nobody, and AuthorsDoNotApprove is not true.
THEOREM RulesAreChecked == Spec => []RulesApproved
<1>1. SInv => RulesApproved
  BY DEF SInv, DeskInv, RulesInv, OnItsWay, Checked, RulesApproved
<1>. QED
  BY <1>1, SignInInv, PTL

\* The timeline of a case ends with its status (cases.py).
THEOREM TimelinesAreTrue == Spec => []TimelineMatches
<1>1. SInv => TimelineMatches
  BY DEF SInv, DeskInv
<1>. QED
  BY <1>1, SignInInv, PTL

\* Of two transfers or sign-ins that were evaluated under one mode, the one with
\* more points is not treated more mildly, whatever rules there are and however
\* many points they add (engine.py, policies.py).
THEOREM ControlNeverSoftens == Spec => []ControlEscalates
<1>1. SInv => ControlEscalates
  <2>. SUFFICES ASSUME SInv, NEW d \in DOMAIN evals, NEW e \in DOMAIN evals,
                       evals[d].op \in {"TRANSFER", "LOGIN"}, evals[e].op = evals[d].op,
                       evals[d].status = "COMPLETED", evals[e].status = "COMPLETED",
                       evals[d].mode = evals[e].mode, evals[d].score <= evals[e].score
                PROVE  Strictness[evals[d].outcome] <= Strictness[evals[e].outcome]
    BY DEF ControlEscalates, EscalatesFor
  <2>1. EvalOK(evals[d]) /\ EvalOK(evals[e])
    BY SInvIs, EvalsAre
  <2>2. \A q \in EvalRows : q.mode \in Modes /\ q.score \in 0 .. 100
    BY DEF EvalRows
  <2>3. evals[d].mode \in Modes /\ evals[d].score \in 0 .. 100 /\ evals[e].score \in 0 .. 100
    BY <2>1, <2>2 DEF EvalOK
  <2>4. Strictness[Outcome(evals[d].op, evals[d].mode, Decide(evals[d].op, RiskLevel(evals[d].score)))]
          <= Strictness[Outcome(evals[d].op, evals[d].mode, Decide(evals[d].op, RiskLevel(evals[e].score)))]
    BY <2>3, Escalates
  <2>. QED
    BY <2>1, <2>4 DEF EvalOK
<1>. QED
  BY <1>1, SignInInv, PTL

\* No session without a sign-in that the engine let through, and with the code
\* where one was asked for (login_view, otp_verify_view).
THEOREM SessionsAreEarned == Spec => []SessionsEarned
<1>1. SInv => SessionsEarned
  BY DEF SInv
<1>. QED
  BY <1>1, SignInInv, PTL

\* No lock without MAX_FAILED wrong passwords that were counted, whatever stale
\* counters are written back (register_failed_login).
THEOREM LocksAreDeserved == Spec => []LocksDeserved
<1>1. SInv => LocksDeserved
  BY DEF SInv, FailuresCounted, LocksDeserved
<1>. QED
  BY <1>1, SignInInv, PTL

\* No password is replaced but by a change the engine allowed or a code answered,
\* and no notice tells of a change that was not made (security_view).
THEOREM PasswordsAreJustified == Spec => []PasswordJustified
<1>1. SInv => PasswordJustified
  BY DEF SInv
<1>. QED
  BY <1>1, SignInInv, PTL
=============================================================================
