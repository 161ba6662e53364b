----------------------------- MODULE FraudDesk ------------------------------
(***************************************************************************)
(* The fraud desk (apps/fraud): evaluations of protected operations while  *)
(* rules and the engine mode change under them, the rule life cycle, and   *)
(* alerts and cases that several analysts handle at once.                  *)
(*                                                                         *)
(* A request first loads the rows it works on, without a lock, and later   *)
(* writes; every action below is one statement or one short transaction.   *)
(* The services for rules and for claims have no view yet: they are        *)
(* modelled as their tests call them.                                      *)
(***************************************************************************)
EXTENDS Risk, Sequences

CONSTANTS
  Workers,    \* web workers
  Roles,      \* [staff -> "FRAUD_ANALYST", "SENIOR_FRAUD_ANALYST" or "FRAUD_MANAGER"]
  Workloads,  \* bound: records [jobs, rules, mode], of which a behaviour takes one
  None

Job == [op : STRING, n : Nat, by : STRING, on : Nat, val : STRING, facts : SUBSET Registry]

\* The rows of the desk's tables.  A rule's maker is created_by; its author is
\* history: who made the row.
Names    == STRING \cup {None}
RuleRows == [name : STRING, version : Nat, fact : Registry \cup {""}, score : Int, ops : SUBSET Ops,
             lifecycle : {"DRAFT", "TESTING", "APPROVED", "ACTIVE", "RETIRED"}, enabled : BOOLEAN,
             maker : Names, approver : Names, author : Names]
EvalRows == [op : Ops, mode : Modes, status : {"EVALUATING", "COMPLETED", "FAILED"},
             facts : SUBSET Registry, eligible : SUBSET Nat, fired : SUBSET Nat, score : 0 .. 100,
             decision : Decisions \cup {"PENDING", "DEFER"}, outcome : Decisions \cup {"PENDING"}]
AlertRows == [key : Ops \X SUBSET STRING, status : {"OPEN", "ACKNOWLEDGED", "ESCALATED"}]
CaseStatus == {"OPEN", "INVESTIGATING", "WAITING_CUSTOMER", "ESCALATED", "CONFIRMED_FRAUD",
               "FALSE_POSITIVE", "CLOSED"}
CaseRows == [status : CaseStatus, analyst : Names, reason : BOOLEAN, log : Seq(CaseStatus)]

\* Approved by another than its maker, as what is on its way into force must be.
Checked(rule)  == rule.approver # None /\ rule.approver # rule.maker
OnItsWay(rule) == rule.enabled \/ rule.lifecycle \in {"APPROVED", "ACTIVE"}

\* A job sets a mode there is, and clones a rule there is.
WellFormed(j, rows) == /\ j \in Job
                       /\ j.op = "mode" => j.val \in Modes
                       /\ j.op = "version" => j.on \in DOMAIN rows

ASSUME DeskAssumption ==
  /\ None \notin DOMAIN Roles
  /\ \A load \in Workloads :
       /\ load.mode \in Modes /\ load.rules \in Seq(RuleRows)
       /\ \A r \in DOMAIN load.rules : OnItsWay(load.rules[r]) => Checked(load.rules[r])
       /\ \A j \in load.jobs : WellFormed(j, load.rules)

\* rbac.py: what the desk's services ask for.
May(who, permission) ==
  /\ who \in DOMAIN Roles
  /\ CASE permission \in {"confirm_fraud", "close_case"} -> Roles[who] # "FRAUD_ANALYST"
       [] permission \in {"manage_rules", "manage_policies"} -> Roles[who] = "FRAUD_MANAGER"
       [] permission = "claim_case" -> TRUE

VARIABLES
  todo,     \* requests not yet begun
  worker,   \* what each worker is doing
  mode,     \* the engine's mode
  rules,    \* RiskRule rows
  evals,    \* RiskEvaluation rows, with what the flow made of each
  alerts,   \* FraudAlert rows
  cases     \* FraudCase rows, each with the statuses its timeline records

desk == <<mode, rules, alerts, cases>>
deskVars == <<todo, worker, mode, rules, evals, alerts, cases>>

Idle == [pc |-> "idle", job |-> None, seen |-> None, eval |-> 0]

DeskInit ==
  /\ worker = [w \in Workers |-> Idle]
  /\ evals = <<>> /\ alerts = <<>> /\ cases = <<>>
  /\ \E load \in Workloads : todo = load.jobs /\ rules = load.rules /\ mode = load.mode

\* What the rows of the desk may hold; an evaluation's rules are rows that exist.
DeskTypeOK ==
  /\ mode \in Modes
  /\ \A w \in Workers : worker[w].eval \in 0 .. Len(evals)
  /\ rules \in Seq(RuleRows) /\ evals \in Seq(EvalRows)
  /\ alerts \in Seq(AlertRows) /\ cases \in Seq(CaseRows)
  /\ \A e \in DOMAIN evals :
       evals[e].fired \subseteq evals[e].eligible /\ evals[e].eligible \subseteq DOMAIN rules
  /\ \A c \in DOMAIN cases : cases[c].log # <<>>

At(w, op, pc) == worker[w].pc = pc /\ worker[w].job.op = op

\* A request begins with the rows its view loads.
Begin(w, op, seen(_)) ==
  /\ worker[w].pc = "idle"
  /\ \E j \in todo :
       /\ j.op = op
       /\ todo' = todo \ {j}
       /\ worker' = [worker EXCEPT ![w] = [pc |-> "begun", job |-> j, seen |-> seen(j), eval |-> 0]]

End(w) == worker' = [worker EXCEPT ![w] = Idle] /\ UNCHANGED todo
Refuse(w) == End(w) /\ UNCHANGED <<desk, evals>>

-----------------------------------------------------------------------------
(* Evaluations (engine.py): a row in EVALUATING with the mode of that      *)
(* moment, then the snapshot of what the rules said.                       *)

FlowOps == {"TRANSFER", "CARD_PURCHASE", "BILL_PAYMENT", "ACCOUNT_OPENING", "MANAGER_OPERATION"}

CreateEvaluation(w, op) ==
  /\ evals' = Append(evals, [op |-> op, mode |-> mode, status |-> "EVALUATING", facts |-> {},
                             eligible |-> {}, fired |-> {}, score |-> 0, decision |-> "PENDING",
                             outcome |-> "PENDING"])
  /\ worker' = [worker EXCEPT ![w] = [@ EXCEPT !.pc = "evaluating", !.eval = Len(evals) + 1]]
  /\ UNCHANGED <<todo, desk>>

\* Signals, rules, score, policy, the saved row and the gate that acts on it.
Complete(e, facts) ==
  LET op     == evals[e].op
      values == Collect(op, facts)
      fired  == Triggered(rules, op, values)
      score  == Score(rules, fired)
      decision == Decide(op, RiskLevel(score))
  IN evals' = [evals EXCEPT ![e] = [@ EXCEPT
       !.status = "COMPLETED", !.facts = facts, !.fired = fired, !.score = score,
       !.eligible = Eligible(rules, op), !.decision = decision,
       !.outcome = Outcome(op, evals[e].mode, decision)]]

\* The engine raises: the row is FAILED, the flow follows the fail-safe matrix.
Fail(e) ==
  evals' = [evals EXCEPT ![e] = [@ EXCEPT !.status = "FAILED", !.decision = "DEFER",
                                          !.outcome = OutcomeOfFailure(evals[e].op, mode)]]

Evaluate(w, facts, next) ==
  /\ Complete(worker[w].eval, facts) \/ Fail(worker[w].eval)
  /\ worker' = [worker EXCEPT ![w] = [@ EXCEPT !.pc = next]]
  /\ UNCHANGED <<todo, desk>>

BeginFlow(w) == \E op \in FlowOps : Begin(w, op, LAMBDA j : None) /\ UNCHANGED <<desk, evals>>

StartFlow(w) == \E op \in FlowOps : At(w, op, "begun") /\ CreateEvaluation(w, op)

RunFlow(w) ==
  /\ \E op \in FlowOps : At(w, op, "evaluating")
  /\ Complete(worker[w].eval, worker[w].job.facts) \/ Fail(worker[w].eval)
  /\ End(w)
  /\ UNCHANGED desk

-----------------------------------------------------------------------------
(* Rules (rule_management.py, rule_versioning.py): DRAFT, APPROVED, ACTIVE,*)
(* RETIRED.  A service works on the instance its caller loaded and writes  *)
(* the columns it names.                                                   *)

BeginDesk(w) ==
  \E op \in {"mode", "draft"} : Begin(w, op, LAMBDA j : None) /\ UNCHANGED <<desk, evals>>

\* set_mode: one row, updated by who may manage policies.
SetMode(w) ==
  LET j == worker[w].job
  IN /\ At(w, "mode", "begun")
     /\ mode' = IF May(j.by, "manage_policies") THEN j.val ELSE mode
     /\ End(w)
     /\ UNCHANGED <<rules, evals, alerts, cases>>

RuleRow(name, version, fact, score, maker, author) ==
  [name |-> name, version |-> version, fact |-> fact, score |-> score, ops |-> {},
   lifecycle |-> "DRAFT", enabled |-> FALSE, maker |-> maker, approver |-> None,
   author |-> author]

\* The caller holds a rule it found.
LoadRule(j) == IF j.on \in DOMAIN rules THEN rules[j.on] ELSE None
RuleOps == {"approve", "activate", "disable"}
BeginRule(w) ==
  /\ \E op \in RuleOps : Begin(w, op, LoadRule)
  /\ worker'[w].seen # None
  /\ UNCHANGED <<desk, evals>>

\* (rule_id, version) is unique.
Insert(row) ==
  IF \E r \in DOMAIN rules : rules[r].name = row.name /\ rules[r].version = row.version
    THEN rules' = rules
    ELSE rules' = Append(rules, row)

CreateDraft(w) ==
  LET j == worker[w].job
  IN /\ At(w, "draft", "begun")
     /\ IF May(j.by, "manage_rules") THEN Insert(RuleRow(j.val, 1, "", j.on, j.by, j.by))
                                     ELSE rules' = rules
     /\ End(w)
     /\ UNCHANGED <<mode, evals, alerts, cases>>

\* new_rule_version clones the newest version it read; it does not ask who calls,
\* and the row names no maker.
BeginVersion(w) ==
  /\ Begin(w, "version", LAMBDA j :
       LET same == {r \in DOMAIN rules : rules[r].name = rules[j.on].name}
       IN rules[CHOOSE r \in same : \A q \in same : rules[q].version <= rules[r].version])
  /\ UNCHANGED <<desk, evals>>

NewRuleVersion(w) ==
  LET last == worker[w].seen
  IN /\ At(w, "version", "begun")
     /\ Insert(RuleRow(last.name, last.version + 1, last.fact, last.score, None,
                       worker[w].job.by))
     /\ End(w)
     /\ UNCHANGED <<mode, evals, alerts, cases>>

WriteRule(w, fields(_)) ==
  /\ LET r == worker[w].job.on IN rules' = [rules EXCEPT ![r] = fields(rules[r])]
  /\ End(w)
  /\ UNCHANGED <<mode, evals, alerts, cases>>

\* Mutant of MayApprove: the maker is not compared with the approver.
MayApprove_Self(j, rule) ==
  /\ May(j.by, "manage_policies")
  /\ rule.lifecycle \in {"DRAFT", "TESTING"}

\* Maker-checker: a rule of its creator is not the creator's to approve.
MayApprove(j, rule) ==
  /\ May(j.by, "manage_policies")
  /\ rule.lifecycle \in {"DRAFT", "TESTING"}
  /\ rule.maker # j.by

ApproveRule(w) ==
  LET j == worker[w].job
  IN /\ At(w, "approve", "begun")
     /\ IF MayApprove(j, worker[w].seen)
          THEN WriteRule(w, LAMBDA r : [r EXCEPT !.lifecycle = "APPROVED", !.approver = j.by])
          ELSE Refuse(w)

ActivateRule(w) ==
  /\ At(w, "activate", "begun")
  /\ IF May(worker[w].job.by, "manage_policies") /\ worker[w].seen.lifecycle = "APPROVED"
       THEN WriteRule(w, LAMBDA r : [r EXCEPT !.lifecycle = "ACTIVE", !.enabled = TRUE])
       ELSE Refuse(w)

DisableRule(w) ==
  /\ At(w, "disable", "begun")
  /\ IF May(worker[w].job.by, "manage_policies")
       THEN WriteRule(w, LAMBDA r : [r EXCEPT !.lifecycle = "RETIRED", !.enabled = FALSE])
       ELSE Refuse(w)

-----------------------------------------------------------------------------
(* Alerts and cases (alerts.py, cases.py, views.py).                       *)

\* dedup_key and the OPEN alert of the last hour that has it; a behaviour is
\* shorter than the hour.
AlertKey(e) == <<evals[e].op, {rules[r].name : r \in evals[e].fired}>>
Missing(e) == /\ e \in DOMAIN evals
              /\ evals[e].decision \in {"REVIEW", "BLOCK", "DEFER"}
              /\ ~\E a \in DOMAIN alerts : alerts[a].status = "OPEN" /\ alerts[a].key = AlertKey(e)
FindAlert(j) == IF Missing(j.on) THEN "missing" ELSE "no"
BeginAlert(w) == Begin(w, "alert", FindAlert) /\ UNCHANGED <<desk, evals>>

RaiseAlert(w) ==
  /\ At(w, "alert", "begun")
  /\ alerts' = IF worker[w].seen = "missing"
                 THEN Append(alerts, [key |-> AlertKey(worker[w].job.on), status |-> "OPEN"])
                 ELSE alerts
  /\ End(w)
  /\ UNCHANGED <<mode, rules, evals, cases>>

\* The views answer 404 for an alert or a case that does not exist.
AlertStatus(j) == IF j.on \in DOMAIN alerts THEN alerts[j.on].status ELSE "NOT_FOUND"
BeginAlertView(w) ==
  \E op \in {"acknowledge", "open"} : Begin(w, op, AlertStatus) /\ UNCHANGED <<desk, evals>>

AcknowledgeAlert(w) ==
  /\ At(w, "acknowledge", "begun")
  /\ alerts' = IF worker[w].seen = "OPEN"
                 THEN [alerts EXCEPT ![worker[w].job.on].status = "ACKNOWLEDGED"] ELSE alerts
  /\ End(w)
  /\ UNCHANGED <<mode, rules, evals, cases>>

\* A case, its first event and the escalated alert, in one commit.
OpenCase(w) ==
  /\ At(w, "open", "begun")
  /\ IF worker[w].seen # "NOT_FOUND" /\ May(worker[w].job.by, "claim_case")
       THEN /\ cases' = Append(cases, [status |-> "OPEN", analyst |-> None, reason |-> FALSE,
                                       log |-> <<"OPEN">>])
            /\ alerts' = [alerts EXCEPT ![worker[w].job.on].status = "ESCALATED"]
       ELSE UNCHANGED <<cases, alerts>>
  /\ End(w)
  /\ UNCHANGED <<mode, rules, evals>>

LoadCase(j) == IF j.on \in DOMAIN cases THEN cases[j.on] ELSE None
BeginCase(w) ==
  \E op \in {"claim", "move"} : Begin(w, op, LoadCase) /\ UNCHANGED <<desk, evals>>

WriteCase(w, row) ==
  /\ cases' = [cases EXCEPT ![worker[w].job.on] = row]
  /\ End(w)
  /\ UNCHANGED <<mode, rules, evals, alerts>>

\* Mutant of ClaimedCase: the whole row is saved, as the caller loaded it.
ClaimedCase_WholeRow(now, seen, analyst) ==
  [seen EXCEPT !.analyst = analyst, !.log = now.log]

\* claim writes one column.
ClaimedCase(now, seen, analyst) == [now EXCEPT !.analyst = analyst]

Claim(w) ==
  LET j == worker[w].job
      seen == worker[w].seen
  IN /\ At(w, "claim", "begun")
     /\ IF seen # None /\ seen.status \in {"OPEN", "INVESTIGATING"}
          THEN WriteCase(w, ClaimedCase(cases[j.on], seen, j.by))
          ELSE Refuse(w)

CaseTransitions ==
  [OPEN             |-> {"INVESTIGATING", "CLOSED"},
   INVESTIGATING    |-> {"WAITING_CUSTOMER", "ESCALATED", "CONFIRMED_FRAUD", "FALSE_POSITIVE",
                         "CLOSED"},
   WAITING_CUSTOMER |-> {"INVESTIGATING"},
   ESCALATED        |-> {"INVESTIGATING", "CONFIRMED_FRAUD"},
   CONFIRMED_FRAUD  |-> {}, FALSE_POSITIVE |-> {}, CLOSED |-> {}]

Terminal == {"CONFIRMED_FRAUD", "FALSE_POSITIVE", "CLOSED"}

MayMove(who, status) ==
  CASE status = "CONFIRMED_FRAUD"            -> May(who, "confirm_fraud")
    [] status \in {"FALSE_POSITIVE", "CLOSED"} -> May(who, "close_case")
    [] OTHER                                 -> TRUE

\* decide_case and transition: the instance the view loaded decides, a terminal
\* state needs a reason (on a decided job: n > 1), and the whole row is saved.
Move(w) ==
  LET j == worker[w].job
      seen == worker[w].seen
  IN /\ At(w, "move", "begun")
     /\ IF /\ seen # None
           /\ MayMove(j.by, j.val)
           /\ j.val \in CaseTransitions[seen.status]
           /\ j.val \in Terminal => j.n > 1
          THEN WriteCase(w, [seen EXCEPT !.status = j.val, !.reason = (@ \/ j.val \in Terminal),
                                         !.log = Append(cases[j.on].log, j.val)])
          ELSE Refuse(w)

DeskNext ==
  \E w \in Workers :
    \/ BeginFlow(w) \/ StartFlow(w) \/ RunFlow(w)
    \/ BeginDesk(w) \/ SetMode(w) \/ CreateDraft(w) \/ BeginVersion(w) \/ NewRuleVersion(w)
    \/ BeginRule(w) \/ ApproveRule(w) \/ ActivateRule(w) \/ DisableRule(w)
    \/ BeginAlert(w) \/ RaiseAlert(w) \/ BeginAlertView(w) \/ AcknowledgeAlert(w) \/ OpenCase(w)
    \/ BeginCase(w) \/ Claim(w) \/ Move(w)

-----------------------------------------------------------------------------
(* Properties.                                                             *)

Strictness == [ALLOW |-> 0, CHALLENGE |-> 1, REVIEW |-> 2, BLOCK |-> 3]

\* Of two operations of one kind that were evaluated under one mode, the one with
\* more points is never treated more mildly, whatever rules came and went in between.
EscalatesFor(ops) ==
  \A d, e \in DOMAIN evals :
    /\ evals[d].op \in ops /\ evals[e].op = evals[d].op
    /\ evals[d].status = "COMPLETED" /\ evals[e].status = "COMPLETED"
    /\ evals[d].mode = evals[e].mode
    /\ evals[d].score <= evals[e].score
    => Strictness[evals[d].outcome] <= Strictness[evals[e].outcome]

\* "Escalating control with risk" (policies.py), where the code has it: of two
\* transfers, or of two logins, the riskier one is never treated more mildly.
ControlEscalates == EscalatesFor({"TRANSFER", "LOGIN"})

\* Maker-checker of rules as the rows have it: a rule in force was approved, and
\* not by the manager its row names as creator (a version names none, see
\* AuthorsDoNotApprove), however approvals, activations and retirements that work
\* on stale instances interleave.
RulesApproved ==
  \A r \in DOMAIN rules :
    rules[r].enabled => rules[r].approver # None /\ rules[r].approver # rules[r].maker

\* The timeline of a case tells the truth: the last transition it records is the
\* status of the case, whoever else claims or moves the case meanwhile.
TimelineMatches ==
  \A c \in DOMAIN cases : cases[c].status = cases[c].log[Len(cases[c].log)]

\* What makes them inductive.  A rule is checked from its approval on, whatever
\* becomes of it, and a completed evaluation says what its score means.
RulesInv == \A r \in DOMAIN rules : OnItsWay(rules[r]) => Checked(rules[r])

EvalsInv ==
  \A e \in DOMAIN evals :
    /\ evals[e].status = "COMPLETED" =>
         evals[e].outcome = Outcome(evals[e].op, evals[e].mode,
                                    Decide(evals[e].op, RiskLevel(evals[e].score)))
    /\ evals[e].status # "EVALUATING" /\ evals[e].op \in {"LOGIN", "PASSWORD_CHANGE"} =>
         evals[e].outcome \in {"ALLOW", "CHALLENGE", "BLOCK"}

\* What a worker holds: rows may have changed since it read them, but a rule
\* keeps its maker, what was approved stays checked, and nothing is deleted; an
\* evaluation under way is still open.
DeskWorker(v) ==
  /\ DOMAIN v = DOMAIN Idle /\ v.eval \in 0 .. Len(evals)
  /\ v.pc # "idle" => WellFormed(v.job, rules)
  /\ v.pc # "idle" /\ v.job.op \in RuleOps =>
       /\ v.seen \in RuleRows /\ v.job.on \in DOMAIN rules
       /\ v.seen.maker = rules[v.job.on].maker
       /\ v.seen.lifecycle = "APPROVED" => Checked(rules[v.job.on])
  /\ v.pc # "idle" /\ v.job.op = "version" => v.seen \in RuleRows
  /\ v.pc # "idle" /\ v.job.op \in {"claim", "move"} /\ v.seen # None =>
       v.seen \in CaseRows /\ v.job.on \in DOMAIN cases
  /\ v.pc # "idle" /\ v.job.op = "alert" /\ v.seen = "missing" => v.job.on \in DOMAIN evals
  /\ v.pc = "evaluating" => v.eval \in DOMAIN evals /\ evals[v.eval].status = "EVALUATING"

DeskInv ==
  /\ DeskTypeOK /\ RulesInv /\ EvalsInv /\ TimelineMatches
  /\ \A j \in todo : WellFormed(j, rules)
  /\ DOMAIN worker = Workers /\ \A w \in Workers : DeskWorker(worker[w])
  /\ \A v, w \in Workers : v # w /\ worker[v].pc = "evaluating" /\ worker[w].pc = "evaluating"
                             => worker[v].eval # worker[w].eval

\* Not true.  "The creator of a rule version can never approve it"
\* (rule_management.py:4): approve_rule compares its actor with created_by, which
\* new_rule_version leaves empty.
AuthorsDoNotApprove ==
  \A r \in DOMAIN rules : OnItsWay(rules[r]) => rules[r].approver # rules[r].author

\* Not true.  The riskier of two operations of one kind is never treated more
\* mildly: a card purchase or a bill payment that is challenged at MEDIUM goes
\* through when HIGH asks for a review, and a password change that is challenged
\* at HIGH goes through at CRITICAL.
AllControlEscalates == EscalatesFor(Ops)

\* Not true.  Velocity is measured on attempted transfers "so that rapid-fire
\* attack sequences are visible even before settlement" (signals_velocity.py): a
\* rule in force about the velocity of transfers fires on a transfer that is too
\* fast.
VelocitySeen ==
  \A e \in DOMAIN evals :
    evals[e].op = "TRANSFER" /\ evals[e].status = "COMPLETED" =>
      \A r \in evals[e].eligible :
        rules[r].fact \in VelocitySignals \cap evals[e].facts => r \in evals[e].fired

\* Not true.  SOBRE.md:133 calls the terminal states of a case absorbing: none of
\* them is left.
TerminalAbsorbing ==
  [][\A c \in DOMAIN cases : cases[c].status \in Terminal => cases'[c].status = cases[c].status]_cases

=============================================================================
