-------------------------------- MODULE Risk --------------------------------
(***************************************************************************)
(* The risk engine as functions (apps/fraud): which signals an operation   *)
(* can collect, which rules they trigger, the score, the policy decision   *)
(* and what each protected flow does with the decision.                    *)
(*                                                                         *)
(* A signal is a fact about the operation: "yes", "no", "none" when the    *)
(* object it is about is missing, "error" when the call itself fails.      *)
(* Amounts of risk are the real points, 0 to 100.                          *)
(***************************************************************************)
EXTENDS Integers, FiniteSets, Functions

Ops == {"TRANSFER", "CARD_PURCHASE", "BILL_PAYMENT", "ACCOUNT_OPENING", "LOGIN",
        "PASSWORD_CHANGE", "MANAGER_OPERATION"}
Modes     == {"SHADOW", "CHALLENGE_ONLY", "ENFORCEMENT"}
Decisions == {"ALLOW", "CHALLENGE", "REVIEW", "BLOCK"}

-----------------------------------------------------------------------------
(* Signals.  Each takes keyword arguments, the objects the flow passes to  *)
(* evaluate_operation, and raises TypeError on one it does not declare.    *)

ContextSignals == {"TRANSACTION_AMOUNT", "TIME_OF_DAY_HOUR", "DEVICE_IP_FAILED_LOGINS_24H"}
AccountSignals == {"ACCOUNT_AGE_DAYS"}
\* These fall back on the actor of the context.
ActorSignals == {"NEW_DEVICE", "DEVICE_FIRST_SEEN_HOURS", "FAILED_LOGIN_COUNT_24H",
                 "PASSWORD_CHANGED_RECENTLY_24H", "DEVICE_LAST_SEEN_HOURS"}
DeviceSignals   == {"DEVICE_USER_COUNT"}
TenureSignals   == {"CUSTOMER_TENURE_DAYS"}
LoginSignals    == {"IP_DIFFERS_FROM_LAST_LOGIN", "LOGIN_VELOCITY_15MIN", "MFA_FAILURE_COUNT_24H"}
NewPayeeSignals == {"NEW_BENEFICIARIES_24H"}
AtoSignals      == {"ATO_CORRELATION_POINTS"}
VelocitySignals == {"TRANSFER_VELOCITY_10MIN", "TRANSFER_VELOCITY_1H", "TRANSFER_VELOCITY_24H",
                    "TRANSFER_TOTAL_1H", "DAILY_TRANSFER_TOTAL"}
PayeeSignals    == {"BENEFICIARY_AGE_HOURS", "BENEFICIARY_IS_NEW"}
PairSignals     == {"FIRST_TRANSFER_TO_BENEFICIARY", "BENEFICIARY_TRANSFERS_24H"}
CardSignals     == {"CARD_VELOCITY_10MIN", "CARD_DAILY_SPEND", "CARD_RAPID_SEQUENCE"}

Registry == UNION {ContextSignals, AccountSignals, ActorSignals, DeviceSignals, TenureSignals,
                   LoginSignals, NewPayeeSignals, AtoSignals, VelocitySignals, PayeeSignals,
                   PairSignals, CardSignals}

\* The keyword arguments a signal declares.
Accepts(sig) ==
  CASE sig \in ContextSignals  -> {}
    [] sig \in AccountSignals  -> {"account"}
    [] sig \in VelocitySignals -> {"source_account"}
    [] sig \in PayeeSignals    -> {"beneficiary"}
    [] sig \in PairSignals     -> {"source_account", "beneficiary"}
    [] sig \in CardSignals     -> {"card"}
    [] OTHER                   -> {"user"}

\* The objects and context fields without which it has nothing to say.  A user
\* that is not passed is the actor of the context, except for the tenure.
NeedsBesides(sig) ==
  CASE sig = "TRANSACTION_AMOUNT"         -> {"amount"}
    [] sig = "IP_DIFFERS_FROM_LAST_LOGIN" -> {"ip"}
    [] sig \in TenureSignals              -> {"user"}
    [] sig \in DeviceSignals \cup {"DEVICE_FIRST_SEEN_HOURS", "DEVICE_LAST_SEEN_HOURS"} -> {"device"}
    [] OTHER                              -> {}
Needs(sig) == NeedsBesides(sig) \cup (Accepts(sig) \ {"user"})

\* The objects each protected flow passes, and the context fields it fills.
Supplied(op) == CASE op = "TRANSFER"      -> {"source_account", "user"}
                  [] op = "CARD_PURCHASE" -> {"card"}
                  [] OTHER                -> {}
Context(op) == CASE op \in {"TRANSFER", "CARD_PURCHASE", "BILL_PAYMENT"} -> {"amount"}
                 [] op \in {"LOGIN", "PASSWORD_CHANGE"}                  -> {"device", "ip"}
                 [] OTHER                                                -> {}
Known(op) == Supplied(op) \cup Context(op)

\* A request without a device counts as a new one.
Unseen(op, sig) == sig = "NEW_DEVICE" /\ "device" \notin Known(op)

\* collect: one value per registered signal, a failing one isolated.
Collect(op, facts) ==
  [sig \in Registry |->
     IF ~(Supplied(op) \subseteq Accepts(sig))    THEN "error"
     ELSE IF ~(Needs(sig) \subseteq Known(op))    THEN "none"
     ELSE IF sig \in facts \/ Unseen(op, sig)     THEN "yes" ELSE "no"]

-----------------------------------------------------------------------------
(* Rules.  A rule is a row: the operations it is for, the fact it is about  *)
(* ("" for a rule without conditions) and the points it adds.              *)

Eligible(rules, op) ==
  {r \in DOMAIN rules : /\ rules[r].lifecycle = "ACTIVE" /\ rules[r].enabled
                        /\ rules[r].ops = {} \/ op \in rules[r].ops}

ConditionMet(rule, values) == rule.fact = "" \/ values[rule.fact] = "yes"

\* evaluate_rules: the rows that fire, each (rule_id, version) once.
Triggered(rules, op, values) ==
  {r \in Eligible(rules, op) : ConditionMet(rules[r], values)}

-----------------------------------------------------------------------------
(* Score and policy.                                                       *)

Clamp(n) == IF n < 0 THEN 0 ELSE IF n > 100 THEN 100 ELSE n

\* The sum of the points of the rules that fired, clamped to 0..100.
Score(rules, fired) == Clamp(SumFunction([r \in fired |-> rules[r].score]))

RiskLevel(score) == IF score < 30 THEN "LOW" ELSE IF score < 60 THEN "MEDIUM"
                    ELSE IF score < 80 THEN "HIGH" ELSE "CRITICAL"

\* The level -> decision mapping of an operation, or the default one.
Policy(op) ==
  CASE op \in {"PASSWORD_CHANGE", "PROFILE_UPDATE"} ->
         [LOW |-> "ALLOW", MEDIUM |-> "ALLOW", HIGH |-> "CHALLENGE", CRITICAL |-> "REVIEW"]
    [] op = "LOGIN" ->
         [LOW |-> "ALLOW", MEDIUM |-> "CHALLENGE", HIGH |-> "CHALLENGE", CRITICAL |-> "BLOCK"]
    [] OTHER ->
         [LOW |-> "ALLOW", MEDIUM |-> "CHALLENGE", HIGH |-> "REVIEW", CRITICAL |-> "BLOCK"]
Decide(op, level) == Policy(op)[level]

-----------------------------------------------------------------------------
(* What a decision does.                                                   *)

\* Mutant of EffectiveDecision: CHALLENGE_ONLY softens REVIEW and forgets BLOCK.
EffectiveDecision_ReviewOnly(mode, decision) ==
  CASE mode = "SHADOW"                                  -> "ALLOW"
    [] mode = "CHALLENGE_ONLY" /\ decision = "REVIEW"   -> "CHALLENGE"
    [] mode = "CHALLENGE_ONLY" /\ decision = "BLOCK"    -> "ALLOW"
    [] OTHER                                            -> decision

\* effective_decision: SHADOW never interferes, CHALLENGE_ONLY challenges what
\* policy would review or block.
EffectiveDecision(mode, decision) ==
  CASE mode = "SHADOW"                                              -> "ALLOW"
    [] mode = "CHALLENGE_ONLY" /\ decision \in {"REVIEW", "BLOCK"}  -> "CHALLENGE"
    [] OTHER                                                        -> decision

\* gate.enforce, and the same test written out in the gate of transfers.
Enforce(mode, decision) ==
  CASE EffectiveDecision(mode, decision) = "CHALLENGE"             -> "CHALLENGE"
    [] mode = "ENFORCEMENT" /\ decision \in {"BLOCK", "REVIEW"}    -> decision
    [] OTHER                                                       -> "ALLOW"

\* Card purchases and bill payments drop the verdict that enforce returns, so
\* REVIEW proceeds; only an exception stops them.
EnforceAndProceed(mode, decision) ==
  IF Enforce(mode, decision) = "REVIEW" THEN "ALLOW" ELSE Enforce(mode, decision)

\* _effective_login_action and sensitive_action_decision.
SignInAction(mode, decision) ==
  IF EffectiveDecision(mode, decision) \in {"BLOCK", "CHALLENGE"}
    THEN EffectiveDecision(mode, decision) ELSE "ALLOW"

\* An account opening and a manager operation are only observed.
Outcome(op, mode, decision) ==
  CASE op = "TRANSFER"                          -> Enforce(mode, decision)
    [] op \in {"CARD_PURCHASE", "BILL_PAYMENT"} -> EnforceAndProceed(mode, decision)
    [] op \in {"LOGIN", "PASSWORD_CHANGE"}      -> SignInAction(mode, decision)
    [] OTHER                                    -> "ALLOW"

\* resolve_failure: money movement fails open, the rest fails closed.
FailsOpen(op) == op \in {"TRANSFER", "CARD_PURCHASE", "BILL_PAYMENT", "ACCOUNT_OPENING"}

\* What a flow does when the engine raises; the mode is read again.  A manager
\* operation goes on although the matrix says closed.
OutcomeOfFailure(op, mode) ==
  IF op \in {"LOGIN", "PASSWORD_CHANGE"} /\ ~FailsOpen(op) /\ mode # "SHADOW"
    THEN "BLOCK" ELSE "ALLOW"

-----------------------------------------------------------------------------
(* Correlated factors of an account takeover (ato.py): nothing below two   *)
(* distinct factors, then 5 + 25 a factor.                                 *)

AtoPoints(factors) ==
  IF Cardinality(factors) < 2 THEN 0 ELSE Clamp(5 + 25 * Cardinality(factors))

=============================================================================
