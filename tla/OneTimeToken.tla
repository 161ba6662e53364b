---------------------------- MODULE OneTimeToken ----------------------------
(***************************************************************************)
(* What a step-up challenge promises (spec PART 10): an authorisation that *)
(* is issued once, used at most once, and never comes back to life after   *)
(* it was used or killed.  Challenge implements it.                        *)
(***************************************************************************)
EXTENDS Naturals

CONSTANT Tokens

VARIABLES
  token,   \* [Tokens -> {"none", "live", "used", "dead"}]
  uses     \* [Tokens -> Nat], how often each let something through

Lives == {<<"none", "live">>, <<"live", "used">>, <<"live", "dead">>}

Init == /\ token = [t \in Tokens |-> "none"]
        /\ uses = [t \in Tokens |-> 0]

\* One token at a time takes one step of its life; it is used in the one step
\* that makes it "used", and in no other: no step leads out of "used".
Next == \E t \in Tokens, v \in {"live", "used", "dead"} :
          /\ <<token[t], v>> \in Lives
          /\ token' = [token EXCEPT ![t] = v]
          /\ uses' = IF v = "used" THEN [uses EXCEPT ![t] = @ + 1] ELSE uses

Spec == Init /\ [][Next]_<<token, uses>>
=============================================================================
