----------------------------- MODULE MCTransfers -----------------------------
(* Instances of Transfers for TLC: two accounts, amounts of one to three     *)
(* units, and the limits and balances at which these amounts collide.       *)
EXTENDS Transfers, TLC

MCAccounts == {"a", "b"}

Send(src, dst, amt) == [src |-> src, dst |-> dst, amt |-> amt, scheduled |-> FALSE]
Order(src, dst, amt) == [src |-> src, dst |-> dst, amt |-> amt, scheduled |-> TRUE]

MCRich     == [a \in MCAccounts |-> IF a = "a" THEN 2 ELSE 0]
MCTxLimit  == [a \in MCAccounts |-> 2]
MCNoLimit  == [a \in MCAccounts |-> 9]

\* b has only what a sent, and what it sends back may meet a closed account.
MCTwo       == {Send("a", "b", 2), Order("b", "a", 2)}

\* Opposite requests; two of a's are above its daily limit, two of b's orders
\* above its balance.
MCRace      == {Send("a", "b", 2), Order("b", "a", 1)}
MCPair      == [a \in MCAccounts |-> IF a = "a" THEN 4 ELSE 1]
MCThree     == [a \in MCAccounts |-> 3]

MCOneSend   == {Send("a", "b", 2)}

SessionSymmetry == Permutations(Sessions)
=============================================================================
