------------------------------ MODULE MCProducts ------------------------------
(* Instances of Products: one customer's cards on account a, a second account *)
(* b, a bill both could pay, a loan of two instalments, shares.              *)
EXTENDS Products, TLC

MCAccounts == {"a", "b"}
MCOwner    == [a \in MCAccounts |-> IF a = "a" THEN "alice" ELSE "bob"]
MCCards    == {"c", "d"}
MCCardOf   == [c \in MCCards |-> "a"]
MCCredit   == [c \in MCCards |-> IF c = "c" THEN 3 ELSE 0]
MCRich     == [a \in MCAccounts |-> 2]

Req(op, key, item, acct, amt, pick) ==
  [op |-> op, key |-> key, item |-> item, acct |-> acct, amt |-> amt, pick |-> pick]

\* Each pair of them collides in one thing: a card's limit, a balance, a bill,
\* an invoice, a loan, a position.
MCRequests ==
  {Req("purchase", "p1", "c", "a", 2, {}), Req("purchase", "p2", "c", "a", 1, {}),
   Req("purchase", "p3", "c", "a", 1, {}), Req("purchase", "p1", "d", "a", 2, {}),
   Req("paystmt", "all", "c", "a", 0, 0 .. MaxMonth), Req("paystmt", "m0", "c", "a", 0, {0}),
   Req("paybill", "k1", "gas", "a", 1, {}), Req("paybill", "k2", "gas", "b", 1, {}),
   Req("fund", "f", "", "b", 1, {}),
   Req("buy", "o1", "share", "b", 1, {}), Req("buy", "o2", "share", "b", 1, {}),
   Req("sell", "o2", "share", "b", 1, {}),
   Req("approve", "loan", "loan", "a", 2, {}),
   Req("repay", "i1", "i1", "a", 1, {}), Req("repay", "i2", "i2", "a", 1, {}),
   Req("repay", "i3", "i1", "a", 1, {})}

\* A purchase in two months, and the button that pays all open invoices.
MCPayAll ==
  {Req("purchase", "p1", "c", "a", 1, {}), Req("purchase", "p2", "c", "a", 1, {}),
   Req("paystmt", "all", "c", "a", 0, 0 .. MaxMonth)}
MCWealthy == [a \in MCAccounts |-> 9]

SessionSymmetry == Permutations(Sessions)
=============================================================================
