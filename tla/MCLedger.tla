------------------------------ MODULE MCLedger ------------------------------
(* Instances of Ledger for TLC: a debit-normal and two credit-normal       *)
(* accounts in USD, one of them frozen, and one account in EUR.            *)
EXTENDS Ledger, TLC

MCAccounts    == {"cash", "customer", "frozen", "euro"}
MCCurrency    == [a \in MCAccounts |-> IF a = "euro" THEN "EUR" ELSE "USD"]
MCDebitNormal == {"cash"}
MCFrozen      == {"frozen"}

Move(from, m, to, n) == <<[account |-> from, side |-> "DEBIT", amount |-> m],
                          [account |-> to, side |-> "CREDIT", amount |-> n]>>

\* Balanced, unbalanced, all-zero, mixed-currency, to a frozen account, empty.
MCPostings == {Move("cash", 1, "customer", 1), Move("customer", 2, "cash", 1),
               Move("cash", 0, "customer", 0), Move("cash", 1, "euro", 1),
               Move("cash", 1, "frozen", 1), <<>>}
=============================================================================
