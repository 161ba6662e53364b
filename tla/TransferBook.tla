---------------------------- MODULE TransferBook ----------------------------
(***************************************************************************)
(* What the transfer service promises to whoever reads the database: a     *)
(* book of transfers and the balances that go with it.  A transfer enters  *)
(* the book once and from then on only moves along the legal transitions   *)
(* of apps/transfers/models.py, and every balance changes in the very step *)
(* in which a transfer completes or is reversed, by exactly its amount.    *)
(*                                                                         *)
(* CREATED and PROCESSING never appear: they live and die inside one       *)
(* database transaction.  Transfers implements this book.                  *)
(***************************************************************************)
EXTENDS Integers, Functions

CONSTANTS Accounts, Keys, InitialBalance, None

VARIABLES
  rows,   \* [Keys -> a transfer, or None]
  cash    \* [Accounts -> Int]

\* Steps between committed statuses: paths of ALLOWED_TRANSITIONS whose inner
\* statuses no other transaction sees.
Legal ==
  {<<"PENDING", "COMPLETED">>, <<"PENDING", "FAILED">>,
   <<"UNDER_REVIEW", "COMPLETED">>, <<"UNDER_REVIEW", "FAILED">>,
   <<"COMPLETED", "REVERSED">>}

Entry == {"PENDING", "UNDER_REVIEW", "COMPLETED", "FAILED"}

\* What a transfer adds to account a.
Worth(r, a) ==
  IF r = None \/ r.status # "COMPLETED" THEN 0
  ELSE (IF r.dst = a THEN r.amt ELSE 0) - (IF r.src = a THEN r.amt ELSE 0)

SameTransfer(r, q) == \A f \in {"src", "dst", "amt", "scheduled", "verdict"} : r[f] = q[f]

\* Transfer r of the book becomes q.
Moves(r, q) ==
  \/ q = r
  \/ r = None /\ q.status \in Entry
  \/ r # None /\ q # None /\ SameTransfer(r, q) /\ <<r.status, q.status>> \in Legal

Init ==
  /\ rows = [k \in Keys |-> None]
  /\ cash = InitialBalance

\* A transaction commits: one transfer moves, or a batch of them.
Next ==
  /\ \A k \in Keys : Moves(rows[k], rows'[k])
  /\ cash' = [a \in Accounts |-> cash[a] +
       SumFunction([k \in Keys |-> Worth(rows'[k], a) - Worth(rows[k], a)])]

Spec == Init /\ [][Next]_<<rows, cash>>
=============================================================================
