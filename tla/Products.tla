------------------------------- MODULE Products -------------------------------
(***************************************************************************)
(* What else moves a customer's money: card purchases, invoices and their  *)
(* payment (apps/cards), bills (apps/payments), orders (apps/investments), *)
(* loans (apps/lending) and deposits (apps/accounts), each a transaction   *)
(* of a PostgreSQL session at READ COMMITTED.                              *)
(*                                                                         *)
(* Every operation reads, locks, decides, writes and commits.  They differ *)
(* in what they lock: FOR UPDATE on a card takes its account along, bills, *)
(* orders and deposits lock the account, a repayment its instalment only,  *)
(* the closing of invoices nothing (but its insert waits for who holds the *)
(* card, whose row its foreign key names).  The unique key of a row is     *)
(* checked at the commit that shows it: nothing is read in between.        *)
(*                                                                         *)
(* There is no balance column: a balance is computed from `rows`, the      *)
(* settled operations, each with its journal.  Accounts are ACTIVE, and an *)
(* instrument costs one unit.  The clock knows one day of each month.      *)
(***************************************************************************)
EXTENDS Integers, FiniteSets, FiniteSetsExt

CONSTANTS
  Sessions,        \* web workers and the cron job
  Accounts,
  Owner,           \* [Accounts -> customers]
  Cards,
  CardAccount,     \* [Cards -> Accounts]
  CreditCards,     \* the other cards are debit cards
  CreditLimit,     \* [Cards -> Nat]
  DailyLimits,     \* the daily limits a customer may choose for a card
  Instalments,     \* of the loan
  LoanAmount, ProductMax,
  Requests,        \* what customers and managers ask for
  InitialBalance,  \* [Accounts -> Nat]
  MaxMonth,        \* the clock stops here
  MaxRows,         \* with so many operations settled or under way nothing is asked for
  None

Months    == 0 .. MaxMonth
Customers == {Owner[a] : a \in Accounts}
Debits    == {"purchase", "paystmt", "paybill", "buy", "repay"}
Credits   == {"fund", "sell", "approve"}
CardOps   == {"purchase", "paystmt"}

\* item is the card, bill, instalment, instrument or loan concerned; acct the
\* account it is settled from; pick the invoices asked for (paystmt).
Request == [op : Debits \cup Credits, key : STRING \cup {None}, item : STRING, acct : Accounts,
            amt : Nat, pick : SUBSET Months]

\* A settled operation: when, and which invoices it paid.
Row == [op : Debits \cup Credits, key : STRING \cup {None}, item : STRING, acct : Accounts,
        amt : Nat, month : Months, pays : SUBSET Months]

ASSUME ProductsAssumption ==
  /\ Cards \subseteq STRING /\ CardAccount \in [Cards -> Accounts] /\ CreditCards \subseteq Cards
  /\ CreditLimit \in [Cards -> Nat]
  /\ DailyLimits \subseteq Nat /\ DailyLimits # {} /\ IsFiniteSet(DailyLimits)
  /\ InitialBalance \in [Accounts -> Nat] /\ Requests \subseteq Request
  /\ {LoanAmount, ProductMax, MaxMonth, MaxRows} \subseteq Nat /\ ProductMax > 0
  /\ \A q \in Requests : q.op \in CardOps => q.item \in Cards /\ q.acct = CardAccount[q.item]
  /\ \A p, q \in Requests : p.op = "approve" /\ q.op = "approve" => p.item = q.item
  /\ Accounts \subseteq DOMAIN Owner /\ IsFiniteSet(Accounts)
  /\ None \notin Sessions /\ None # "PAID" /\ None \notin [due : Nat, paid : BOOLEAN]

VARIABLES
  rows,        \* committed purchases, payments, orders, disbursements, ...
  cards,       \* [Cards -> [status, daily]]
  statements,  \* [Cards -> [Months -> CreditStatement of the month, or None]]
  loan,        \* LoanApplication: [status, score]
  position,    \* [Customers -> Nat], of the one instrument
  month,
  ses          \* what each session is doing

vars == <<rows, cards, statements, loan, position, month, ses>>

LoanStatuses == {"NONE", "REVIEW", "APPROVED", "REJECTED", "ACTIVE", "PAID"}

\* op, pc:    the operation ("close" is the cron job's) and its next statement
\* req:       the request, with the amount and the invoices once they are known
\* month:     the created_at of what it writes
\* seen:      the position it read
\* loanTo:    the loan status it writes
\* held:      rows it has locked
Session == [op : Debits \cup Credits \cup {"none", "close"},
            pc : {"idle", "lock", "lockBill", "check", "commit"},
            req : Request \cup {None}, month : Months, seen : Nat,
            loanTo : LoanStatuses \cup {None},
            held : SUBSET ({"card", "account", "bill", "instalment", "loan"}
                              \X (STRING \cup Accounts))]

Idle == [op |-> "none", pc |-> "idle", req |-> None, month |-> 0, seen |-> 0,
         loanTo |-> None, held |-> {}]

TypeOK ==
  /\ rows \subseteq Row /\ IsFiniteSet(rows)
  /\ cards \in [Cards -> [status : {"ACTIVE", "FROZEN", "BLOCKED"}, daily : DailyLimits]]
  /\ statements \in [Cards -> [Months -> [due : Nat, paid : BOOLEAN] \cup {None}]]
  /\ loan \in [status : LoanStatuses, score : 300 .. 850]
  /\ position \in [Customers -> Nat]
  /\ month \in Months
  /\ ses \in [Sessions -> Session]

Init ==
  /\ rows = {}
  /\ cards \in [Cards -> {[status |-> "ACTIVE", daily |-> Max(DailyLimits)]}]
  /\ statements = [c \in Cards |-> [m \in Months |-> None]]
  /\ loan = [status |-> "NONE", score |-> 300]
  /\ position = [o \in Customers |-> 0]
  /\ month = 0
  /\ ses = [s \in Sessions |-> Idle]

-----------------------------------------------------------------------------
(* What a statement reads.                                                 *)

TotalOf(R) == SumFunction([r \in R |-> r.amt])

\* account_balance: nothing but the journals.
Balance(a) ==
  InitialBalance[a] + TotalOf({r \in rows : r.acct = a /\ r.op \in Credits})
                    - TotalOf({r \in rows : r.acct = a /\ r.op \in Debits})

Purchases(c, M) == {r \in rows : r.op = "purchase" /\ r.item = c /\ r.month \in M}

Invoices(c, M, p) == {m \in M : statements[c][m] # None /\ statements[c][m].paid = p}

AmountDue(c, M) == SumFunction([m \in M |-> statements[c][m].due])

CreditUsed(c) == TotalOf(Purchases(c, Months)) - AmountDue(c, Invoices(c, Months, TRUE))

\* find_idempotent, Order and Payment by key: buys and sells share their keys.
Done(q) ==
  \E r \in rows : r.key = q.key /\ (r.op = q.op \/ {r.op, q.op} = {"buy", "sell"})

BillPaid(b)       == \E r \in rows : r.op = "paybill" /\ r.item = b
InstalmentPaid(i) == \E r \in rows : r.op = "repay" /\ r.item = i
Disbursed         == \E r \in rows : r.op = "approve"

\* credit_score.
CreditScore(active) ==
  Max({300, Min({850, 600 + (IF active THEN 100 ELSE 0) - (100 * LoanAmount) \div ProductMax})})

At(s, op, pc) == ses[s].op \in op /\ ses[s].pc = pc

Holds(t, r) == r \in ses[t].held

Free(s, R) == \A t \in Sessions \ {s} : ses[t].held \cap R = {}

Abandon(s) ==
  /\ ses' = [ses EXCEPT ![s] = Idle]
  /\ UNCHANGED <<rows, cards, statements, loan, position, month>>

Local(s, w) ==
  /\ ses' = [ses EXCEPT ![s] = w]
  /\ UNCHANGED <<rows, cards, statements, loan, position, month>>

-----------------------------------------------------------------------------
(* Requests and locks.                                                     *)

\* A risk gate that stops a request leaves no trace here: its decline rows have
\* no journal.
Ask(s, q) ==
  /\ ses[s].pc = "idle"
  /\ Cardinality(rows) + Cardinality({t \in Sessions : ses[t].op # "none"}) < MaxRows
  /\ Local(s, [Idle EXCEPT !.op = q.op, !.pc = "lock", !.req = q])

\* A key that has settled is answered at once, before any lock...
Purchase(s, q) == q.op = "purchase" /\ ~Done(q) /\ Ask(s, q)

PayBill(s, q) == q.op = "paybill" /\ ~Done(q) /\ Ask(s, q)

PlaceOrder(s, q) == q.op \in {"buy", "sell"} /\ ~Done(q) /\ Ask(s, q)

FundAccount(s, q) == q.op = "fund" /\ ~Done(q) /\ Ask(s, q)

\* ...but invoices and instalments look under the lock.
PayStatement(s, q) == q.op = "paystmt" /\ Ask(s, q)

RepayInstalment(s, q) == q.op = "repay" /\ Disbursed /\ Ask(s, q)

\* The manager's application object is from an earlier read.
ApproveLoan(s, q) == q.op = "approve" /\ loan.status = "REVIEW" /\ Ask(s, q)

\* Mutant of Locks: bills and orders do not lock the account.
Locks_NoAccount(q) ==
  CASE q.op \in CardOps -> {<<"card", q.item>>, <<"account", q.acct>>}
    [] q.op \in {"paybill", "fund", "buy", "sell"} -> {}
    [] q.op = "repay" -> {<<"instalment", q.item>>}
    [] q.op = "approve" -> {<<"loan", q.item>>}

\* Mutant of Locks: the card is read without FOR UPDATE.
Locks_NoCard(q) ==
  CASE q.op \in CardOps -> {}
    [] q.op \in {"paybill", "fund", "buy", "sell"} -> {<<"account", q.acct>>}
    [] q.op = "repay" -> {<<"instalment", q.item>>}
    [] q.op = "approve" -> {<<"loan", q.item>>}

\* What the first statement of the transaction locks: select_for_update() with
\* select_related locks the joined account too; approve() updates its row.
Locks(q) ==
  CASE q.op \in CardOps -> {<<"card", q.item>>, <<"account", q.acct>>}
    [] q.op \in {"paybill", "fund", "buy", "sell"} -> {<<"account", q.acct>>}
    [] q.op = "repay" -> {<<"instalment", q.item>>}
    [] q.op = "approve" -> {<<"loan", q.item>>}

Lock(s) ==
  LET q == ses[s].req
  IN /\ ses[s].pc = "lock"
     /\ Free(s, Locks(q))
     /\ Local(s, [ses[s] EXCEPT !.held = Locks(q),
                                !.pc = IF q.op = "paybill" THEN "lockBill" ELSE "check"])

\* Mutant of LockBill: get() instead of select_for_update().
LockBill_Unlocked(s) ==
  /\ At(s, {"paybill"}, "lockBill")
  /\ Local(s, [ses[s] EXCEPT !.pc = "check"])

LockBill(s) ==
  LET b == <<"bill", ses[s].req.item>>
  IN /\ At(s, {"paybill"}, "lockBill")
     /\ Free(s, {b})
     /\ Local(s, [ses[s] EXCEPT !.held = @ \cup {b}, !.pc = "check"])

-----------------------------------------------------------------------------
(* Decisions: each ends in an exception, a replay, or what is to be written. *)

\* _purchase_atomic: hard controls, limits, funds.  (Switches for online and
\* foreign use decline as a frozen card does.)
CheckPurchase(s) ==
  LET q == ses[s].req
      c == q.item
  IN /\ At(s, {"purchase"}, "check")
     /\ IF \/ Done(q)
           \/ cards[c].status # "ACTIVE"
           \/ TotalOf(Purchases(c, {month})) + q.amt > cards[c].daily
           \/ IF c \in CreditCards THEN CreditUsed(c) + q.amt > CreditLimit[c]
                                   ELSE Balance(q.acct) < q.amt
          THEN Abandon(s)
          ELSE Local(s, [ses[s] EXCEPT !.pc = "commit", !.month = month])

\* pay_statement: the unpaid invoices asked for, and their total.
CheckStatements(s) ==
  LET q   == ses[s].req
      due == Invoices(q.item, q.pick, FALSE)
      sum == AmountDue(q.item, due)
  IN /\ At(s, {"paystmt"}, "check")
     /\ IF Done(q) \/ due = {} \/ Balance(q.acct) < sum
          THEN Abandon(s)
          ELSE Local(s, [ses[s] EXCEPT !.pc = "commit", !.month = month,
                                       !.req.amt = sum, !.req.pick = due])

CheckBill(s) ==
  LET q == ses[s].req
  IN /\ At(s, {"paybill"}, "check")
     /\ IF Balance(q.acct) < q.amt \/ BillPaid(q.item)
          THEN Abandon(s)
          ELSE Local(s, [ses[s] EXCEPT !.pc = "commit", !.month = month])

CheckDeposit(s) ==
  /\ At(s, {"fund"}, "check")
  /\ Local(s, [ses[s] EXCEPT !.pc = "commit", !.month = month])

\* place_order: funds for a purchase, shares for a sale.
CheckOrder(s) ==
  LET q == ses[s].req
      pos == position[Owner[q.acct]]
  IN /\ At(s, {"buy", "sell"}, "check")
     /\ IF (q.op = "buy" /\ Balance(q.acct) < q.amt) \/ (q.op = "sell" /\ pos < q.amt)
          THEN Abandon(s)
          ELSE Local(s, [ses[s] EXCEPT !.pc = "commit", !.month = month, !.seen = pos])

\* Mutant of CheckRepayment: the loan is paid when its last instalment is.
CheckRepayment_Last(s) ==
  LET q == ses[s].req
  IN /\ At(s, {"repay"}, "check")
     /\ IF Done(q) \/ InstalmentPaid(q.item) \/ Balance(q.acct) < q.amt
          THEN Abandon(s)
          ELSE Local(s, [ses[s] EXCEPT !.pc = "commit", !.month = month, !.loanTo =
                    IF q.item = CHOOSE i \in Instalments : TRUE THEN "PAID" ELSE None])

\* repay_installment: the balance of an account nobody locked; was it the last?
CheckRepayment(s) ==
  LET q == ses[s].req
  IN /\ At(s, {"repay"}, "check")
     /\ IF Done(q) \/ InstalmentPaid(q.item) \/ Balance(q.acct) < q.amt
          THEN Abandon(s)
          ELSE Local(s, [ses[s] EXCEPT !.pc = "commit", !.month = month, !.loanTo =
                    IF \A i \in Instalments \ {q.item} : InstalmentPaid(i)
                      THEN "PAID" ELSE None])

\* approve() and disburse(): the loan is paid out under its marker, once; a
\* second approval leaves APPROVED, which it has just written.
CheckLoan(s) ==
  /\ At(s, {"approve"}, "check")
  /\ Local(s, [ses[s] EXCEPT !.pc = "commit", !.month = month, !.loanTo =
       CASE loan.score < 550 -> "REJECTED"
         [] loan.score >= 550 /\ Disbursed -> "APPROVED"
         [] OTHER -> "ACTIVE"])

-----------------------------------------------------------------------------
(* Commits.                                                                *)

\* Postings to a ledger account wait for a card operation, which has locked it.
CardOpHolds(s, a) ==
  \E t \in Sessions \ {s} : ses[t].op \in CardOps /\ Holds(t, <<"account", a>>)

RowOf(w) == [op |-> w.op, key |-> w.req.key, item |-> w.req.item, acct |-> w.req.acct,
             amt |-> w.req.amt, month |-> w.month, pays |-> w.req.pick]

Enter(s) ==
  /\ rows' = rows \cup {RowOf(ses[s])}
  /\ ses' = [ses EXCEPT ![s] = Idle]
  /\ UNCHANGED <<cards, month>>

\* A row whose key has been taken meanwhile is an IntegrityError.
Settle(s, op) ==
  /\ At(s, {op}, "commit")
  /\ IF Done(ses[s].req) THEN Abandon(s) ELSE Enter(s) /\ UNCHANGED <<statements, loan, position>>

SettlePurchase(s) == Settle(s, "purchase")
SettleBill(s)     == Settle(s, "paybill")
SettleDeposit(s)  == Settle(s, "fund")

\* stmts.update(paid=True); only this session can have touched them since.
SettleStatements(s) ==
  LET q == ses[s].req
  IN /\ At(s, {"paystmt"}, "commit")
     /\ Enter(s)
     /\ statements' = [statements EXCEPT ![q.item] = [m \in Months |->
          IF m \in q.pick THEN [@[m] EXCEPT !.paid = TRUE] ELSE @[m]]]
     /\ UNCHANGED <<loan, position>>

\* The position it read, changed and written back.
SettleOrder(s) ==
  LET q == ses[s].req
  IN /\ At(s, {"buy", "sell"}, "commit")
     /\ IF Done(q)
          THEN Abandon(s)
          ELSE /\ Enter(s)
               /\ position' = [position EXCEPT ![Owner[q.acct]] =
                    IF q.op = "buy" THEN ses[s].seen + q.amt ELSE ses[s].seen - q.amt]
               /\ UNCHANGED <<statements, loan>>

\* The instalment, and after the last one the loan, whose row an approval may hold.
SettleRepayment(s) ==
  LET w == ses[s]
  IN /\ At(s, {"repay"}, "commit")
     /\ ~CardOpHolds(s, w.req.acct)
     /\ w.loanTo # None => \A t \in Sessions \ {s} : ses[t].op = "approve" => ses[t].held = {}
     /\ IF Done(w.req)
          THEN Abandon(s)
          ELSE /\ Enter(s)
               /\ loan' = IF w.loanTo = None THEN loan ELSE [loan EXCEPT !.status = w.loanTo]
               /\ UNCHANGED <<statements, position>>

SettleLoan(s) ==
  /\ At(s, {"approve"}, "commit")
  /\ ~CardOpHolds(s, ses[s].req.acct)
  /\ loan' = [loan EXCEPT !.status = ses[s].loanTo]
  /\ IF ses[s].loanTo = "ACTIVE"
       THEN Enter(s)
       ELSE ses' = [ses EXCEPT ![s] = Idle] /\ UNCHANGED <<rows, cards, month>>
  /\ UNCHANGED <<statements, position>>

-----------------------------------------------------------------------------
(* Invoices, card controls, the loan application, the clock.               *)

\* Mutant of CloseCycle: everything up to the end of the cycle.
CloseCycle_NoStart(s, c, m) ==
  LET t == TotalOf(Purchases(c, 0 .. m))
  IN /\ ses[s].pc = "idle" /\ c \in CreditCards /\ t > 0
     /\ Local(s, [Idle EXCEPT !.op = "close", !.pc = "commit", !.month = m, !.req =
          [op |-> "purchase", key |-> None, item |-> c, acct |-> CardAccount[c], amt |-> t,
           pick |-> {}]])

\* close_card_statements, for one card: the total of the month before today or
\* before any other date the command is given as --reference: of any month.
CloseCycle(s, c, m) ==
  LET t == TotalOf(Purchases(c, {m}))
  IN /\ ses[s].pc = "idle" /\ c \in CreditCards /\ t > 0
     /\ Local(s, [Idle EXCEPT !.op = "close", !.pc = "commit", !.month = m, !.req =
          [op |-> "purchase", key |-> None, item |-> c, acct |-> CardAccount[c], amt |-> t,
           pick |-> {}]])

\* Mutant of InsertStatement: update_or_create.
InsertStatement_Rewrites(s) ==
  LET c == ses[s].req.item
  IN /\ At(s, {"close"}, "commit")
     /\ Free(s, {<<"card", c>>})
     /\ statements' = [statements EXCEPT ![c][ses[s].month] =
                         [due |-> ses[s].req.amt, paid |-> FALSE]]
     /\ ses' = [ses EXCEPT ![s] = Idle]
     /\ UNCHANGED <<rows, cards, loan, position, month>>

\* get_or_create, in autocommit: an invoice that exists is left alone.
InsertStatement(s) ==
  LET c == ses[s].req.item
      m == ses[s].month
  IN /\ At(s, {"close"}, "commit")
     /\ Free(s, {<<"card", c>>})
     /\ statements' = IF statements[c][m] = None
                        THEN [statements EXCEPT ![c][m] = [due |-> ses[s].req.amt, paid |-> FALSE]]
                        ELSE statements
     /\ ses' = [ses EXCEPT ![s] = Idle]
     /\ UNCHANGED <<rows, cards, loan, position, month>>

\* set_card_control reads and writes nothing but the card it has locked.
SetCardControl(c, st, d) ==
  /\ Free(None, {<<"card", c>>})
  /\ cards[c].status # "BLOCKED"
  /\ cards' = [cards EXCEPT ![c] = [status |-> st, daily |-> d]]
  /\ UNCHANGED <<rows, statements, loan, position, month, ses>>

ApplyForLoan(active) ==
  /\ loan.status = "NONE"
  /\ loan' = [status |-> "REVIEW", score |-> CreditScore(active)]
  /\ UNCHANGED <<rows, cards, statements, position, month, ses>>

Tick ==
  /\ month < MaxMonth
  /\ month' = month + 1
  /\ UNCHANGED <<rows, cards, statements, loan, position, ses>>

\* The worker dies: PostgreSQL rolls back.
Crash(s) == ses[s].pc # "idle" /\ Abandon(s)

Next ==
  \/ \E s \in Sessions :
       \/ \E q \in Requests :
            \/ Purchase(s, q) \/ PayBill(s, q) \/ PlaceOrder(s, q) \/ FundAccount(s, q)
            \/ PayStatement(s, q) \/ RepayInstalment(s, q) \/ ApproveLoan(s, q)
       \/ Lock(s) \/ LockBill(s)
       \/ CheckPurchase(s) \/ CheckStatements(s) \/ CheckBill(s) \/ CheckDeposit(s)
       \/ CheckOrder(s) \/ CheckRepayment(s) \/ CheckLoan(s)
       \/ SettlePurchase(s) \/ SettleBill(s) \/ SettleDeposit(s) \/ SettleStatements(s)
       \/ SettleOrder(s) \/ SettleRepayment(s) \/ SettleLoan(s)
       \/ \E c \in Cards, m \in Months : CloseCycle(s, c, m)
       \/ InsertStatement(s)
       \/ Crash(s)
  \/ \E c \in Cards, st \in {"ACTIVE", "FROZEN", "BLOCKED"}, d \in DailyLimits :
       SetCardControl(c, st, d)
  \/ \E active \in BOOLEAN : ApplyForLoan(active)
  \/ Tick

Spec == Init /\ [][Next]_vars

-----------------------------------------------------------------------------
(* Properties.                                                             *)

\* What repayments and credit purchases have debited, and the balance without.
Unchecked(a) ==
  {r \in rows : r.acct = a /\ (r.op = "repay" \/ (r.op = "purchase" /\ r.item \in CreditCards))}

Spare(a) == Balance(a) + TotalOf(Unchecked(a))

\* Purchases on debit cards, invoice payments, bills and orders lock the account
\* they check: together they never spend more than it has, and what is missing
\* is what repayments (which lock the instalment) and credit purchases (which
\* look at the credit limit, and debit the account all the same) took.
DebitsCovered == \A a \in Accounts : Spare(a) >= 0

\* A purchase settles only on a card that is active as it settles, within the
\* daily and the credit limit the card then has, whatever runs beside it.
PurchasesAuthorised ==
  [][\A r \in rows' \ rows : r.op = "purchase" =>
       /\ cards[r.item].status = "ACTIVE"
       /\ TotalOf({p \in rows' : p.op = "purchase" /\ p.item = r.item /\ p.month = r.month})
            <= cards[r.item].daily
       /\ r.item \in CreditCards => CreditUsed(r.item) + r.amt <= CreditLimit[r.item]]_vars

\* Whatever the key and whoever asks: a bill, an instalment and an invoice are
\* paid once, and the loan is paid out once.
SettledOnce ==
  \A r, p \in rows : r # p /\ r.op = p.op =>
    /\ r.op \in {"paybill", "repay"} => r.item # p.item
    /\ r.op # "approve"
    /\ r.op = "paystmt" /\ r.item = p.item => r.pays \cap p.pays = {}

\* Whichever month is closed, whenever, however often and by however many runs
\* of the command at once: no invoice asks for more than the purchases of its
\* month, so that no purchase is billed twice.
BilledWithinPurchases ==
  \A c \in Cards, m \in Months : statements[c][m] # None =>
    statements[c][m].due <= TotalOf(Purchases(c, {m}))

\* A closed invoice is history: it is only ever marked paid, in the step that
\* debits its amount.
InvoicesStand ==
  [][\A c \in Cards, m \in Months : statements[c][m] # None /\ statements'[c][m] # statements[c][m]
       => /\ statements'[c][m] = [statements[c][m] EXCEPT !.paid = TRUE]
          /\ \E r \in rows' \ rows : /\ r.op = "paystmt" /\ r.item = c /\ m \in r.pays
                                     /\ r.amt = AmountDue(c, r.pays)]_vars

\* A loan marked PAID has no open instalment.
PaidLoansArePaid ==
  loan.status = "PAID" => \A i \in Instalments : InstalmentPaid(i)

Ordered(o, op) == TotalOf({r \in rows : r.op = op /\ Owner[r.acct] = o})

\* The shares of a customer with one account are those the orders bought and did
\* not sell.
PositionsMatchOrders ==
  \A o \in Customers : Cardinality({a \in Accounts : Owner[a] = o}) = 1 =>
    position[o] = Ordered(o, "buy") - Ordered(o, "sell")

\* Not true: paying all open invoices pays them.  The key of the page's button is
\* the same every time, and a key that was settled once is answered as before.
PayingAllPays ==
  [][\A s \in Sessions :
       At(s, {"paystmt"}, "check") /\ ses'[s].pc = "idle" /\ Done(ses[s].req) =>
         Invoices(ses[s].req.item, ses[s].req.pick, FALSE) = {}]_vars

\* Not true: so are those of a customer with two.  Orders of one account do not
\* exclude those of the other, and the position is read and written without a
\* lock of its own.
AllPositionsMatchOrders ==
  \A o \in Customers : position[o] = Ordered(o, "buy") - Ordered(o, "sell")

\* Not true: a credit purchase is charged once.  It debits the account at once,
\* as a debit purchase does, and the payment of its invoice debits it again.
ChargedOnce ==
  \A c \in Cards : TotalOf({r \in rows : r.op \in CardOps /\ r.item = c})
                     <= TotalOf(Purchases(c, Months))

\* Not true: no month is closed before it is over.  Nothing compares --reference
\* with today.
InvoicedWhenOver ==
  \A c \in Cards, m \in Months : statements[c][m] # None => m < month

\* Not true: every purchase of a closed month is on its invoice.  One that was
\* made before midnight and commits after the closing is on none, nor is the
\* rest of a month that was closed before it was over.
InvoicesComplete ==
  \A c \in Cards, m \in Months : statements[c][m] # None =>
    statements[c][m].due = TotalOf(Purchases(c, {m}))

-----------------------------------------------------------------------------
(* The inductive invariant, in parts; w is what a session is doing.        *)

Shaped(w) ==
  /\ w \in Session
  /\ w.pc = "idle" => w.op = "none" /\ w.held = {}
  /\ w.pc # "idle" => w.op # "none" /\ w.req \in Request
  /\ w.op \in Debits \cup Credits => w.req.op = w.op
  /\ w.op \in CardOps \cup {"close"} => w.req.item \in Cards
  /\ w.op = "approve" => \E q \in Requests : q.op = "approve" /\ q.item = w.req.item

\* Whoever is past its first statement holds what that one locks.
Covered(w) ==
  /\ w.op \in Debits \cup Credits /\ w.pc \in {"lockBill", "check", "commit"} =>
       Locks(w.req) \subseteq w.held
  /\ w.op = "paybill" /\ w.pc \in {"check", "commit"} => <<"bill", w.req.item>> \in w.held

\* The operations that have compared their amount with an account they hold.
Funded(w) == \/ w.op \in {"paystmt", "paybill", "buy"}
             \/ w.op = "purchase" /\ w.req.item \notin CreditCards

\* What was found before it is written is still so: locks keep it, or it is of
\* a kind that others cannot undo.
Ready(w) ==
  LET q == w.req
  IN /\ w.op = "purchase" =>
          /\ cards[q.item].status = "ACTIVE"
          /\ TotalOf(Purchases(q.item, {w.month})) + q.amt <= cards[q.item].daily
          /\ q.item \in CreditCards => CreditUsed(q.item) + q.amt <= CreditLimit[q.item]
     /\ Funded(w) => Spare(q.acct) >= q.amt
     /\ w.op = "paystmt" => /\ q.pick # {} /\ q.pick \subseteq Invoices(q.item, Months, FALSE)
                            /\ q.amt = AmountDue(q.item, q.pick)
     /\ w.op = "paybill" => ~BillPaid(q.item)
     /\ w.op = "sell" => w.seen >= q.amt
     /\ w.op \in {"buy", "sell"} /\ Cardinality({a \in Accounts : Owner[a] = Owner[q.acct]}) = 1 =>
          w.seen = position[Owner[q.acct]]
     /\ w.op = "repay" => /\ ~InstalmentPaid(q.item)
                          /\ w.loanTo # None => w.loanTo = "PAID" /\
                               \A i \in Instalments \ {q.item} : InstalmentPaid(i)
     /\ w.op = "approve" => /\ w.loanTo \in {"REJECTED", "APPROVED", "ACTIVE"}
                            /\ w.loanTo = "ACTIVE" => ~Disbursed
     /\ w.op = "close" => q.amt <= TotalOf(Purchases(q.item, {w.month}))

SessionsSound ==
  \A s \in Sessions :
    Shaped(ses[s]) /\ Covered(ses[s]) /\ (ses[s].pc = "commit" => Ready(ses[s]))

\* No row is locked twice.
LocksApart == \A s \in Sessions : \A t \in Sessions \ {s} : ses[s].held \cap ses[t].held = {}

\* The invoices a settled payment names are marked paid.
PaymentsMarked ==
  \A r \in rows : r.op = "paystmt" =>
    /\ r.item \in Cards
    /\ \A m \in r.pays : statements[r.item][m] # None /\ statements[r.item][m].paid

PInv == /\ TypeOK /\ SessionsSound /\ LocksApart /\ PaymentsMarked
        /\ DebitsCovered /\ SettledOnce /\ BilledWithinPurchases
        /\ PaidLoansArePaid /\ PositionsMatchOrders
=============================================================================
