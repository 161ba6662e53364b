---------------------------- MODULE ProductsProofs ----------------------------
(* Proofs about Products for every set of sessions, accounts, cards and      *)
(* requests: PInv, stated there, is an inductive invariant, and what it      *)
(* says of money: debits are covered, obligations are settled once, invoices *)
(* stand, purchases keep their limits.                                       *)
EXTENDS Products, TableTheorems

-----------------------------------------------------------------------------
(* Sums of amounts.                                                          *)

\* The total of a set of rows is a sum over it.
LEMMA TotalIs ==
  ASSUME NEW R, NEW S \in SUBSET R, IsFiniteSet(R)
  PROVE  TotalOf(S) = SumFunctionOnSet([r \in R |-> r.amt], S)
<1>1. IsFiniteSet(S)
  BY FS_Subset
<1>2. TotalOf(S) = SumFunctionOnSet([r \in S |-> r.amt], S)
  BY DEF TotalOf, SumFunction
<1>3. \A r \in S : [x \in S |-> x.amt][r] = [x \in R |-> x.amt][r]
  OBVIOUS
<1>4. SumFunctionOnSet([r \in S |-> r.amt], S) = SumFunctionOnSet([r \in R |-> r.amt], S)
  BY <1>1, <1>3, SumSame
<1>. QED
  BY <1>2, <1>4

LEMMA RowAmount == ASSUME NEW r \in Row PROVE r.amt \in Nat
BY DEF Row

\* Totals are natural numbers.
LEMMA TotalNat ==
  ASSUME NEW R \in SUBSET Row, IsFiniteSet(R)
  PROVE  TotalOf(R) \in Nat
<1>. DEFINE f == [r \in R |-> r.amt]
<1>1. \A r \in R : f[r] \in Int /\ f[r] >= 0
  BY RowAmount
<1>2. TotalOf(R) = SumFunctionOnSet(f, R)
  BY TotalIs
<1>. HIDE DEF f
<1>. QED
  BY <1>1, <1>2, SumInt

\* One more row, one more amount.
LEMMA TotalAdd ==
  ASSUME NEW R \in SUBSET Row, IsFiniteSet(R), NEW r \in Row, r \notin R
  PROVE  TotalOf(R \cup {r}) = TotalOf(R) + r.amt
<1>. DEFINE f == [x \in R \cup {r} |-> x.amt]
<1>1. IsFiniteSet(R \cup {r})
  BY FS_AddElement
<1>2. TotalOf(R \cup {r}) = SumFunctionOnSet(f, R \cup {r}) /\ TotalOf(R) = SumFunctionOnSet(f, R)
  BY <1>1, TotalIs
<1>3. \A x \in R \cup {r} : f[x] \in Int
  BY RowAmount
<1>4. f[r] = r.amt
  OBVIOUS
<1>5. SumFunctionOnSet(f, R \cup {r}) = SumFunctionOnSet(f, R) + f[r]
  <2>. HIDE DEF f
  <2>. QED
    BY <1>3, SumAdd
<1>. QED
  BY <1>2, <1>4, <1>5

\* A part is not more than the whole.
LEMMA TotalPart ==
  ASSUME NEW R \in SUBSET Row, IsFiniteSet(R), NEW S \in SUBSET R
  PROVE  TotalOf(S) <= TotalOf(R)
<1>. DEFINE f == [r \in R |-> r.amt]
<1>1. IsFiniteSet(S) /\ IsFiniteSet(R \ S) /\ S \cup (R \ S) = R
  BY FS_Subset
<1>2. TotalOf(S) = SumFunctionOnSet(f, S) /\ TotalOf(R) = SumFunctionOnSet(f, R)
  BY TotalIs
<1>3. \A x \in R : f[x] \in Int /\ f[x] >= 0
  BY RowAmount
<1>. HIDE DEF f
<1>4. SumFunctionOnSet(f, S \cup (R \ S)) = SumFunctionOnSet(f, S) + SumFunctionOnSet(f, R \ S)
  <2>1. \A x \in S \cup (R \ S) : f[x] \in Int
    BY <1>3
  <2>2. S \cap (R \ S) = {}
    OBVIOUS
  <2>. QED
    BY <1>1, <2>1, <2>2, SumUnion
<1>5. SumFunctionOnSet(f, R \ S) \in Int /\ SumFunctionOnSet(f, R \ S) >= 0 /\ SumFunctionOnSet(f, S) \in Int
  BY <1>1, <1>3, SumInt
<1>6. SumFunctionOnSet(f, R) = SumFunctionOnSet(f, S) + SumFunctionOnSet(f, R \ S)
  BY <1>1, <1>4
<1>. QED
  BY <1>2, <1>5, <1>6

\* The sets of rows that balances are computed from.
InRows(a)  == {r \in rows : r.acct = a /\ r.op \in Credits}
OutRows(a) == {r \in rows : r.acct = a /\ r.op \in Debits}

LEMMA SpareIs ==
  ASSUME NEW a
  PROVE  Spare(a) = InitialBalance[a] + TotalOf(InRows(a)) - TotalOf(OutRows(a))
                                     + TotalOf(Unchecked(a))
BY DEF Spare, Balance, InRows, OutRows

\* What was not compared with the balance is part of what it lost.
LEMMA SpareInt ==
  ASSUME TypeOK, NEW a \in Accounts
  PROVE  /\ Balance(a) \in Int /\ Spare(a) \in Int /\ Balance(a) <= Spare(a)
         /\ TotalOf(InRows(a)) \in Nat /\ TotalOf(OutRows(a)) \in Nat
         /\ TotalOf(Unchecked(a)) \in Nat
<1>1. rows \subseteq Row /\ IsFiniteSet(rows) /\ InitialBalance[a] \in Nat
  BY ProductsAssumption DEF TypeOK
<1>2. InRows(a) \subseteq rows /\ OutRows(a) \subseteq rows /\ Unchecked(a) \subseteq rows
  BY DEF InRows, OutRows, Unchecked
<1>3. IsFiniteSet(InRows(a)) /\ IsFiniteSet(OutRows(a)) /\ IsFiniteSet(Unchecked(a))
  BY <1>1, <1>2, FS_Subset
<1>4. /\ TotalOf(InRows(a)) \in Nat /\ TotalOf(OutRows(a)) \in Nat
      /\ TotalOf(Unchecked(a)) \in Nat
  BY <1>1, <1>2, <1>3, TotalNat
<1>5. Balance(a) = InitialBalance[a] + TotalOf(InRows(a)) - TotalOf(OutRows(a))
  BY DEF Balance, InRows, OutRows
<1>6. Spare(a) = Balance(a) + TotalOf(Unchecked(a))
  BY DEF Spare
<1>. QED
  BY <1>1, <1>4, <1>5, <1>6

\* A settled operation leaves the spare balance of other accounts alone; to its
\* own it adds a credit and takes a debit, but for the unchecked ones.
LEMMA SpareStep ==
  ASSUME TypeOK, NEW r \in Row, r \notin rows, rows' = rows \cup {r}, NEW a \in Accounts
  PROVE  Spare(a)' = Spare(a) +
           (IF r.acct # a \/ r.op = "repay" \/ (r.op = "purchase" /\ r.item \in CreditCards) THEN 0
            ELSE IF r.op \in Credits THEN r.amt ELSE -r.amt)
<1>0. r.amt \in Nat /\ r.op \in Debits \cup Credits
  BY DEF Row
<1>1. rows \subseteq Row /\ IsFiniteSet(rows) /\ InitialBalance[a] \in Nat
  BY ProductsAssumption DEF TypeOK
<1>2. /\ InRows(a) \in SUBSET Row /\ OutRows(a) \in SUBSET Row /\ Unchecked(a) \in SUBSET Row
      /\ IsFiniteSet(InRows(a)) /\ IsFiniteSet(OutRows(a)) /\ IsFiniteSet(Unchecked(a))
      /\ r \notin InRows(a) /\ r \notin OutRows(a) /\ r \notin Unchecked(a)
  <2>1. InRows(a) \subseteq rows /\ OutRows(a) \subseteq rows /\ Unchecked(a) \subseteq rows
    BY DEF InRows, OutRows, Unchecked
  <2>. QED
    BY <1>1, <2>1, FS_Subset
<1>3. /\ TotalOf(InRows(a) \cup {r}) = TotalOf(InRows(a)) + r.amt
      /\ TotalOf(OutRows(a) \cup {r}) = TotalOf(OutRows(a)) + r.amt
      /\ TotalOf(Unchecked(a) \cup {r}) = TotalOf(Unchecked(a)) + r.amt
  BY <1>2, TotalAdd
<1>4. /\ InRows(a)' = IF r.acct = a /\ r.op \in Credits THEN InRows(a) \cup {r} ELSE InRows(a)
      /\ OutRows(a)' = IF r.acct = a /\ r.op \in Debits THEN OutRows(a) \cup {r} ELSE OutRows(a)
      /\ Unchecked(a)' = IF r.acct = a /\ (r.op = "repay" \/ (r.op = "purchase" /\ r.item \in CreditCards))
                           THEN Unchecked(a) \cup {r} ELSE Unchecked(a)
  BY DEF InRows, OutRows, Unchecked
<1>5. /\ TotalOf(InRows(a)') = IF r.acct = a /\ r.op \in Credits
                                 THEN TotalOf(InRows(a)) + r.amt ELSE TotalOf(InRows(a))
      /\ TotalOf(OutRows(a)') = IF r.acct = a /\ r.op \in Debits
                                 THEN TotalOf(OutRows(a)) + r.amt ELSE TotalOf(OutRows(a))
      /\ TotalOf(Unchecked(a)')
           = IF r.acct = a /\ (r.op = "repay" \/ (r.op = "purchase" /\ r.item \in CreditCards))
               THEN TotalOf(Unchecked(a)) + r.amt ELSE TotalOf(Unchecked(a))
  BY <1>3, <1>4
<1>6. Spare(a)' = InitialBalance[a] + TotalOf(InRows(a)') - TotalOf(OutRows(a)')
                                   + TotalOf(Unchecked(a)')
  BY DEF Spare, Balance, InRows, OutRows, TotalOf
<1>7. r.op \in Debits <=> r.op \notin Credits
  BY <1>0 DEF Debits, Credits
<1>8. r.op = "repay" \/ r.op = "purchase" => r.op \in Debits
  BY DEF Debits
<1>. QED
  BY <1>0, <1>1, <1>5, <1>6, <1>7, <1>8, SpareIs, SpareInt

-----------------------------------------------------------------------------
(* What is due.                                                              *)

\* The sum of invoices that exist is a natural number.
LEMMA DueNat ==
  ASSUME TypeOK, NEW c \in Cards, NEW M \in SUBSET Months, \A m \in M : statements[c][m] # None
  PROVE  AmountDue(c, M) \in Nat
<1>. DEFINE f == [m \in M |-> statements[c][m].due]
<1>1. IsFiniteSet(M)
  <2>1. 0 \in Int /\ MaxMonth \in Int
    BY ProductsAssumption
  <2>2. IsFiniteSet(0 .. MaxMonth)
    BY <2>1, FS_Interval
  <2>. QED
    BY <2>2, FS_Subset DEF Months
<1>2. \A m \in M : f[m] \in Int /\ f[m] >= 0
  BY DEF TypeOK
<1>3. AmountDue(c, M) = SumFunctionOnSet(f, M)
  BY DEF AmountDue, SumFunction
<1>. HIDE DEF f
<1>. QED
  BY <1>1, <1>2, <1>3, SumInt

\* It does not change while their amounts do not.
LEMMA DueSame ==
  ASSUME NEW c, NEW M \in SUBSET Months,
         \A m \in M : statements'[c][m].due = statements[c][m].due
  PROVE  AmountDue(c, M)' = AmountDue(c, M)
<1>. DEFINE f == [m \in M |-> statements[c][m].due]
            g == [m \in M |-> statements'[c][m].due]
<1>1. f = g
  OBVIOUS
<1>2. AmountDue(c, M)' = SumFunction(g) /\ AmountDue(c, M) = SumFunction(f)
  BY DEF AmountDue
<1>. QED
  BY <1>1, <1>2

\* The operators over rows and invoices, of equal sets, are equal.
LEMMA PurchasesSame ==
  ASSUME NEW c, NEW M,
         {r \in rows' : r.op = "purchase" /\ r.item = c} = {r \in rows : r.op = "purchase" /\ r.item = c}
  PROVE  Purchases(c, M)' = Purchases(c, M)
BY DEF Purchases

LEMMA UsedSame ==
  ASSUME NEW c \in Cards, TypeOK, Purchases(c, Months)' = Purchases(c, Months),
         \A m \in Months : statements'[c][m] = statements[c][m]
  PROVE  CreditUsed(c)' = CreditUsed(c)
<1>1. Invoices(c, Months, TRUE)' = Invoices(c, Months, TRUE)
  BY DEF Invoices
<1>2. TotalOf(Purchases(c, Months))' = TotalOf(Purchases(c, Months))
  BY DEF TotalOf
<1>. DEFINE M == Invoices(c, Months, TRUE)
<1>3. M \subseteq Months
  BY DEF Invoices
<1>. QED
  BY <1>1, <1>2, <1>3, DueSame DEF CreditUsed

\* Settled operations undo nothing.
LEMMA PurchasesGrow ==
  ASSUME TypeOK, TypeOK', rows \subseteq rows', NEW c, NEW M
  PROVE  TotalOf(Purchases(c, M)) <= TotalOf(Purchases(c, M))'
<1>1. rows' \subseteq Row /\ IsFiniteSet(rows')
  BY DEF TypeOK
<1>2. Purchases(c, M)' \subseteq rows' /\ Purchases(c, M) \subseteq Purchases(c, M)'
  BY DEF Purchases
<1>3. Purchases(c, M)' \in SUBSET Row /\ IsFiniteSet(Purchases(c, M)')
  BY <1>1, <1>2, FS_Subset
<1>4. TotalOf(Purchases(c, M)) <= TotalOf(Purchases(c, M)')
  BY <1>2, <1>3, TotalPart
<1>5. TotalOf(Purchases(c, M)') = TotalOf(Purchases(c, M))'
  BY DEF TotalOf
<1>. QED
  BY <1>4, <1>5

\* Amounts and limits are numbers.
LEMMA UsedInt ==
  ASSUME TypeOK, NEW c \in Cards, NEW M
  PROVE  TotalOf(Purchases(c, M)) \in Nat /\ CreditUsed(c) \in Int
<1>1. rows \subseteq Row /\ IsFiniteSet(rows)
  BY DEF TypeOK
<1>2. \A N : TotalOf(Purchases(c, N)) \in Nat
  <2>. SUFFICES ASSUME NEW N PROVE TotalOf(Purchases(c, N)) \in Nat
    OBVIOUS
  <2>1. Purchases(c, N) \subseteq rows
    BY DEF Purchases
  <2>2. Purchases(c, N) \in SUBSET Row /\ IsFiniteSet(Purchases(c, N))
    BY <1>1, <2>1, FS_Subset
  <2>. QED
    BY <2>2, TotalNat
<1>3. AmountDue(c, Invoices(c, Months, TRUE)) \in Nat
  <2>1. Invoices(c, Months, TRUE) \in SUBSET Months
        /\ \A m \in Invoices(c, Months, TRUE) : statements[c][m] # None
    BY DEF Invoices
  <2>. QED
    BY <2>1, DueNat
<1>4. TotalOf(Purchases(c, M)) \in Nat /\ TotalOf(Purchases(c, Months)) \in Nat
  BY <1>2
<1>. DEFINE due == AmountDue(c, Invoices(c, Months, TRUE))
<1>5. due \in Nat /\ CreditUsed(c) = TotalOf(Purchases(c, Months)) - due
  BY <1>3 DEF CreditUsed
<1>. HIDE DEF due
<1>6. CreditUsed(c) \in Int
  BY <1>4, <1>5
<1>. QED
  BY <1>4, <1>6

\* The same as a formula about one state, and so about the state after a step.
Numbers == /\ \A a \in Accounts : Spare(a) \in Int
           /\ \A c \in Cards : \A M : TotalOf(Purchases(c, M)) \in Nat /\ CreditUsed(c) \in Int

LEMMA NumbersAfter ==
  TypeOK' => /\ \A a \in Accounts : Spare(a)' \in Int
             /\ \A c \in Cards : \A M : TotalOf(Purchases(c, M))' \in Nat
<1>1. TypeOK => Numbers
  BY SpareInt, UsedInt DEF Numbers
<1>2. TypeOK' => Numbers'
  BY <1>1, PTL
<1>. QED
  BY <1>2 DEF Numbers

-----------------------------------------------------------------------------
(* What was found stays so.                                                  *)

\* The rows that session w has read and is about to write, and what others may
\* do to them meanwhile.
Undisturbed(w) ==
  LET q == w.req
  IN /\ w.op = "purchase" =>
          /\ cards'[q.item] = cards[q.item]
          /\ \A M : Purchases(q.item, M)' = Purchases(q.item, M)
     /\ w.op \in CardOps => \A m \in Months : statements'[q.item][m] = statements[q.item][m]
     /\ Funded(w) => Spare(q.acct)' >= Spare(q.acct)
     /\ w.op = "paybill" => (BillPaid(q.item)' => BillPaid(q.item))
     /\ w.op \in {"buy", "sell"}
          /\ Cardinality({a \in Accounts : Owner[a] = Owner[q.acct]}) = 1 =>
            position'[Owner[q.acct]] = position[Owner[q.acct]]
     /\ w.op = "repay" => (InstalmentPaid(q.item)' => InstalmentPaid(q.item))
     /\ w.op = "approve" => (Disbursed' => Disbursed)

\* Ready(w) lasts while what it is about does.
LEMMA ReadyFrame ==
  ASSUME TypeOK, TypeOK', rows \subseteq rows', NEW w, Shaped(w), Ready(w),
         Undisturbed(w)
  PROVE  Ready(w)'
<1>. DEFINE q == w.req
<1>. USE DEF Undisturbed
<1>0. w.op \in Debits \cup Credits \cup {"close"} => w \in Session /\ q \in Request
  BY DEF Shaped, Session, Debits, Credits
<1>1. ASSUME w.op = "purchase"
      PROVE  /\ cards'[q.item].status = "ACTIVE"
             /\ TotalOf(Purchases(q.item, {w.month}))' + q.amt <= cards'[q.item].daily
             /\ q.item \in CreditCards => CreditUsed(q.item)' + q.amt <= CreditLimit[q.item]
  <2>1. q.item \in Cards
    BY <1>1 DEF Shaped, CardOps
  <2>2. TotalOf(Purchases(q.item, {w.month}))' = TotalOf(Purchases(q.item, {w.month}))
    BY <1>1 DEF TotalOf
  <2>3. CreditUsed(q.item)' = CreditUsed(q.item)
    BY <1>1, <2>1, UsedSame DEF CardOps
  <2>. QED
    BY <1>1, <2>2, <2>3 DEF Ready
<1>2. ASSUME Funded(w) PROVE Spare(q.acct)' >= q.amt
  <2>1. q.amt \in Nat /\ q.acct \in Accounts
    BY <1>0, <1>2 DEF Funded, Request, Debits
  <2>2. Spare(q.acct) \in Int /\ Spare(q.acct)' \in Int
    <3>1. Spare(q.acct) \in Int
      BY <2>1, SpareInt
    <3>2. Spare(q.acct)' \in Int
      BY <2>1, NumbersAfter
    <3>. QED
      BY <3>1, <3>2
  <2>. QED
    BY <1>2, <2>1, <2>2 DEF Ready
<1>3. ASSUME w.op = "paystmt"
      PROVE  /\ q.pick # {} /\ q.pick \subseteq Invoices(q.item, Months, FALSE)'
             /\ q.amt = AmountDue(q.item, q.pick)'
  <2>1. Invoices(q.item, Months, FALSE)' = Invoices(q.item, Months, FALSE)
    BY <1>3 DEF Invoices, CardOps
  <2>2. q.pick \subseteq Months
    BY <1>3 DEF Ready, Invoices
  <2>3. AmountDue(q.item, q.pick)' = AmountDue(q.item, q.pick)
    BY <1>3, <2>2, DueSame DEF CardOps
  <2>. QED
    BY <1>3, <2>1, <2>3 DEF Ready
<1>4. \A i : InstalmentPaid(i) => InstalmentPaid(i)'
  BY DEF InstalmentPaid
<1>5. ASSUME w.op = "close"
      PROVE  q.amt <= TotalOf(Purchases(q.item, {w.month}))'
  <2>1. q.amt \in Nat /\ q.item \in Cards
    BY <1>0, <1>5 DEF Request, Shaped
  <2>2. /\ TotalOf(Purchases(q.item, {w.month})) \in Nat
        /\ TotalOf(Purchases(q.item, {w.month}))' \in Nat
    <3>1. TotalOf(Purchases(q.item, {w.month})) \in Nat
      BY <2>1, UsedInt
    <3>2. TotalOf(Purchases(q.item, {w.month}))' \in Nat
      BY <2>1, NumbersAfter
    <3>. QED
      BY <3>1, <3>2
  <2>3. TotalOf(Purchases(q.item, {w.month})) <= TotalOf(Purchases(q.item, {w.month}))'
    BY PurchasesGrow
  <2>. QED
    BY <1>5, <2>1, <2>2, <2>3 DEF Ready
<1>. QED
  BY <1>1, <1>2, <1>3, <1>4, <1>5 DEF Ready

-----------------------------------------------------------------------------
(* Steps of one session.                                                     *)

\* What SessionsSound says of one session.
Sound(w) == Shaped(w) /\ Covered(w) /\ (w.pc = "commit" => Ready(w))

LEMMA SpareSame == ASSUME NEW a, UNCHANGED rows PROVE Spare(a)' = Spare(a)
<1>1. InRows(a)' = InRows(a) /\ OutRows(a)' = OutRows(a) /\ Unchecked(a)' = Unchecked(a)
  BY DEF InRows, OutRows, Unchecked
<1>2. Spare(a)' = InitialBalance[a] + TotalOf(InRows(a)') - TotalOf(OutRows(a)')
                                   + TotalOf(Unchecked(a)')
  BY DEF Spare, Balance, InRows, OutRows, TotalOf
<1>. QED
  BY <1>1, <1>2, SpareIs

\* Nothing that Ready looks at has changed.
LEMMA ReadySame ==
  ASSUME TypeOK, TypeOK', UNCHANGED <<rows, cards, statements, position>>,
         NEW w, Shaped(w), Ready(w)
  PROVE  Ready(w)'
<1>1. \A i, M : Purchases(i, M)' = Purchases(i, M)
  BY PurchasesSame
<1>2. \A a : Spare(a)' = Spare(a)
  BY SpareSame
<1>3. w.op \in Debits \cup Credits => w.req.acct \in Accounts
  BY DEF Shaped, Session, Request, Debits, Credits
<1>4. Funded(w) => Spare(w.req.acct)' >= Spare(w.req.acct)
  BY <1>2, <1>3, SpareInt DEF Funded, Debits
<1>5. rows \subseteq rows'
  OBVIOUS
<1>6. \A i : BillPaid(i)' = BillPaid(i) /\ InstalmentPaid(i)' = InstalmentPaid(i)
  BY DEF BillPaid, InstalmentPaid
<1>7. Disbursed' = Disbursed
  BY DEF Disbursed
<1>. QED
  BY <1>1, <1>4, <1>5, <1>6, <1>7, ReadyFrame DEF Undisturbed

\* The rows a customer's orders of one kind left.
OrderRows(o, op) == {r \in rows : r.op = op /\ Owner[r.acct] = o}

LEMMA OrderedIs == ASSUME NEW o, NEW op PROVE Ordered(o, op) = TotalOf(OrderRows(o, op))
BY DEF Ordered, OrderRows

LEMMA OrderedSame == ASSUME NEW o, NEW op, UNCHANGED rows PROVE Ordered(o, op)' = Ordered(o, op)
<1>1. OrderRows(o, op)' = OrderRows(o, op)
  BY DEF OrderRows
<1>. QED
  BY <1>1 DEF Ordered, OrderRows, TotalOf

\* What is said of the settled operations and what they left.
Books == /\ PaymentsMarked /\ DebitsCovered /\ SettledOnce /\ BilledWithinPurchases
         /\ PaidLoansArePaid /\ PositionsMatchOrders

LEMMA BooksButLoan ==
  ASSUME Books, UNCHANGED <<rows, statements, position>>, PaidLoansArePaid'
  PROVE  Books'
<1>1. PaymentsMarked' /\ SettledOnce'
  BY DEF Books, PaymentsMarked, SettledOnce
<1>2. DebitsCovered'
  BY SpareSame DEF Books, DebitsCovered
<1>3. BilledWithinPurchases'
  <2>1. \A c, M : TotalOf(Purchases(c, M))' = TotalOf(Purchases(c, M))
    BY PurchasesSame DEF TotalOf
  <2>. QED
    BY <2>1 DEF Books, BilledWithinPurchases
<1>4. PositionsMatchOrders'
  BY OrderedSame DEF Books, PositionsMatchOrders
<1>. QED
  BY <1>1, <1>2, <1>3, <1>4 DEF Books

LEMMA BooksSame ==
  ASSUME Books, UNCHANGED <<rows, statements, loan, position>>
  PROVE  Books'
<1>1. \A i : InstalmentPaid(i)' = InstalmentPaid(i)
  BY DEF InstalmentPaid
<1>2. PaidLoansArePaid'
  BY <1>1 DEF Books, PaidLoansArePaid
<1>. QED
  BY <1>2, BooksButLoan

LEMMA PInvIs == PInv <=> TypeOK /\ SessionsSound /\ LocksApart /\ Books
BY DEF PInv, Books

\* A session moves on, or stops, and nothing is written.
LEMMA LocalStep ==
  ASSUME PInv, NEW s \in Sessions, NEW w, Sound(w), Local(s, w),
         \A t \in Sessions \ {s} : w.held \cap ses[t].held = {}
  PROVE  PInv'
<1>1. w \in Session
  BY DEF Sound, Shaped
<1>2. TypeOK'
  BY <1>1 DEF PInv, TypeOK, Local
<1>3. \A t \in Sessions : ses'[t] = IF t = s THEN w ELSE ses[t]
  BY DEF PInv, TypeOK, Local
<1>4. SessionsSound'
  <2>. SUFFICES ASSUME NEW t \in Sessions
                PROVE  Shaped(ses'[t]) /\ Covered(ses'[t]) /\ (ses'[t].pc = "commit" => Ready(ses[t])')
    BY DEF SessionsSound
  <2>1. Shaped(ses'[t]) /\ Covered(ses'[t]) /\ (ses'[t].pc = "commit" => Ready(ses'[t]))
    BY <1>3 DEF PInv, SessionsSound, Sound
  <2>. QED
    BY <1>2, <2>1, ReadySame DEF PInv, Local
<1>5. LocksApart'
  <2>1. LocksApart
    BY DEF PInv
  <2>. QED
    BY <1>3, <2>1 DEF LocksApart
<1>6. Books'
  BY BooksSame DEF PInv, Books, Local
<1>. QED
  BY <1>2, <1>4, <1>5, <1>6 DEF PInv, Books

LEMMA IdleSound == Sound(Idle) /\ Idle.held = {} /\ Idle.pc = "idle"
BY ProductsAssumption DEF Sound, Shaped, Covered, Idle, Session, Months, LoanStatuses, Debits,
   Credits, CardOps

LEMMA AbandonStep == ASSUME PInv, NEW s \in Sessions, Abandon(s) PROVE PInv'
<1>1. Local(s, Idle)
  BY DEF Abandon, Local
<1>. QED
  BY <1>1, IdleSound, LocalStep

\* A request is taken up.
LEMMA AskStep ==
  ASSUME PInv, NEW s \in Sessions, NEW q \in Requests, Ask(s, q)
  PROVE  PInv'
<1>. DEFINE w == [Idle EXCEPT !.op = q.op, !.pc = "lock", !.req = q]
<1>0. Idle \in Session
  BY IdleSound DEF Sound, Shaped
<1>1. w.op = q.op /\ w.pc = "lock" /\ w.req = q /\ w.held = {}
  BY <1>0, IdleSound DEF Session
<1>2. q \in Request /\ (q.op \in CardOps => q.item \in Cards) /\ q.op \in Debits \cup Credits
  BY ProductsAssumption DEF Request
<1>3. q.op # "none" /\ q.op # "close"
  BY <1>2 DEF Debits, Credits
<1>4. w \in Session
  BY <1>0, <1>2 DEF Session
<1>. HIDE DEF w
<1>5. Sound(w)
  BY <1>1, <1>2, <1>3, <1>4 DEF Sound, Shaped, Covered, CardOps
<1>. QED
  <2>1. Local(s, w)
    BY DEF Ask, w
  <2>. QED
    BY <1>1, <1>5, <2>1, LocalStep

\* What a session of this kind is known to be.
LEMMA SoundSession ==
  ASSUME PInv, NEW s \in Sessions
  PROVE  /\ TypeOK /\ Sound(ses[s]) /\ Shaped(ses[s]) /\ ses[s] \in Session
         /\ \A t \in Sessions \ {s} : ses[s].held \cap ses[t].held = {}
         /\ ses[s].pc # "idle" =>
              /\ ses[s].req \in Request /\ ses[s].op # "none"
              /\ ses[s].op \in (Debits \cup Credits \cup {"close"})
BY DEF PInv, SessionsSound, Sound, Shaped, LocksApart, Session, TypeOK

\* The locks of a request are rows of the tables.
LEMMA LocksTyped ==
  ASSUME NEW q \in Request
  PROVE  Locks(q) \in SUBSET ({"card", "account", "bill", "instalment", "loan"} \X (STRING \cup Accounts))
BY DEF Locks, Request, Debits, Credits, CardOps

LEMMA LockStep ==
  ASSUME PInv, NEW s \in Sessions, Lock(s)
  PROVE  PInv'
<1>. DEFINE v == ses[s]
            w == [v EXCEPT !.held = Locks(v.req),
                           !.pc = IF v.req.op = "paybill" THEN "lockBill" ELSE "check"]
<1>0. v.pc = "lock" /\ Free(s, Locks(v.req)) /\ Local(s, w)
  BY DEF Lock
<1>1. v \in Session /\ v.req \in Request /\ Shaped(v) /\ v.op # "none"
  BY <1>0, SoundSession
<1>2. /\ w.op = v.op /\ w.req = v.req /\ w.held = Locks(v.req)
      /\ w.pc = IF v.req.op = "paybill" THEN "lockBill" ELSE "check"
  BY <1>1 DEF Session
<1>3. w \in Session
  BY <1>1, LocksTyped DEF Session
<1>. HIDE DEF w
<1>4. v.op \in Debits \cup Credits => v.req.op = v.op
  BY <1>1 DEF Shaped
<1>5. Shaped(w)
  BY <1>1, <1>2, <1>3 DEF Shaped
<1>6. Covered(w)
  BY <1>2, <1>4 DEF Covered, Debits, Credits
<1>7. Sound(w)
  BY <1>2, <1>5, <1>6 DEF Sound
<1>8. \A t \in Sessions \ {s} : w.held \cap ses[t].held = {}
  BY <1>0, <1>2 DEF Free
<1>. QED
  BY <1>0, <1>7, <1>8, LocalStep

LEMMA LockBillStep ==
  ASSUME PInv, NEW s \in Sessions, LockBill(s)
  PROVE  PInv'
<1>. DEFINE v == ses[s]
            b == <<"bill", v.req.item>>
            w == [v EXCEPT !.held = @ \cup {b}, !.pc = "check"]
<1>0. v.op = "paybill" /\ v.pc = "lockBill" /\ Free(s, {b}) /\ Local(s, w)
  BY DEF LockBill, At
<1>1. v \in Session /\ v.req \in Request /\ Shaped(v) /\ Covered(v)
  BY <1>0, SoundSession DEF Sound
<1>2. w.op = v.op /\ w.req = v.req /\ w.held = v.held \cup {b} /\ w.pc = "check"
  BY <1>1 DEF Session
<1>3. w \in Session
  <2>1. b \in {"card", "account", "bill", "instalment", "loan"} \X (STRING \cup Accounts)
    BY <1>1 DEF Request
  <2>2. v.held \cup {b} \in SUBSET ({"card", "account", "bill", "instalment", "loan"}
                                       \X (STRING \cup Accounts))
    BY <1>1, <2>1 DEF Session
  <2>. HIDE DEF b
  <2>. QED
    BY <1>1, <2>2 DEF Session
<1>. HIDE DEF w
<1>5. Shaped(w)
  BY <1>0, <1>1, <1>2, <1>3 DEF Shaped
<1>6. Covered(w)
  BY <1>0, <1>1, <1>2 DEF Covered
<1>7. Sound(w)
  BY <1>2, <1>5, <1>6 DEF Sound
<1>8. \A t \in Sessions \ {s} : w.held \cap ses[t].held = {}
  BY <1>0, <1>2, SoundSession DEF Free
<1>. QED
  BY <1>0, <1>7, <1>8, LocalStep

-----------------------------------------------------------------------------
(* Decisions.                                                                *)

\* A decision keeps the locks; what it found becomes Ready.
LEMMA DecideStep ==
  ASSUME PInv, NEW s \in Sessions, ses[s].pc = "check", ses[s].op # "close",
         NEW w \in Session, Local(s, w), w.pc = "commit", Ready(w),
         w.op = ses[s].op, w.held = ses[s].held, w.req \in Request, w.req.op = ses[s].req.op,
         w.req.item = ses[s].req.item, w.req.acct = ses[s].req.acct
  PROVE  PInv'
<1>1. Shaped(ses[s]) /\ Covered(ses[s]) /\ ses[s].op \in Debits \cup Credits
  BY SoundSession DEF Sound
<1>2. Shaped(w)
  BY <1>1 DEF Shaped
<1>3. Locks(w.req) = Locks(ses[s].req)
  BY DEF Locks
<1>4. Covered(w)
  BY <1>1, <1>3 DEF Covered
<1>. QED
  BY <1>2, <1>4, LocalStep, SoundSession DEF Sound

\* What a session that decides is known to be.
LEMMA Deciding ==
  ASSUME PInv, NEW s \in Sessions, ses[s].pc = "check", ses[s].op # "close"
  PROVE  /\ TypeOK /\ ses[s] \in Session /\ ses[s].req \in Request
         /\ ses[s].req.op = ses[s].op /\ ses[s].op \in Debits \cup Credits
         /\ ses[s].req.amt \in Nat /\ ses[s].req.acct \in Accounts
         /\ ses[s].req.pick \subseteq Months
         /\ ses[s].op \in CardOps => ses[s].req.item \in Cards
BY SoundSession DEF Sound, Shaped, Request, Session

LEMMA CheckPurchaseStep ==
  ASSUME PInv, NEW s \in Sessions, CheckPurchase(s)
  PROVE  PInv'
<1>. DEFINE v == ses[s]
            q == v.req
            w == [v EXCEPT !.pc = "commit", !.month = month]
<1>0. v.pc = "check" /\ v.op = "purchase"
  BY DEF CheckPurchase, At
<1>1. /\ TypeOK /\ v \in Session /\ q \in Request /\ month \in Months
      /\ q.amt \in Nat /\ q.acct \in Accounts /\ q.item \in Cards
  BY <1>0, Deciding DEF CardOps, TypeOK
<1>2. w \in Session
  BY <1>1 DEF Session
<1>3. w.op = "purchase" /\ w.pc = "commit" /\ w.req = q /\ w.month = month /\ w.held = v.held
  BY <1>0, <1>1 DEF Session
<1>4. CASE Abandon(s)
  BY <1>4, AbandonStep
<1>5. CASE ~Abandon(s)
  <2>1. /\ Local(s, w) /\ cards[q.item].status = "ACTIVE"
        /\ ~(TotalOf(Purchases(q.item, {month})) + q.amt > cards[q.item].daily)
        /\ q.item \in CreditCards => ~(CreditUsed(q.item) + q.amt > CreditLimit[q.item])
        /\ q.item \notin CreditCards => ~(Balance(q.acct) < q.amt)
    BY <1>5 DEF CheckPurchase
  <2>2. /\ TotalOf(Purchases(q.item, {month})) \in Nat /\ CreditUsed(q.item) \in Int
        /\ cards[q.item].daily \in Nat /\ CreditLimit[q.item] \in Nat
        /\ Balance(q.acct) \in Int /\ Spare(q.acct) \in Int /\ Balance(q.acct) <= Spare(q.acct)
    <3>. HIDE DEF v, q, w
    <3>0. TypeOK /\ q.item \in Cards /\ q.acct \in Accounts
      BY <1>1
    <3>1. TotalOf(Purchases(q.item, {month})) \in Nat /\ CreditUsed(q.item) \in Int
      BY <3>0, UsedInt
    <3>2. Balance(q.acct) \in Int /\ Spare(q.acct) \in Int /\ Balance(q.acct) <= Spare(q.acct)
      BY <3>0, SpareInt
    <3>3. cards[q.item].daily \in Nat
      <4>1. cards \in [Cards -> [status : {"ACTIVE", "FROZEN", "BLOCKED"}, daily : DailyLimits]]
        BY <3>0 DEF TypeOK
      <4>2. cards[q.item].daily \in DailyLimits
        BY <3>0, <4>1
      <4>. QED
        BY <4>2, ProductsAssumption
    <3>4. CreditLimit[q.item] \in Nat
      BY <3>0, ProductsAssumption
    <3>. QED
      BY <3>1, <3>2, <3>3, <3>4
  <2>. HIDE DEF w
  <2>3. TotalOf(Purchases(w.req.item, {w.month})) + q.amt <= cards[q.item].daily
    BY <1>1, <1>3, <2>1, <2>2
  <2>4. q.item \in CreditCards => CreditUsed(q.item) + q.amt <= CreditLimit[q.item]
    BY <1>1, <2>1, <2>2
  <2>5. q.item \notin CreditCards => Spare(q.acct) >= q.amt
    BY <1>1, <2>1, <2>2
  <2>6. Ready(w)
    BY <1>3, <2>1, <2>3, <2>4, <2>5 DEF Ready, Funded
  <2>. QED
    BY <1>0, <1>1, <1>2, <1>3, <2>1, <2>6, DecideStep
<1>. QED
  BY <1>4, <1>5

LEMMA CheckStatementsStep ==
  ASSUME PInv, NEW s \in Sessions, CheckStatements(s)
  PROVE  PInv'
<1>. DEFINE v == ses[s]
            q == v.req
            due == Invoices(q.item, q.pick, FALSE)
            sum == AmountDue(q.item, due)
            w == [v EXCEPT !.pc = "commit", !.month = month, !.req.amt = sum, !.req.pick = due]
<1>0. v.pc = "check" /\ v.op = "paystmt"
  BY DEF CheckStatements, At
<1>1. /\ TypeOK /\ v \in Session /\ q \in Request /\ month \in Months
      /\ q.amt \in Nat /\ q.acct \in Accounts /\ q.item \in Cards /\ q.pick \subseteq Months
  BY <1>0, Deciding DEF CardOps, TypeOK
<1>2. /\ due \subseteq Months /\ due \subseteq Invoices(q.item, Months, FALSE)
      /\ \A m \in due : statements[q.item][m] # None
  BY <1>1 DEF Invoices
<1>3. sum \in Nat
  BY <1>1, <1>2, DueNat
<1>4. CASE Abandon(s)
  BY <1>4, AbandonStep
<1>5. CASE ~Abandon(s)
  <2>1. Local(s, w) /\ due # {} /\ ~(Balance(q.acct) < sum)
    BY <1>5 DEF CheckStatements
  <2>2. Balance(q.acct) \in Int /\ Spare(q.acct) \in Int /\ Balance(q.acct) <= Spare(q.acct)
    BY <1>1, SpareInt
  <2>. HIDE DEF due, sum
  <2>3. Spare(q.acct) >= sum
    BY <1>3, <2>1, <2>2
  <2>4. /\ w.op = "paystmt" /\ w.pc = "commit" /\ w.held = v.held
        /\ w.req = [q EXCEPT !.amt = sum, !.pick = due]
    BY <1>0, <1>1 DEF Session
  <2>5. /\ w.req \in Request /\ w.req.amt = sum /\ w.req.pick = due /\ w.req.op = q.op
        /\ w.req.item = q.item /\ w.req.acct = q.acct
    <3>. DEFINE u == [q EXCEPT !.amt = sum, !.pick = due]
    <3>1. u \in Request
      BY <1>1, <1>2, <1>3 DEF Request
    <3>2. u.amt = sum /\ u.pick = due /\ u.op = q.op /\ u.item = q.item /\ u.acct = q.acct
      BY <1>1 DEF Request
    <3>3. w.req = u
      BY <2>4
    <3>. HIDE DEF w, u
    <3>. QED
      BY <3>1, <3>2, <3>3
  <2>6. w \in Session
    <3>1. w = [v EXCEPT !.pc = "commit", !.month = month, !.req = w.req]
      BY <1>1, <2>4 DEF Session
    <3>. QED
      BY <1>1, <2>5, <3>1 DEF Session
  <2>. HIDE DEF w
  <2>7. w.req.amt = AmountDue(w.req.item, w.req.pick)
    BY <2>5 DEF sum
  <2>8. Ready(w)
    BY <1>2, <2>1, <2>3, <2>4, <2>5, <2>7 DEF Ready, Funded
  <2>. QED
    BY <1>0, <1>1, <2>1, <2>4, <2>5, <2>6, <2>8, DecideStep
<1>. QED
  BY <1>4, <1>5

LEMMA CheckBillStep ==
  ASSUME PInv, NEW s \in Sessions, CheckBill(s)
  PROVE  PInv'
<1>. DEFINE v == ses[s]
            q == v.req
            w == [v EXCEPT !.pc = "commit", !.month = month]
<1>0. v.pc = "check" /\ v.op = "paybill"
  BY DEF CheckBill, At
<1>1. /\ TypeOK /\ v \in Session /\ q \in Request /\ month \in Months
      /\ q.amt \in Nat /\ q.acct \in Accounts
  BY <1>0, Deciding DEF TypeOK
<1>2. w \in Session
  BY <1>1 DEF Session
<1>3. w.op = "paybill" /\ w.pc = "commit" /\ w.req = q /\ w.held = v.held
  BY <1>0, <1>1 DEF Session
<1>4. CASE Abandon(s)
  BY <1>4, AbandonStep
<1>5. CASE ~Abandon(s)
  <2>1. Local(s, w) /\ ~(Balance(q.acct) < q.amt) /\ ~BillPaid(q.item)
    BY <1>5 DEF CheckBill
  <2>2. Balance(q.acct) \in Int /\ Spare(q.acct) \in Int /\ Balance(q.acct) <= Spare(q.acct)
    BY <1>1, SpareInt
  <2>3. Spare(q.acct) >= q.amt
    BY <1>1, <2>1, <2>2
  <2>. HIDE DEF w
  <2>4. Ready(w)
    BY <1>3, <2>1, <2>3 DEF Ready, Funded
  <2>. QED
    BY <1>0, <1>1, <1>2, <1>3, <2>1, <2>4, DecideStep
<1>. QED
  BY <1>4, <1>5

LEMMA CheckDepositStep ==
  ASSUME PInv, NEW s \in Sessions, CheckDeposit(s)
  PROVE  PInv'
<1>. DEFINE v == ses[s]
            w == [v EXCEPT !.pc = "commit", !.month = month]
<1>0. v.pc = "check" /\ v.op = "fund" /\ Local(s, w)
  BY DEF CheckDeposit, At
<1>1. v \in Session /\ v.req \in Request /\ month \in Months
  BY <1>0, Deciding DEF TypeOK
<1>2. w \in Session
  BY <1>1 DEF Session
<1>3. w.op = "fund" /\ w.pc = "commit" /\ w.req = v.req /\ w.held = v.held
  BY <1>0, <1>1 DEF Session
<1>. HIDE DEF w
<1>4. Ready(w)
  BY <1>3 DEF Ready, Funded
<1>. QED
  BY <1>0, <1>1, <1>2, <1>3, <1>4, DecideStep

LEMMA CheckOrderStep ==
  ASSUME PInv, NEW s \in Sessions, CheckOrder(s)
  PROVE  PInv'
<1>. DEFINE v == ses[s]
            q == v.req
            pos == position[Owner[q.acct]]
            w == [v EXCEPT !.pc = "commit", !.month = month, !.seen = pos]
<1>0. v.pc = "check" /\ v.op \in {"buy", "sell"}
  BY DEF CheckOrder, At
<1>1. /\ TypeOK /\ v \in Session /\ q \in Request /\ month \in Months
      /\ q.op = v.op /\ q.amt \in Nat /\ q.acct \in Accounts
  BY <1>0, Deciding DEF TypeOK
<1>2. pos \in Nat
  BY <1>1 DEF TypeOK, Customers
<1>3. w \in Session
  BY <1>1, <1>2 DEF Session
<1>4. w.op = v.op /\ w.pc = "commit" /\ w.req = q /\ w.held = v.held /\ w.seen = pos
  BY <1>0, <1>1 DEF Session
<1>5. CASE Abandon(s)
  BY <1>5, AbandonStep
<1>6. CASE ~Abandon(s)
  <2>1. /\ Local(s, w) /\ ~(q.op = "buy" /\ Balance(q.acct) < q.amt)
        /\ ~(q.op = "sell" /\ pos < q.amt)
    BY <1>6 DEF CheckOrder
  <2>2. Balance(q.acct) \in Int /\ Spare(q.acct) \in Int /\ Balance(q.acct) <= Spare(q.acct)
    BY <1>1, SpareInt
  <2>3. (v.op = "buy" => Spare(q.acct) >= q.amt) /\ (v.op = "sell" => pos >= q.amt)
    BY <1>1, <1>2, <2>1, <2>2
  <2>. HIDE DEF w
  <2>4. Ready(w)
    BY <1>0, <1>4, <2>1, <2>3 DEF Ready, Funded
  <2>. QED
    BY <1>0, <1>1, <1>3, <1>4, <2>1, <2>4, DecideStep
<1>. QED
  BY <1>5, <1>6

LEMMA CheckRepaymentStep ==
  ASSUME PInv, NEW s \in Sessions, CheckRepayment(s)
  PROVE  PInv'
<1>. DEFINE v == ses[s]
            q == v.req
            to == IF \A i \in Instalments \ {q.item} : InstalmentPaid(i) THEN "PAID" ELSE None
            w == [v EXCEPT !.pc = "commit", !.month = month, !.loanTo = to]
<1>0. v.pc = "check" /\ v.op = "repay"
  BY DEF CheckRepayment, At
<1>1. v \in Session /\ q \in Request /\ month \in Months
  BY <1>0, Deciding DEF TypeOK
<1>2. to \in LoanStatuses \cup {None}
  BY DEF LoanStatuses
<1>3. w \in Session
  BY <1>1, <1>2 DEF Session
<1>4. w.op = "repay" /\ w.pc = "commit" /\ w.req = q /\ w.held = v.held /\ w.loanTo = to
  BY <1>0, <1>1 DEF Session
<1>5. CASE Abandon(s)
  BY <1>5, AbandonStep
<1>6. CASE ~Abandon(s)
  <2>1. Local(s, w) /\ ~InstalmentPaid(q.item)
    BY <1>6 DEF CheckRepayment
  <2>. HIDE DEF w
  <2>2. Ready(w)
    BY <1>4, <2>1 DEF Ready, Funded
  <2>. QED
    BY <1>0, <1>1, <1>3, <1>4, <2>1, <2>2, DecideStep
<1>. QED
  BY <1>5, <1>6

LEMMA CheckLoanStep ==
  ASSUME PInv, NEW s \in Sessions, CheckLoan(s)
  PROVE  PInv'
<1>. DEFINE v == ses[s]
            to == CASE loan.score < 550 -> "REJECTED"
                    [] loan.score >= 550 /\ Disbursed -> "APPROVED"
                    [] OTHER -> "ACTIVE"
            w == [v EXCEPT !.pc = "commit", !.month = month, !.loanTo = to]
<1>0. v.pc = "check" /\ v.op = "approve" /\ Local(s, w)
  BY DEF CheckLoan, At
<1>1. v \in Session /\ v.req \in Request /\ month \in Months /\ loan.score \in Int
  BY <1>0, Deciding DEF TypeOK
<1>2. to \in {"REJECTED", "APPROVED", "ACTIVE"} /\ (to = "ACTIVE" => ~Disbursed)
  BY <1>1
<1>. HIDE DEF to
<1>3. w \in Session
  BY <1>1, <1>2 DEF Session, LoanStatuses
<1>4. w.op = "approve" /\ w.pc = "commit" /\ w.req = v.req /\ w.held = v.held /\ w.loanTo = to
  BY <1>0, <1>1 DEF Session
<1>. HIDE DEF w
<1>5. Ready(w)
  BY <1>2, <1>4 DEF Ready, Funded
<1>. QED
  BY <1>0, <1>1, <1>3, <1>4, <1>5, DecideStep

-----------------------------------------------------------------------------
(* Settling.                                                                 *)

\* Two sessions past their first statement have locked different rows.
LEMMA Apart ==
  ASSUME PInv, NEW s \in Sessions, NEW t \in Sessions \ {s},
         ses[s].pc = "commit", ses[t].pc = "commit",
         ses[s].op \in Debits \cup Credits, ses[t].op \in Debits \cup Credits
  PROVE  LET p == ses[s].req
             q == ses[t].req
         IN /\ p.op \in CardOps /\ q.op \in CardOps => p.item # q.item
            /\ p.acct = q.acct => p.op \in {"repay", "approve"} \/ q.op \in {"repay", "approve"}
            /\ ~(p.op = "paybill" /\ q.op = "paybill" /\ p.item = q.item)
            /\ ~(p.op = "repay" /\ q.op = "repay" /\ p.item = q.item)
            /\ ~(p.op = "approve" /\ q.op = "approve")
<1>. DEFINE p == ses[s].req
            q == ses[t].req
<1>1. /\ Locks(p) \subseteq ses[s].held /\ Locks(q) \subseteq ses[t].held
      /\ p.op = ses[s].op /\ q.op = ses[t].op
      /\ p.op = "paybill" => <<"bill", p.item>> \in ses[s].held
      /\ q.op = "paybill" => <<"bill", q.item>> \in ses[t].held
      /\ ses[s].held \cap ses[t].held = {}
  BY SoundSession DEF Sound, Shaped, Covered
<1>2. \A x : ~(x \in Locks(p) /\ x \in Locks(q))
  BY <1>1
<1>3. ASSUME p.op \in CardOps, q.op \in CardOps PROVE p.item # q.item
  <2>1. <<"card", p.item>> \in Locks(p) /\ <<"card", q.item>> \in Locks(q)
    BY <1>3 DEF Locks, CardOps
  <2>. QED
    BY <1>2, <2>1
<1>4. ASSUME p.acct = q.acct, p.op \notin {"repay", "approve"}, q.op \notin {"repay", "approve"}
      PROVE  FALSE
  <2>1. <<"account", p.acct>> \in Locks(p) /\ <<"account", q.acct>> \in Locks(q)
    BY <1>1, <1>4 DEF Locks, Debits, Credits, CardOps
  <2>. QED
    BY <1>2, <1>4, <2>1
<1>5. ASSUME p.op = "repay", q.op = "repay" PROVE p.item # q.item
  BY <1>2, <1>5 DEF Locks, CardOps
<1>6. ASSUME p.op = "approve", q.op = "approve" PROVE FALSE
  <2>1. p.item = q.item
    <3>1. Shaped(ses[s]) /\ Shaped(ses[t])
      BY SoundSession
    <3>2. PICK x \in Requests : x.op = "approve" /\ x.item = p.item
      BY <1>1, <1>6, <3>1 DEF Shaped
    <3>3. PICK y \in Requests : y.op = "approve" /\ y.item = q.item
      BY <1>1, <1>6, <3>1 DEF Shaped
    <3>. QED
      BY <3>2, <3>3, ProductsAssumption
  <2>2. <<"loan", p.item>> \in Locks(p) /\ <<"loan", q.item>> \in Locks(q)
    BY <1>6 DEF Locks, CardOps
  <2>. QED
    BY <1>2, <2>1, <2>2
<1>7. ~(p.op = "paybill" /\ q.op = "paybill" /\ p.item = q.item)
  BY <1>1
<1>. QED
  BY <1>3, <1>4, <1>5, <1>6, <1>7

\* What a settling session writes, but for the loan: a new row r, with the
\* invoices and the position that go with it.
Entered(s, r) ==
  LET w == ses[s]
  IN /\ w.pc = "commit" /\ w.op \in Debits \cup Credits
     /\ r = RowOf(w) /\ r \notin rows /\ rows' = rows \cup {r}
     /\ ses' = [ses EXCEPT ![s] = Idle] /\ UNCHANGED <<cards, month>>
     /\ statements' = IF w.op = "paystmt"
                        THEN [statements EXCEPT ![r.item] = [m \in Months |->
                               IF m \in r.pays THEN [@[m] EXCEPT !.paid = TRUE] ELSE @[m]]]
                        ELSE statements
     /\ position' = IF w.op \in {"buy", "sell"}
                      THEN [position EXCEPT ![Owner[r.acct]] =
                             IF w.op = "buy" THEN w.seen + r.amt ELSE w.seen - r.amt]
                      ELSE position

\* The row that is entered.
LEMMA EnteredRow ==
  ASSUME PInv, NEW s \in Sessions, NEW r, Entered(s, r)
  PROVE  /\ r \in Row /\ r.op = ses[s].op /\ r.item = ses[s].req.item /\ r.acct = ses[s].req.acct
         /\ r.amt = ses[s].req.amt /\ r.pays = ses[s].req.pick /\ r.month = ses[s].month
         /\ ses[s].req.op = ses[s].op /\ ses[s].req \in Request
         /\ r.amt \in Nat /\ r.acct \in Accounts /\ r.pays \subseteq Months
         /\ TypeOK /\ Ready(ses[s]) /\ (r.op \in CardOps => r.item \in Cards)
<1>1. ses[s] \in Session /\ ses[s].req \in Request /\ Sound(ses[s]) /\ TypeOK
  BY SoundSession DEF Entered
<1>2. ses[s].op \in Debits \cup Credits /\ ses[s].pc = "commit" /\ r = RowOf(ses[s])
  BY DEF Entered
<1>3. r \in Row /\ r.amt \in Nat /\ r.acct \in Accounts /\ r.pays \subseteq Months
  BY <1>1, <1>2 DEF RowOf, Row, Request, Session
<1>. QED
  BY <1>1, <1>2, <1>3 DEF RowOf, Sound, Shaped

\* Invoices keep their amounts; those a payment names are marked.
Marked(r) ==
  \A c \in Cards, m \in Months :
    /\ (statements'[c][m] = None) = (statements[c][m] = None)
    /\ statements[c][m] # None => statements'[c][m].due = statements[c][m].due
    /\ r.op = "paystmt" /\ c = r.item /\ m \in r.pays =>
         /\ statements[c][m] # None
         /\ statements'[c][m] = [statements[c][m] EXCEPT !.paid = TRUE]
    /\ ~(r.op = "paystmt" /\ c = r.item /\ m \in r.pays) =>
         statements'[c][m] = statements[c][m]

\* The invoices and positions after it.
LEMMA EnteredTypes ==
  ASSUME PInv, NEW s \in Sessions, NEW r, Entered(s, r)
  PROVE  /\ rows' \subseteq Row /\ IsFiniteSet(rows')
         /\ statements' \in [Cards -> [Months -> [due : Nat, paid : BOOLEAN] \cup {None}]]
         /\ position' \in [Customers -> Nat]
         /\ ses' \in [Sessions -> Session]
         /\ Marked(r)
<1>0. TypeOK /\ r \in Row
  BY EnteredRow
<1>1. rows' \subseteq Row /\ IsFiniteSet(rows')
  <2>1. rows' = rows \cup {r}
    BY DEF Entered
  <2>2. rows \subseteq Row /\ IsFiniteSet(rows)
    BY <1>0 DEF TypeOK
  <2>. QED
    BY <1>0, <2>1, <2>2, FS_AddElement
<1>2. ses' \in [Sessions -> Session]
  <2>1. ses' = [ses EXCEPT ![s] = Idle]
    BY DEF Entered
  <2>2. ses \in [Sessions -> Session] /\ Idle \in Session
    BY <1>0, IdleSound DEF TypeOK, Sound, Shaped
  <2>. QED
    BY <2>1, <2>2
<1>3. position' \in [Customers -> Nat]
  <2>1. ses[s].seen \in Nat
    BY SoundSession DEF Session
  <2>2. position \in [Customers -> Nat] /\ r.amt \in Nat /\ Ready(ses[s])
        /\ r.op = ses[s].op /\ r.amt = ses[s].req.amt
    BY EnteredRow DEF TypeOK
  <2>3. ses[s].op = "sell" => ses[s].seen >= r.amt
    BY <2>2 DEF Ready
  <2>4. \A n \in Nat : \A o : [position EXCEPT ![o] = n] \in [Customers -> Nat]
    BY <2>2
  <2>5. (IF ses[s].op = "buy" THEN ses[s].seen + r.amt ELSE ses[s].seen - r.amt) \in Nat
        \/ ses[s].op \notin {"buy", "sell"}
    BY <2>1, <2>2, <2>3
  <2>. QED
    BY <2>2, <2>4, <2>5 DEF Entered
<1>4. statements \in [Cards -> [Months -> [due : Nat, paid : BOOLEAN] \cup {None}]]
  BY EnteredRow DEF TypeOK
<1>5. ASSUME r.op = "paystmt"
      PROVE  /\ r.item \in Cards /\ r.pays \subseteq Months
             /\ \A m \in r.pays : statements[r.item][m] # None
             /\ statements' = [statements EXCEPT ![r.item] = [m \in Months |->
                   IF m \in r.pays THEN [statements[r.item][m] EXCEPT !.paid = TRUE]
                                   ELSE statements[r.item][m]]]
  <2>1. r.item \in Cards /\ r.pays \subseteq Months
    BY <1>5, EnteredRow DEF CardOps
  <2>2. \A m \in r.pays : statements[r.item][m] # None
    <3>1. ses[s].op = "paystmt" /\ Ready(ses[s]) /\ r.pays = ses[s].req.pick /\ r.item = ses[s].req.item
      BY <1>5, EnteredRow
    <3>2. r.pays \subseteq Invoices(r.item, Months, FALSE)
      BY <3>1 DEF Ready
    <3>. QED
      BY <3>2 DEF Invoices
  <2>. QED
    BY <1>4, <1>5, <2>1, <2>2, EnteredRow DEF Entered
<1>6. \A e \in [due : Nat, paid : BOOLEAN] :
        /\ [e EXCEPT !.paid = TRUE] \in [due : Nat, paid : BOOLEAN]
        /\ [e EXCEPT !.paid = TRUE].due = e.due /\ [e EXCEPT !.paid = TRUE] # None
  BY ProductsAssumption
<1>7. r.op # "paystmt" => statements' = statements
  BY EnteredRow DEF Entered
<1>8. ASSUME r.op = "paystmt", NEW c \in Cards, NEW m \in Months
      PROVE  statements'[c][m] = IF c = r.item /\ m \in r.pays
                                   THEN [statements[c][m] EXCEPT !.paid = TRUE]
                                   ELSE statements[c][m]
  <2>. DEFINE row == [x \in Months |->
                 IF x \in r.pays THEN [statements[r.item][x] EXCEPT !.paid = TRUE]
                                 ELSE statements[r.item][x]]
  <2>1. statements' = [statements EXCEPT ![r.item] = row]
    BY <1>5, <1>8
  <2>2. row[m] = IF m \in r.pays THEN [statements[r.item][m] EXCEPT !.paid = TRUE]
                                 ELSE statements[r.item][m]
    OBVIOUS
  <2>. HIDE DEF row
  <2>3. statements'[c] = IF c = r.item THEN row ELSE statements[c]
    BY <1>4, <1>8, <2>1
  <2>. QED
    BY <2>2, <2>3
<1>9. statements' \in [Cards -> [Months -> [due : Nat, paid : BOOLEAN] \cup {None}]]
  <2>1. CASE r.op # "paystmt"
    BY <1>4, <1>7, <2>1
  <2>2. CASE r.op = "paystmt"
    <3>. DEFINE row == [m \in Months |->
                   IF m \in r.pays THEN [statements[r.item][m] EXCEPT !.paid = TRUE]
                                   ELSE statements[r.item][m]]
    <3>1. row \in [Months -> [due : Nat, paid : BOOLEAN] \cup {None}]
      BY <1>4, <1>5, <1>6, <2>2
    <3>2. statements' = [statements EXCEPT ![r.item] = row]
      BY <1>5, <2>2
    <3>. HIDE DEF row
    <3>. QED
      BY <1>4, <3>1, <3>2
  <2>. QED
    BY <2>1, <2>2
<1>10. ASSUME NEW c \in Cards, NEW m \in Months
       PROVE  /\ (statements'[c][m] = None) = (statements[c][m] = None)
              /\ statements[c][m] # None => statements'[c][m].due = statements[c][m].due
              /\ r.op = "paystmt" /\ c = r.item /\ m \in r.pays =>
                   /\ statements[c][m] # None
                   /\ statements'[c][m] = [statements[c][m] EXCEPT !.paid = TRUE]
              /\ ~(r.op = "paystmt" /\ c = r.item /\ m \in r.pays) =>
                   statements'[c][m] = statements[c][m]
  <2>1. CASE r.op # "paystmt"
    BY <1>7, <2>1
  <2>2. CASE r.op = "paystmt"
    BY <1>4, <1>5, <1>6, <1>8, <2>2
  <2>. QED
    BY <2>1, <2>2
<1>. QED
  BY <1>1, <1>2, <1>3, <1>9, <1>10 DEF Marked

\* The accounts of a customer who has one.
LEMMA OnlyAccount ==
  ASSUME NEW o, Cardinality({a \in Accounts : Owner[a] = o}) = 1,
         NEW a \in Accounts, NEW b \in Accounts, Owner[a] = o, Owner[b] = o
  PROVE  a = b
<1>. DEFINE A == {x \in Accounts : Owner[x] = o}
<1>1. IsFiniteSet(A)
  BY FS_Subset, ProductsAssumption
<1>2. PICK x : A = {x}
  BY <1>1, FS_Singleton
<1>. QED
  BY <1>2

\* What the other sessions found is still so.
LEMMA EnteredReady ==
  ASSUME PInv, NEW s \in Sessions, NEW r, Entered(s, r), TypeOK',
         NEW t \in Sessions \ {s}, ses[t].pc = "commit"
  PROVE  Ready(ses[t])'
<1>. DEFINE v == ses[t]
            q == v.req
<1>0. /\ rows' = rows \cup {r} /\ cards' = cards /\ month' = month
      /\ ses[s].pc = "commit" /\ ses[s].op \in Debits \cup Credits
      /\ ses'[t] = v
  <2>1. TypeOK
    BY SoundSession
  <2>2. ses'[t] = v
    <3>1. ses' = [ses EXCEPT ![s] = Idle]
      BY DEF Entered
    <3>2. DOMAIN ses = Sessions
      BY <2>1 DEF TypeOK
    <3>. QED
      BY <3>1, <3>2
  <2>. QED
    BY <2>2 DEF Entered
<1>1. /\ TypeOK /\ Shaped(v) /\ Ready(v) /\ v \in Session /\ q \in Request
      /\ (v.op \in CardOps => q.item \in Cards) /\ q.acct \in Accounts
      /\ v.op \in Debits \cup Credits => q.op = v.op
  BY SoundSession DEF Sound, Shaped, Request
<1>2. /\ r \in Row /\ r \notin rows /\ r.op = ses[s].op /\ r.item = ses[s].req.item
      /\ r.acct = ses[s].req.acct /\ r.amt \in Nat /\ ses[s].req.op = r.op
  BY EnteredRow DEF Entered
<1>3. ASSUME v.op \in Debits \cup Credits
      PROVE  /\ r.op \in CardOps /\ v.op \in CardOps => r.item # q.item
             /\ r.acct = q.acct => r.op \in {"repay", "approve"} \/ v.op \in {"repay", "approve"}
             /\ ~(r.op = "paybill" /\ v.op = "paybill" /\ r.item = q.item)
             /\ ~(r.op = "repay" /\ v.op = "repay" /\ r.item = q.item)
             /\ ~(r.op = "approve" /\ v.op = "approve")
  BY <1>0, <1>1, <1>2, <1>3, Apart
<1>4. ASSUME v.op = "purchase"
      PROVE  cards'[q.item] = cards[q.item] /\ \A M : Purchases(q.item, M)' = Purchases(q.item, M)
  <2>1. v.op \in Debits /\ v.op \in CardOps
    BY <1>4 DEF Debits, CardOps
  <2>2. ~(r.op = "purchase" /\ r.item = q.item)
    BY <1>3, <2>1 DEF CardOps
  <2>3. {x \in rows' : x.op = "purchase" /\ x.item = q.item}
          = {x \in rows : x.op = "purchase" /\ x.item = q.item}
    BY <1>0, <2>2
  <2>. QED
    BY <1>0, <2>3, PurchasesSame
<1>5. ASSUME v.op \in CardOps
      PROVE  \A m \in Months : statements'[q.item][m] = statements[q.item][m]
  <2>1. v.op \in Debits
    BY <1>5 DEF Debits, CardOps
  <2>2. ~(r.op = "paystmt" /\ r.item = q.item)
    BY <1>3, <1>5, <2>1 DEF CardOps
  <2>. QED
    <3>1. \A c \in Cards, m \in Months :
            ~(r.op = "paystmt" /\ c = r.item /\ m \in r.pays) => statements'[c][m] = statements[c][m]
      <4>1. Marked(r)
        BY EnteredTypes
      <4>. QED
        BY <4>1 DEF Marked
    <3>. QED
      BY <1>1, <1>5, <2>2, <3>1
<1>6. ASSUME Funded(v)
      PROVE  Spare(q.acct)' >= Spare(q.acct)
  <2>1. v.op \in Debits /\ v.op \notin {"repay", "approve"}
    BY <1>6 DEF Funded, Debits
  <2>2. r.acct = q.acct => r.op \in {"repay", "approve"}
    BY <1>3, <2>1
  <2>3. r.acct = q.acct /\ r.op # "repay" => r.op \in Credits
    BY <2>2 DEF Credits
  <2>4. Spare(q.acct) \in Int
    BY <1>1, SpareInt
  <2>5. Spare(q.acct)' = Spare(q.acct) +
           (IF r.acct # q.acct \/ r.op = "repay" \/ (r.op = "purchase" /\ r.item \in CreditCards) THEN 0
            ELSE IF r.op \in Credits THEN r.amt ELSE -r.amt)
    BY <1>0, <1>1, <1>2, SpareStep
  <2>. QED
    BY <1>2, <2>3, <2>4, <2>5
<1>7. ASSUME v.op = "paybill", BillPaid(q.item)' PROVE BillPaid(q.item)
  <2>1. v.op \in Debits
    BY <1>7 DEF Debits
  <2>2. ~(r.op = "paybill" /\ r.item = q.item)
    BY <1>3, <1>7, <2>1
  <2>. QED
    BY <1>0, <1>7, <2>2 DEF BillPaid
<1>8. ASSUME v.op = "repay", InstalmentPaid(q.item)' PROVE InstalmentPaid(q.item)
  <2>1. v.op \in Debits
    BY <1>8 DEF Debits
  <2>2. ~(r.op = "repay" /\ r.item = q.item)
    BY <1>3, <1>8, <2>1
  <2>. QED
    BY <1>0, <1>8, <2>2 DEF InstalmentPaid
<1>9. ASSUME v.op = "approve", Disbursed' PROVE Disbursed
  <2>1. v.op \in Credits
    BY <1>9 DEF Credits
  <2>2. r.op # "approve"
    BY <1>3, <1>9, <2>1
  <2>. QED
    BY <1>0, <1>9, <2>2 DEF Disbursed
<1>10. ASSUME v.op \in {"buy", "sell"},
              Cardinality({a \in Accounts : Owner[a] = Owner[q.acct]}) = 1
       PROVE  position'[Owner[q.acct]] = position[Owner[q.acct]]
  <2>1. v.op \in Debits \cup Credits /\ v.op \notin {"repay", "approve"}
    BY <1>10 DEF Debits, Credits
  <2>2. r.acct # q.acct \/ r.op \in {"repay", "approve"}
    BY <1>3, <2>1
  <2>3. r.acct \in Accounts
    BY <1>2 DEF Row
  <2>4. CASE r.op \in {"buy", "sell"}
    <3>1. r.acct # q.acct
      BY <2>2, <2>4
    <3>2. Owner[r.acct] # Owner[q.acct]
      BY <1>1, <1>10, <2>3, <3>1, OnlyAccount
    <3>3. PICK n : position' = [position EXCEPT ![Owner[r.acct]] = n] \/ position' = position
      BY <1>2 DEF Entered
    <3>4. position \in [Customers -> Nat] /\ Owner[q.acct] \in Customers
      BY <1>1 DEF TypeOK, Customers
    <3>5. CASE position' = [position EXCEPT ![Owner[r.acct]] = n]
      <4>. DEFINE o == Owner[q.acct]
                  p == Owner[r.acct]
      <4>1. o # p /\ o \in Customers /\ position' = [position EXCEPT ![p] = n]
        BY <3>2, <3>4, <3>5
      <4>. HIDE DEF o, p
      <4>2. position'[o] = position[o]
        BY <3>4, <4>1
      <4>. QED
        BY <4>2 DEF o
    <3>. QED
      BY <3>3, <3>5
  <2>5. CASE r.op \notin {"buy", "sell"}
    BY <1>2, <2>5 DEF Entered
  <2>. QED
    BY <2>4, <2>5
<1>11. rows \subseteq rows'
  BY <1>0
<1>12. PICK w : w = v
  OBVIOUS
<1>13. Shaped(w) /\ Ready(w) /\ w = ses'[t]
  BY <1>0, <1>1, <1>12
<1>14. Undisturbed(w)
  BY <1>0, <1>4, <1>5, <1>6, <1>7, <1>8, <1>9, <1>10, <1>12 DEF Undisturbed
<1>15. Ready(w)'
  BY <1>1, <1>11, <1>13, <1>14, ReadyFrame
<1>. QED
  BY <1>13, <1>15

\* A settled order adds its shares to those of its customer.
LEMMA OrderedStep ==
  ASSUME TypeOK, NEW r \in Row, r \notin rows, rows' = rows \cup {r}, NEW o, NEW op
  PROVE  /\ Ordered(o, op) \in Nat
         /\ Ordered(o, op)' = Ordered(o, op) + (IF r.op = op /\ Owner[r.acct] = o THEN r.amt ELSE 0)
<1>1. OrderRows(o, op) \subseteq rows /\ rows \subseteq Row /\ IsFiniteSet(rows)
  BY DEF OrderRows, TypeOK
<1>2. OrderRows(o, op) \in SUBSET Row /\ IsFiniteSet(OrderRows(o, op)) /\ r \notin OrderRows(o, op)
  BY <1>1, FS_Subset
<1>3. Ordered(o, op) \in Nat
  BY <1>2, TotalNat, OrderedIs
<1>4. OrderRows(o, op)' = IF r.op = op /\ Owner[r.acct] = o
                            THEN OrderRows(o, op) \cup {r} ELSE OrderRows(o, op)
  BY DEF OrderRows
<1>5. TotalOf(OrderRows(o, op) \cup {r}) = TotalOf(OrderRows(o, op)) + r.amt
  BY <1>2, TotalAdd
<1>6. Ordered(o, op)' = TotalOf(OrderRows(o, op)')
  BY DEF Ordered, OrderRows, TotalOf
<1>. QED
  BY <1>3, <1>4, <1>5, <1>6, OrderedIs

\* What has been settled, with the new row.
LEMMA EnteredBooks ==
  ASSUME PInv, NEW s \in Sessions, NEW r, Entered(s, r), TypeOK',
         r.op = "approve" => ~Disbursed,
         loan'.status = "PAID" => loan.status = "PAID" \/ (r.op = "repay" /\ ses[s].loanTo = "PAID")
  PROVE  Books'
<1>. DEFINE w == ses[s]
            q == w.req
<1>0. rows' = rows \cup {r} /\ r \notin rows /\ month' = month /\ w.pc = "commit" /\ Marked(r)
  BY EnteredTypes DEF Entered
<1>1. /\ r \in Row /\ r.op = w.op /\ r.item = q.item /\ r.acct = q.acct /\ r.amt = q.amt
      /\ r.pays = q.pick /\ q.op = w.op /\ r.amt \in Nat /\ r.acct \in Accounts
      /\ r.pays \subseteq Months /\ TypeOK /\ Ready(w) /\ (r.op \in CardOps => r.item \in Cards)
  BY EnteredRow
<1>2. Books
  BY PInvIs
<1>3. r.op = "paystmt" => r.item \in Cards /\ r.pays \subseteq Invoices(r.item, Months, FALSE)
  BY <1>1 DEF Ready, CardOps
<1>4. PaymentsMarked'
  <2>. SUFFICES ASSUME NEW p \in rows', p.op = "paystmt"
                PROVE  /\ p.item \in Cards
                       /\ \A m \in p.pays : statements'[p.item][m] # None /\ statements'[p.item][m].paid
    BY DEF PaymentsMarked
  <2>0. p \in Row /\ p.pays \subseteq Months
    BY <1>0, <1>1 DEF TypeOK, Row
  <2>1. CASE p \in rows
    <3>1. p.item \in Cards /\ \A m \in p.pays : statements[p.item][m] # None /\ statements[p.item][m].paid
      BY <1>2, <2>1 DEF Books, PaymentsMarked
    <3>. SUFFICES ASSUME NEW m \in p.pays
                  PROVE  statements'[p.item][m] # None /\ statements'[p.item][m].paid
      BY <3>1
    <3>2. statements[p.item][m] \in [due : Nat, paid : BOOLEAN]
      BY <1>1, <2>0, <3>1 DEF TypeOK
    <3>3. \/ statements'[p.item][m] = [statements[p.item][m] EXCEPT !.paid = TRUE]
          \/ statements'[p.item][m] = statements[p.item][m]
      BY <1>0, <2>0, <3>1 DEF Marked
    <3>4. (statements'[p.item][m] = None) = (statements[p.item][m] = None)
      BY <1>0, <2>0, <3>1 DEF Marked
    <3>. QED
      BY <3>1, <3>2, <3>3, <3>4
  <2>2. CASE p = r
    <3>1. p.item \in Cards
      BY <1>3, <2>2
    <3>. SUFFICES ASSUME NEW m \in p.pays
                  PROVE  statements'[p.item][m] # None /\ statements'[p.item][m].paid
      BY <3>1
    <3>2. /\ statements[p.item][m] # None
          /\ statements'[p.item][m] = [statements[p.item][m] EXCEPT !.paid = TRUE]
          /\ (statements'[p.item][m] = None) = (statements[p.item][m] = None)
      BY <1>0, <2>0, <2>2, <3>1 DEF Marked
    <3>3. statements[p.item][m] \in [due : Nat, paid : BOOLEAN]
      BY <1>1, <2>0, <3>1, <3>2 DEF TypeOK
    <3>. QED
      BY <3>2, <3>3
  <2>. QED
    BY <1>0, <2>1, <2>2
<1>5. DebitsCovered'
  <2>. SUFFICES ASSUME NEW a \in Accounts PROVE Spare(a)' >= 0
    BY DEF DebitsCovered
  <2>1. Spare(a)' = Spare(a) +
           (IF r.acct # a \/ r.op = "repay" \/ (r.op = "purchase" /\ r.item \in CreditCards) THEN 0
            ELSE IF r.op \in Credits THEN r.amt ELSE -r.amt)
    BY <1>0, <1>1, SpareStep
  <2>2. Spare(a) \in Int /\ Spare(a) >= 0
    BY <1>1, <1>2, SpareInt DEF Books, DebitsCovered
  <2>3. r.op \notin Credits /\ r.op # "repay" /\ ~(r.op = "purchase" /\ r.item \in CreditCards)
          => Spare(r.acct) >= r.amt
    <3>1. r.op \in Debits \cup Credits
      BY <1>1 DEF Row
    <3>2. Funded(w) => Spare(r.acct) >= r.amt
      BY <1>1 DEF Ready
    <3>. QED
      BY <1>1, <3>1, <3>2 DEF Funded, Debits, Credits
  <2>. QED
    BY <1>1, <2>1, <2>2, <2>3
<1>6. SettledOnce'
  <2>. DEFINE Apt(x, y) == /\ x.op \in {"paybill", "repay"} => x.item # y.item
                           /\ x.op # "approve"
                           /\ x.op = "paystmt" /\ x.item = y.item => x.pays \cap y.pays = {}
  <2>1. ASSUME NEW p \in rows, p.op = r.op PROVE Apt(p, r) /\ Apt(r, p)
    <3>1. r.op = "paybill" => p.item # r.item
      BY <1>1, <2>1 DEF Ready, BillPaid
    <3>2. r.op = "repay" => p.item # r.item
      BY <1>1, <2>1 DEF Ready, InstalmentPaid
    <3>3. r.op # "approve"
      BY <2>1 DEF Disbursed
    <3>4. ASSUME r.op = "paystmt", p.item = r.item PROVE p.pays \cap r.pays = {}
      <4>1. \A m \in p.pays : statements[r.item][m].paid
        BY <1>2, <2>1, <3>4 DEF Books, PaymentsMarked
      <4>2. \A m \in r.pays : statements[r.item][m] # None /\ statements[r.item][m].paid = FALSE
        BY <1>3, <3>4 DEF Invoices
      <4>. QED
        BY <4>1, <4>2
    <3>. QED
      BY <2>1, <3>1, <3>2, <3>3, <3>4
  <2>2. \A x, y \in rows : x # y /\ x.op = y.op => Apt(x, y)
    BY <1>2 DEF Books, SettledOnce
  <2>3. \A x, y \in rows' : x # y /\ x.op = y.op => Apt(x, y)
    <3>. HIDE DEF Apt
    <3>. QED
      BY <1>0, <2>1, <2>2
  <2>. QED
    BY <2>3 DEF SettledOnce
<1>7. BilledWithinPurchases'
  <2>. SUFFICES ASSUME NEW c \in Cards, NEW m \in Months, statements'[c][m] # None
                PROVE  statements'[c][m].due <= TotalOf(Purchases(c, {m}))'
    BY DEF BilledWithinPurchases
  <2>1. statements[c][m] # None /\ statements'[c][m].due = statements[c][m].due
    BY <1>0 DEF Marked
  <2>2. statements[c][m].due <= TotalOf(Purchases(c, {m}))
    BY <1>2, <2>1 DEF Books, BilledWithinPurchases
  <2>3. /\ TotalOf(Purchases(c, {m})) \in Nat /\ TotalOf(Purchases(c, {m}))' \in Nat
        /\ statements[c][m].due \in Nat
    BY <1>1, <2>1, UsedInt, NumbersAfter DEF TypeOK
  <2>4. TotalOf(Purchases(c, {m})) <= TotalOf(Purchases(c, {m}))'
    BY <1>0, <1>1, PurchasesGrow
  <2>. QED
    BY <1>0, <2>1, <2>2, <2>3, <2>4
<1>8. PaidLoansArePaid'
  <2>. SUFFICES ASSUME loan'.status = "PAID", NEW i \in Instalments PROVE InstalmentPaid(i)'
    BY DEF PaidLoansArePaid
  <2>1. InstalmentPaid(i) => InstalmentPaid(i)'
    BY <1>0 DEF InstalmentPaid
  <2>2. CASE loan.status = "PAID"
    BY <1>2, <2>1, <2>2 DEF Books, PaidLoansArePaid
  <2>3. CASE r.op = "repay" /\ w.loanTo = "PAID"
    <3>1. i # r.item => InstalmentPaid(i)
      <4>1. "PAID" # None
        BY ProductsAssumption
      <4>. QED
        BY <1>1, <2>3, <4>1 DEF Ready
    <3>2. i = r.item => InstalmentPaid(i)'
      BY <1>0, <2>3 DEF InstalmentPaid
    <3>. QED
      BY <2>1, <3>1, <3>2
  <2>. QED
    BY <2>2, <2>3
<1>9. PositionsMatchOrders'
  <2>. SUFFICES ASSUME NEW o \in Customers, Cardinality({a \in Accounts : Owner[a] = o}) = 1
                PROVE  position'[o] = Ordered(o, "buy")' - Ordered(o, "sell")'
    BY DEF PositionsMatchOrders
  <2>1. /\ Ordered(o, "buy") \in Nat /\ Ordered(o, "sell") \in Nat
        /\ Ordered(o, "buy")' = Ordered(o, "buy") + (IF r.op = "buy" /\ Owner[r.acct] = o THEN r.amt ELSE 0)
        /\ Ordered(o, "sell")' = Ordered(o, "sell") + (IF r.op = "sell" /\ Owner[r.acct] = o THEN r.amt ELSE 0)
    BY <1>0, <1>1, OrderedStep
  <2>2. position[o] = Ordered(o, "buy") - Ordered(o, "sell") /\ position[o] \in Nat
    BY <1>1, <1>2 DEF Books, PositionsMatchOrders, TypeOK
  <2>3. CASE r.op \in {"buy", "sell"} /\ Owner[r.acct] = o
    <3>1. w.seen = position[o]
      BY <1>1, <2>3 DEF Ready
    <3>2. position'[o] = IF w.op = "buy" THEN w.seen + r.amt ELSE w.seen - r.amt
      <4>1. position' = [position EXCEPT ![Owner[r.acct]] =
                           IF w.op = "buy" THEN w.seen + r.amt ELSE w.seen - r.amt]
        BY <1>1, <2>3 DEF Entered
      <4>2. position \in [Customers -> Nat]
        BY <1>1 DEF TypeOK
      <4>. HIDE DEF w
      <4>. QED
        BY <2>3, <4>1, <4>2
    <3>. QED
      BY <1>1, <2>1, <2>2, <2>3, <3>1, <3>2
  <2>4. CASE ~(r.op \in {"buy", "sell"} /\ Owner[r.acct] = o)
    <3>1. position'[o] = position[o]
      <4>1. PICK n : \/ r.op \in {"buy", "sell"} /\ position' = [position EXCEPT ![Owner[r.acct]] = n]
                     \/ position' = position
        BY <1>1 DEF Entered
      <4>2. position \in [Customers -> Nat]
        BY <1>1 DEF TypeOK
      <4>. QED
        BY <2>4, <4>1, <4>2
    <3>. QED
      BY <2>1, <2>2, <2>4, <3>1
  <2>. QED
    BY <2>3, <2>4
<1>. QED
  BY <1>4, <1>5, <1>6, <1>7, <1>8, <1>9 DEF Books

\* A settling session ends, whatever becomes of the loan.
LEMMA EnteredStep ==
  ASSUME PInv, NEW s \in Sessions, NEW r, Entered(s, r),
         loan' \in [status : LoanStatuses, score : 300 .. 850],
         r.op = "approve" => ~Disbursed,
         loan'.status = "PAID" => loan.status = "PAID" \/ (r.op = "repay" /\ ses[s].loanTo = "PAID")
  PROVE  PInv'
<1>1. TypeOK'
  <2>1. TypeOK /\ cards' = cards /\ month' = month
    BY PInvIs DEF Entered
  <2>2. /\ rows' \subseteq Row /\ IsFiniteSet(rows')
        /\ statements' \in [Cards -> [Months -> [due : Nat, paid : BOOLEAN] \cup {None}]]
        /\ position' \in [Customers -> Nat] /\ ses' \in [Sessions -> Session]
    BY EnteredTypes
  <2>. QED
    BY <2>1, <2>2 DEF TypeOK
<1>2. \A t \in Sessions : ses'[t] = IF t = s THEN Idle ELSE ses[t]
  <2>1. ses \in [Sessions -> Session] /\ ses' = [ses EXCEPT ![s] = Idle]
    BY PInvIs DEF Entered, TypeOK
  <2>. QED
    BY <2>1
<1>3. SessionsSound'
  <2>. SUFFICES ASSUME NEW t \in Sessions
                PROVE  Shaped(ses'[t]) /\ Covered(ses'[t]) /\ (ses'[t].pc = "commit" => Ready(ses[t])')
    BY DEF SessionsSound
  <2>1. CASE t = s
    BY <1>2, <2>1, IdleSound DEF Sound
  <2>2. CASE t # s
    <3>1. ses'[t] = ses[t] /\ Shaped(ses[t]) /\ Covered(ses[t])
      BY <1>2, <2>2, PInvIs DEF SessionsSound
    <3>2. ses[t].pc = "commit" => Ready(ses[t])'
      BY <1>1, <2>2, EnteredReady
    <3>. QED
      BY <3>1, <3>2
  <2>. QED
    BY <2>1, <2>2
<1>4. LocksApart'
  <2>1. LocksApart /\ Idle.held = {}
    BY PInvIs, IdleSound
  <2>. QED
    BY <1>2, <2>1 DEF LocksApart
<1>5. Books'
  BY <1>1, EnteredBooks
<1>. QED
  BY <1>1, <1>3, <1>4, <1>5 DEF PInv, Books

\* Nothing known of a row of this kind: its key has not been used.
LEMMA NotYet ==
  ASSUME NEW w, w.op = w.req.op, ~Done(w.req)
  PROVE  RowOf(w) \notin rows
BY DEF Done, RowOf

LEMMA SettleStep ==
  ASSUME PInv, NEW s \in Sessions, NEW op \in {"purchase", "paybill", "fund"}, Settle(s, op)
  PROVE  PInv'
<1>. DEFINE r == RowOf(ses[s])
<1>0. ses[s].op = op /\ ses[s].pc = "commit" /\ op \in Debits \cup Credits
  BY DEF Settle, At, Debits, Credits
<1>1. CASE Done(ses[s].req)
  BY <1>1, AbandonStep DEF Settle
<1>2. CASE ~Done(ses[s].req)
  <2>1. Shaped(ses[s]) /\ ses[s].req.op = op
    BY <1>0, SoundSession DEF Shaped
  <2>2. r \notin rows /\ r.op = op
    BY <1>0, <1>2, <2>1, NotYet DEF RowOf
  <2>3. Enter(s) /\ UNCHANGED <<statements, loan, position>>
    BY <1>2 DEF Settle
  <2>4. Entered(s, r)
    <3>. HIDE DEF r
    <3>1. rows' = rows \cup {r} /\ ses' = [ses EXCEPT ![s] = Idle] /\ UNCHANGED <<cards, month>>
      BY <2>3 DEF Enter, r
    <3>2. op \notin {"paystmt", "buy", "sell"}
      OBVIOUS
    <3>. QED
      BY <1>0, <2>2, <2>3, <3>1, <3>2 DEF Entered, r
  <2>5. loan' \in [status : LoanStatuses, score : 300 .. 850] /\ loan' = loan
    BY <2>3, PInvIs DEF TypeOK
  <2>. HIDE DEF r
  <2>. QED
    BY <2>2, <2>4, <2>5, EnteredStep
<1>. QED
  BY <1>1, <1>2

LEMMA SettleStatementsStep ==
  ASSUME PInv, NEW s \in Sessions, SettleStatements(s)
  PROVE  LET r == RowOf(ses[s]) IN PInv' /\ Entered(s, r) /\ r.op = "paystmt"
<1>. DEFINE r == RowOf(ses[s])
            q == ses[s].req
<1>0. ses[s].op = "paystmt" /\ ses[s].pc = "commit" /\ ses[s].op \in Debits /\ ses[s].op \in CardOps
  BY DEF SettleStatements, At, Debits, CardOps
<1>1. r.op = "paystmt" /\ r.item = q.item /\ r.pays = q.pick /\ r.acct = q.acct /\ r.amt = q.amt
  BY <1>0 DEF RowOf
<1>2. Ready(ses[s]) /\ Shaped(ses[s]) /\ q.item \in Cards
  BY <1>0, SoundSession DEF Sound, Shaped
<1>3. r \notin rows
  <2>. SUFFICES ASSUME r \in rows PROVE FALSE
    OBVIOUS
  <2>1. q.pick # {} /\ q.pick \subseteq Invoices(q.item, Months, FALSE)
    BY <1>0, <1>2 DEF Ready
  <2>2. PICK m \in q.pick : m \in Invoices(q.item, Months, FALSE)
    BY <2>1
  <2>3. statements[q.item][m].paid = FALSE
    BY <2>2 DEF Invoices
  <2>4. statements[q.item][m].paid
    <3>1. PaymentsMarked
      BY PInvIs DEF Books
    <3>. HIDE DEF r
    <3>. QED
      BY <1>1, <3>1 DEF PaymentsMarked
  <2>. QED
    BY <2>3, <2>4
<1>4. Entered(s, r)
  <2>1. /\ rows' = rows \cup {r} /\ ses' = [ses EXCEPT ![s] = Idle] /\ UNCHANGED <<cards, month>>
        /\ UNCHANGED <<loan, position>>
        /\ statements' = [statements EXCEPT ![q.item] = [m \in Months |->
             IF m \in q.pick THEN [statements[q.item][m] EXCEPT !.paid = TRUE]
                             ELSE statements[q.item][m]]]
    BY DEF SettleStatements, Enter
  <2>2. statements' = [statements EXCEPT ![r.item] = [m \in Months |->
             IF m \in r.pays THEN [statements[r.item][m] EXCEPT !.paid = TRUE]
                             ELSE statements[r.item][m]]]
    <3>. HIDE DEF r
    <3>. QED
      BY <1>1, <2>1
  <2>3. r = RowOf(ses[s])
    OBVIOUS
  <2>. HIDE DEF r
  <2>. QED
    BY <1>0, <1>3, <2>1, <2>2, <2>3 DEF Entered
<1>5. loan' \in [status : LoanStatuses, score : 300 .. 850] /\ loan' = loan
  BY PInvIs DEF TypeOK, SettleStatements
<1>. HIDE DEF r
<1>6. PInv'
  BY <1>1, <1>4, <1>5, EnteredStep
<1>. QED
  BY <1>1, <1>4, <1>6 DEF r

LEMMA SettleOrderStep ==
  ASSUME PInv, NEW s \in Sessions, SettleOrder(s)
  PROVE  PInv'
<1>. DEFINE r == RowOf(ses[s])
            q == ses[s].req
<1>0. ses[s].op \in {"buy", "sell"} /\ ses[s].pc = "commit" /\ ses[s].op \in Debits \cup Credits
  BY DEF SettleOrder, At, Debits, Credits
<1>1. CASE Done(q)
  BY <1>1, AbandonStep DEF SettleOrder
<1>2. CASE ~Done(q)
  <2>1. Shaped(ses[s]) /\ q.op = ses[s].op
    BY <1>0, SoundSession DEF Shaped
  <2>2. r \notin rows /\ r.op = ses[s].op /\ r.amt = q.amt /\ r.acct = q.acct /\ r = RowOf(ses[s])
    BY <1>0, <1>2, <2>1, NotYet DEF RowOf
  <2>3. /\ rows' = rows \cup {r} /\ ses' = [ses EXCEPT ![s] = Idle]
        /\ UNCHANGED <<cards, month, statements, loan>>
        /\ position' = [position EXCEPT ![Owner[q.acct]] =
             IF q.op = "buy" THEN ses[s].seen + q.amt ELSE ses[s].seen - q.amt]
    BY <1>2 DEF SettleOrder, Enter
  <2>. HIDE DEF r
  <2>4. Entered(s, r)
    BY <1>0, <2>1, <2>2, <2>3 DEF Entered
  <2>5. loan' \in [status : LoanStatuses, score : 300 .. 850] /\ loan' = loan
    BY <2>3, PInvIs DEF TypeOK
  <2>. QED
    BY <1>0, <2>2, <2>4, <2>5, EnteredStep
<1>. QED
  BY <1>1, <1>2

LEMMA SettleRepaymentStep ==
  ASSUME PInv, NEW s \in Sessions, SettleRepayment(s)
  PROVE  PInv'
<1>. DEFINE r == RowOf(ses[s])
            w == ses[s]
<1>0. w.op = "repay" /\ w.pc = "commit" /\ w.op \in Debits
  BY DEF SettleRepayment, At, Debits
<1>1. CASE Done(w.req)
  BY <1>1, AbandonStep DEF SettleRepayment
<1>2. CASE ~Done(w.req)
  <2>1. Shaped(w) /\ w.req.op = w.op /\ Ready(w)
    BY <1>0, SoundSession DEF Sound, Shaped
  <2>2. r \notin rows /\ r.op = "repay" /\ r = RowOf(ses[s])
    BY <1>0, <1>2, <2>1, NotYet DEF RowOf
  <2>3. /\ rows' = rows \cup {r} /\ ses' = [ses EXCEPT ![s] = Idle]
        /\ UNCHANGED <<cards, month, statements, position>>
        /\ loan' = IF w.loanTo = None THEN loan ELSE [loan EXCEPT !.status = w.loanTo]
    BY <1>2 DEF SettleRepayment, Enter
  <2>. HIDE DEF r
  <2>4. Entered(s, r)
    BY <1>0, <2>2, <2>3 DEF Entered
  <2>5. w.loanTo # None => w.loanTo = "PAID"
    BY <1>0, <2>1 DEF Ready
  <2>6. /\ loan' \in [status : LoanStatuses, score : 300 .. 850]
        /\ loan'.status = "PAID" => loan.status = "PAID" \/ w.loanTo = "PAID"
    <3>1. loan \in [status : LoanStatuses, score : 300 .. 850]
      BY PInvIs DEF TypeOK
    <3>. QED
      BY <2>3, <2>5, <3>1 DEF LoanStatuses
  <2>. QED
    BY <2>2, <2>4, <2>6, EnteredStep
<1>. QED
  BY <1>1, <1>2

LEMMA SettleLoanStep ==
  ASSUME PInv, NEW s \in Sessions, SettleLoan(s)
  PROVE  PInv'
<1>. DEFINE r == RowOf(ses[s])
            w == ses[s]
<1>0. w.op = "approve" /\ w.pc = "commit" /\ w.op \in Credits
  BY DEF SettleLoan, At, Credits
<1>1. Shaped(w) /\ w.req.op = w.op /\ Ready(w) /\ TypeOK /\ SessionsSound /\ LocksApart /\ Books
  BY <1>0, SoundSession, PInvIs DEF Sound, Shaped
<1>2. /\ w.loanTo \in {"REJECTED", "APPROVED", "ACTIVE"}
      /\ w.loanTo = "ACTIVE" => ~Disbursed
  BY <1>0, <1>1 DEF Ready
<1>3. loan' = [loan EXCEPT !.status = w.loanTo] /\ UNCHANGED <<statements, position>>
  BY DEF SettleLoan
<1>4. loan' \in [status : LoanStatuses, score : 300 .. 850] /\ loan'.status # "PAID"
  <2>1. loan \in [status : LoanStatuses, score : 300 .. 850]
    BY <1>1 DEF TypeOK
  <2>. QED
    BY <1>2, <1>3, <2>1 DEF LoanStatuses
<1>5. CASE w.loanTo = "ACTIVE"
  <2>1. rows' = rows \cup {r} /\ ses' = [ses EXCEPT ![s] = Idle] /\ UNCHANGED <<cards, month>>
    BY <1>5 DEF SettleLoan, Enter
  <2>2. r \notin rows /\ r.op = "approve" /\ r = RowOf(ses[s])
    BY <1>0, <1>2, <1>5 DEF RowOf, Disbursed
  <2>. HIDE DEF r
  <2>3. Entered(s, r)
    BY <1>0, <1>3, <2>1, <2>2 DEF Entered
  <2>. QED
    BY <1>2, <1>4, <1>5, <2>2, <2>3, EnteredStep
<1>6. CASE w.loanTo # "ACTIVE"
  <2>1. ses' = [ses EXCEPT ![s] = Idle] /\ UNCHANGED <<rows, cards, month>>
    BY <1>6 DEF SettleLoan
  <2>2. Idle \in Session /\ Idle.held = {} /\ Idle.pc = "idle" /\ Sound(Idle)
    BY IdleSound DEF Sound, Shaped
  <2>3. TypeOK'
    <3>1. ses' \in [Sessions -> Session]
      BY <1>1, <2>1, <2>2 DEF TypeOK
    <3>. QED
      BY <1>1, <1>3, <1>4, <2>1, <3>1 DEF TypeOK
  <2>4. \A t \in Sessions : ses'[t] = IF t = s THEN Idle ELSE ses[t]
    BY <1>1, <2>1 DEF TypeOK
  <2>5. SessionsSound'
    <3>. SUFFICES ASSUME NEW t \in Sessions
                  PROVE  Shaped(ses'[t]) /\ Covered(ses'[t])
                         /\ (ses'[t].pc = "commit" => Ready(ses[t])')
      BY DEF SessionsSound
    <3>1. Shaped(ses'[t]) /\ Covered(ses'[t]) /\ (ses'[t].pc = "commit" => Ready(ses'[t]))
      BY <1>1, <2>2, <2>4 DEF SessionsSound, Sound
    <3>. QED
      BY <1>1, <1>3, <2>1, <2>3, <3>1, ReadySame
  <2>6. LocksApart'
    BY <1>1, <2>2, <2>4 DEF LocksApart
  <2>7. Books'
    <3>1. PaidLoansArePaid'
      BY <1>4 DEF PaidLoansArePaid
    <3>2. loan' = loan \/ PaidLoansArePaid'
      BY <3>1
    <3>. QED
      BY <1>1, <1>3, <2>1, <3>1, BooksButLoan
  <2>. QED
    BY <2>3, <2>5, <2>6, <2>7 DEF PInv, Books
<1>. QED
  BY <1>5, <1>6

-----------------------------------------------------------------------------
(* The other steps.                                                          *)

\* Sessions go on while rows, cards and positions stay.
LEMMA OthersReady ==
  ASSUME PInv, TypeOK', UNCHANGED <<rows, position>>, NEW s \in Sessions,
         ses'[s] = ses[s], ses[s].pc = "commit",
         ses[s].op = "purchase" => cards'[ses[s].req.item] = cards[ses[s].req.item],
         ses[s].op \in CardOps => \A m \in Months :
           statements'[ses[s].req.item][m] = statements[ses[s].req.item][m]
  PROVE  Ready(ses[s])'
<1>. DEFINE v == ses[s]
            q == v.req
<1>1. Shaped(v) /\ Ready(v) /\ TypeOK /\ v \in Session
  BY SoundSession DEF Sound
<1>2. \A i, M : Purchases(i, M)' = Purchases(i, M)
  BY PurchasesSame
<1>3. \A a : Spare(a)' = Spare(a)
  BY SpareSame
<1>4. v.op \in Debits \cup Credits => q.acct \in Accounts
  BY <1>1 DEF Shaped, Session, Request, Debits, Credits
<1>5. Funded(v) => Spare(q.acct)' >= Spare(q.acct)
  BY <1>1, <1>3, <1>4, SpareInt DEF Funded, Debits
<1>6. \A i : BillPaid(i)' = BillPaid(i) /\ InstalmentPaid(i)' = InstalmentPaid(i)
  BY DEF BillPaid, InstalmentPaid
<1>7. Disbursed' = Disbursed
  BY DEF Disbursed
<1>. QED
  BY <1>1, <1>2, <1>5, <1>6, <1>7, ReadyFrame DEF Undisturbed

\* No session moves: what each found is still so if the step lets it be.
LEMMA CardControlStep ==
  ASSUME PInv, NEW c \in Cards, NEW st \in {"ACTIVE", "FROZEN", "BLOCKED"}, NEW d \in DailyLimits,
         SetCardControl(c, st, d)
  PROVE  PInv'
<1>1. /\ TypeOK /\ SessionsSound /\ LocksApart /\ Books /\ Free(None, {<<"card", c>>})
      /\ cards' = [cards EXCEPT ![c] = [status |-> st, daily |-> d]]
      /\ UNCHANGED <<rows, statements, loan, position, month, ses>>
  BY PInvIs DEF SetCardControl
<1>2. TypeOK'
  BY <1>1 DEF TypeOK
<1>3. ASSUME NEW t \in Sessions, ses[t].pc = "commit" PROVE Ready(ses[t])'
  <2>1. ASSUME ses[t].op = "purchase" PROVE cards'[ses[t].req.item] = cards[ses[t].req.item]
    <3>1. Locks(ses[t].req) \subseteq ses[t].held /\ ses[t].req.op = ses[t].op /\ ses[t].req.item \in Cards
      BY <1>3, <2>1, SoundSession DEF Sound, Covered, Shaped, Debits, CardOps
    <3>2. <<"card", ses[t].req.item>> \in ses[t].held
      BY <2>1, <3>1 DEF Locks, CardOps
    <3>3. t # None
      BY ProductsAssumption
    <3>4. ses[t].req.item # c
      BY <1>1, <3>2, <3>3 DEF Free
    <3>. QED
      BY <1>1, <3>1, <3>4 DEF TypeOK
  <2>. QED
    BY <1>1, <1>2, <1>3, <2>1, OthersReady
<1>4. SessionsSound'
  BY <1>1, <1>3 DEF SessionsSound
<1>5. LocksApart'
  BY <1>1 DEF LocksApart
<1>6. Books'
  BY <1>1, BooksSame
<1>. QED
  BY <1>2, <1>4, <1>5, <1>6 DEF PInv, Books

LEMMA InsertStatementStep ==
  ASSUME PInv, NEW s \in Sessions, InsertStatement(s)
  PROVE  /\ PInv'
         /\ \A c \in Cards, m \in Months :
              statements[c][m] # None => statements'[c][m] = statements[c][m]
<1>. DEFINE c == ses[s].req.item
            m == ses[s].month
            e == [due |-> ses[s].req.amt, paid |-> FALSE]
<1>0. ses[s].op = "close" /\ ses[s].pc = "commit"
  BY DEF InsertStatement, At
<1>1. /\ TypeOK /\ SessionsSound /\ LocksApart /\ Books
      /\ ses[s] \in Session /\ ses[s].req \in Request /\ c \in Cards /\ m \in Months
      /\ Ready(ses[s]) /\ ses[s].req.amt \in Nat
  BY <1>0, SoundSession, PInvIs DEF Sound, Shaped, Session, Request
<1>2. ses[s].req.amt <= TotalOf(Purchases(c, {m}))
  BY <1>0, <1>1 DEF Ready
<1>3. /\ Free(s, {<<"card", c>>}) /\ UNCHANGED <<rows, cards, loan, position, month>>
      /\ ses' = [ses EXCEPT ![s] = Idle]
      /\ statements' = IF statements[c][m] = None
                         THEN [statements EXCEPT ![c][m] = e] ELSE statements
  BY DEF InsertStatement
<1>4. e \in [due : Nat, paid : BOOLEAN] /\ e # None /\ e.due = ses[s].req.amt
  <2>1. \A n \in Nat : [due |-> n, paid |-> FALSE] \in [due : Nat, paid : BOOLEAN]
    OBVIOUS
  <2>2. e \in [due : Nat, paid : BOOLEAN]
    BY <1>1, <2>1
  <2>. QED
    BY <2>2, ProductsAssumption
<1>. HIDE DEF e
<1>5. \A d \in Cards, n \in Months :
        statements'[d][n] = IF d = c /\ n = m /\ statements[d][n] = None THEN e ELSE statements[d][n]
  <2>1. statements \in [Cards -> [Months -> [due : Nat, paid : BOOLEAN] \cup {None}]]
    BY <1>1 DEF TypeOK
  <2>. HIDE DEF c, m
  <2>. QED
    BY <1>1, <1>3, <2>1
<1>6. TypeOK'
  <2>1. statements \in [Cards -> [Months -> [due : Nat, paid : BOOLEAN] \cup {None}]]
    BY <1>1 DEF TypeOK
  <2>2. statements' \in [Cards -> [Months -> [due : Nat, paid : BOOLEAN] \cup {None}]]
    <3>. HIDE DEF c, m
    <3>. QED
      BY <1>1, <1>3, <1>4, <2>1
  <2>3. ses' \in [Sessions -> Session]
    <3>1. ses \in [Sessions -> Session] /\ Idle \in Session
      BY <1>1, IdleSound DEF TypeOK, Sound, Shaped
    <3>. QED
      BY <1>3, <3>1
  <2>. QED
    BY <1>1, <1>3, <2>2, <2>3 DEF TypeOK
<1>7. \A t \in Sessions : ses'[t] = IF t = s THEN Idle ELSE ses[t]
  BY <1>1, <1>3 DEF TypeOK
<1>8. ASSUME NEW t \in Sessions \ {s}, ses[t].pc = "commit" PROVE Ready(ses[t])'
  <2>1. ASSUME ses[t].op \in CardOps
        PROVE  \A n \in Months : statements'[ses[t].req.item][n] = statements[ses[t].req.item][n]
    <3>1. Locks(ses[t].req) \subseteq ses[t].held /\ ses[t].req.op = ses[t].op /\ ses[t].req.item \in Cards
      BY <1>8, <2>1, SoundSession DEF Sound, Covered, Shaped, Debits, CardOps
    <3>2. <<"card", ses[t].req.item>> \in ses[t].held
      BY <2>1, <3>1 DEF Locks, CardOps
    <3>3. ses[t].req.item # c
      BY <1>3, <3>2 DEF Free
    <3>. HIDE DEF c, m
    <3>. QED
      BY <1>5, <3>1, <3>3
  <2>. QED
    BY <1>3, <1>6, <1>7, <1>8, <2>1, OthersReady
<1>9. SessionsSound'
  <2>. SUFFICES ASSUME NEW t \in Sessions
                PROVE  Shaped(ses'[t]) /\ Covered(ses'[t]) /\ (ses'[t].pc = "commit" => Ready(ses[t])')
    BY DEF SessionsSound
  <2>1. CASE t = s
    BY <1>7, <2>1, IdleSound DEF Sound
  <2>2. CASE t # s
    BY <1>1, <1>7, <1>8, <2>2 DEF SessionsSound
  <2>. QED
    BY <2>1, <2>2
<1>10. LocksApart'
  BY <1>1, <1>7, IdleSound DEF LocksApart
<1>11. Books'
  <2>1. PaymentsMarked'
    <3>. SUFFICES ASSUME NEW p \in rows, p.op = "paystmt"
                  PROVE  /\ p.item \in Cards
                         /\ \A n \in p.pays : statements'[p.item][n] # None /\ statements'[p.item][n].paid
      BY <1>3 DEF PaymentsMarked
    <3>1. p.item \in Cards /\ \A n \in p.pays : statements[p.item][n] # None /\ statements[p.item][n].paid
      BY <1>1 DEF Books, PaymentsMarked
    <3>2. p.pays \subseteq Months
      BY <1>1 DEF TypeOK, Row
    <3>. HIDE DEF c, m
    <3>. QED
      BY <1>5, <3>1, <3>2
  <2>2. DebitsCovered'
    <3>1. \A a : Spare(a)' = Spare(a)
      BY <1>3, SpareSame
    <3>. QED
      BY <1>1, <3>1 DEF Books, DebitsCovered
  <2>3. SettledOnce'
    BY <1>1, <1>3 DEF Books, SettledOnce
  <2>4. BilledWithinPurchases'
    <3>. SUFFICES ASSUME NEW d \in Cards, NEW n \in Months, statements'[d][n] # None
                  PROVE  statements'[d][n].due <= TotalOf(Purchases(d, {n}))'
      BY DEF BilledWithinPurchases
    <3>1. TotalOf(Purchases(d, {n}))' = TotalOf(Purchases(d, {n}))
      BY <1>3, PurchasesSame DEF TotalOf
    <3>2. CASE d = c /\ n = m /\ statements[d][n] = None
      BY <1>2, <1>3, <1>4, <1>5, <3>1, <3>2
    <3>3. CASE ~(d = c /\ n = m /\ statements[d][n] = None)
      <4>1. statements'[d][n] = statements[d][n]
        BY <1>5, <3>3
      <4>. QED
        BY <1>1, <1>3, <3>1, <4>1 DEF Books, BilledWithinPurchases
    <3>. QED
      BY <3>2, <3>3
  <2>5. PaidLoansArePaid'
    <3>1. \A i : InstalmentPaid(i)' = InstalmentPaid(i)
      BY <1>3 DEF InstalmentPaid
    <3>. QED
      BY <1>1, <1>3, <3>1 DEF Books, PaidLoansArePaid
  <2>6. PositionsMatchOrders'
    <3>1. \A o, op : Ordered(o, op)' = Ordered(o, op)
      BY <1>3, OrderedSame
    <3>. QED
      BY <1>1, <1>3, <3>1 DEF Books, PositionsMatchOrders
  <2>. QED
    BY <2>1, <2>2, <2>3, <2>4, <2>5, <2>6 DEF Books
<1>. QED
  BY <1>5, <1>6, <1>9, <1>10, <1>11 DEF PInv, Books

LEMMA CloseCycleStep ==
  ASSUME PInv, NEW s \in Sessions, NEW c \in Cards, NEW m \in Months, CloseCycle(s, c, m)
  PROVE  PInv'
<1>. DEFINE t == TotalOf(Purchases(c, {m}))
            q == [op |-> "purchase", key |-> None, item |-> c, acct |-> CardAccount[c], amt |-> t,
                  pick |-> {}]
            w == [Idle EXCEPT !.op = "close", !.pc = "commit", !.month = m, !.req = q]
<1>1. TypeOK /\ Local(s, w)
  BY PInvIs DEF CloseCycle
<1>2. t \in Nat
  BY <1>1, UsedInt, ProductsAssumption DEF TypeOK
<1>. HIDE DEF t
<1>3. q \in Request
  <2>1. c \in STRING /\ CardAccount[c] \in Accounts /\ "purchase" \in Debits \cup Credits
    BY ProductsAssumption DEF Debits
  <2>2. None \in STRING \cup {None} /\ {} \in SUBSET Months /\ t \in Nat
    BY <1>2
  <2>. QED
    BY <2>1, <2>2 DEF Request
<1>4. q.item = c /\ q.amt = t
  OBVIOUS
<1>. HIDE DEF q
<1>5. Idle \in Session
  BY IdleSound DEF Sound, Shaped
<1>6. w \in Session
  BY <1>2, <1>3, <1>5 DEF Session
<1>7. w.op = "close" /\ w.pc = "commit" /\ w.month = m /\ w.req = q /\ w.held = {}
  BY <1>5, IdleSound DEF Session
<1>. HIDE DEF w
<1>8. Shaped(w) /\ Covered(w)
  BY <1>3, <1>4, <1>6, <1>7 DEF Shaped, Covered, Debits, Credits, CardOps
<1>9. q.amt <= TotalOf(Purchases(q.item, {w.month}))
  BY <1>2, <1>4, <1>7 DEF t
<1>10. Ready(w)
  BY <1>7, <1>9 DEF Ready, Funded
<1>. QED
  BY <1>1, <1>7, <1>8, <1>10, LocalStep DEF Sound

LEMMA TickStep ==
  ASSUME PInv, Tick
  PROVE  PInv'
<1>1. /\ TypeOK /\ SessionsSound /\ LocksApart /\ Books /\ month < MaxMonth /\ month' = month + 1
      /\ UNCHANGED <<rows, cards, statements, loan, position, ses>>
  BY PInvIs DEF Tick
<1>2. month \in Nat /\ MaxMonth \in Nat
  BY <1>1, ProductsAssumption DEF TypeOK, Months
<1>3. TypeOK'
  <2>1. month' \in Months
    BY <1>1, <1>2 DEF Months
  <2>. QED
    BY <1>1, <2>1 DEF TypeOK
<1>4. SessionsSound'
  <2>1. ASSUME NEW t \in Sessions, ses[t].pc = "commit" PROVE Ready(ses[t])'
    BY <1>1, <1>2, <1>3, <2>1, OthersReady
  <2>. QED
    BY <1>1, <2>1 DEF SessionsSound
<1>5. LocksApart'
  BY <1>1 DEF LocksApart
<1>6. Books'
  BY <1>1, BooksSame
<1>. QED
  BY <1>1, <1>3, <1>4, <1>5, <1>6 DEF PInv, Books

\* The largest and the smallest of two numbers.
LEMMA TwoNumbers ==
  ASSUME NEW x \in Int, NEW y \in Int
  PROVE  /\ Max({x, y}) = IF x >= y THEN x ELSE y
         /\ Min({x, y}) = IF x <= y THEN x ELSE y
<1>1. PICK m \in {x, y} : \A z \in {x, y} : m >= z
  <2>1. CASE x >= y
    BY <2>1
  <2>2. CASE ~(x >= y)
    BY <2>2
  <2>. QED
    BY <2>1, <2>2
<1>2. Max({x, y}) \in {x, y} /\ \A z \in {x, y} : Max({x, y}) >= z
  BY <1>1 DEF Max
<1>3. PICK n \in {x, y} : \A z \in {x, y} : n <= z
  <2>1. CASE x <= y
    BY <2>1
  <2>2. CASE ~(x <= y)
    BY <2>2
  <2>. QED
    BY <2>1, <2>2
<1>4. Min({x, y}) \in {x, y} /\ \A z \in {x, y} : Min({x, y}) <= z
  BY <1>3 DEF Min
<1>. QED
  BY <1>2, <1>4

\* A score is a score: credit_score clamps it.
LEMMA ScoreRange == ASSUME NEW active \in BOOLEAN PROVE CreditScore(active) \in 300 .. 850
<1>. DEFINE z == 600 + (IF active THEN 100 ELSE 0) - (100 * LoanAmount) \div ProductMax
<1>1. z \in Int
  BY ProductsAssumption
<1>2. CreditScore(active) = Max({300, Min({850, z})})
  BY DEF CreditScore
<1>. HIDE DEF z
<1>3. Min({850, z}) = IF 850 <= z THEN 850 ELSE z
  <2>1. \A y \in Int : Min({850, y}) = IF 850 <= y THEN 850 ELSE y
    <3>1. 850 \in Int
      OBVIOUS
    <3>. QED
      BY ONLY <3>1, TwoNumbers
  <2>. QED
    BY <1>1, <2>1
<1>4. Min({850, z}) \in Int
  BY <1>1, <1>3
<1>5. Max({300, Min({850, z})}) = IF 300 >= Min({850, z}) THEN 300 ELSE Min({850, z})
  BY <1>4, TwoNumbers
<1>. QED
  BY <1>1, <1>2, <1>3, <1>5

LEMMA ApplyStep ==
  ASSUME PInv, NEW active \in BOOLEAN, ApplyForLoan(active)
  PROVE  PInv'
<1>1. /\ TypeOK /\ SessionsSound /\ LocksApart /\ Books
      /\ loan' = [status |-> "REVIEW", score |-> CreditScore(active)]
      /\ UNCHANGED <<rows, cards, statements, position, month, ses>>
  BY PInvIs DEF ApplyForLoan
<1>2. CreditScore(active) \in 300 .. 850
  BY ScoreRange
<1>3. TypeOK'
  BY <1>1, <1>2 DEF TypeOK, LoanStatuses
<1>4. SessionsSound'
  BY <1>1, <1>3, ReadySame DEF SessionsSound
<1>5. LocksApart'
  BY <1>1 DEF LocksApart
<1>6. Books'
  <2>1. PaidLoansArePaid'
    BY <1>1 DEF PaidLoansArePaid
  <2>. QED
    BY <1>1, <2>1, BooksButLoan
<1>. QED
  BY <1>3, <1>4, <1>5, <1>6 DEF PInv, Books

\* The largest of the limits a customer may choose.
LEMMA LargestIn ==
  ASSUME NEW S \in SUBSET Nat, S # {}, IsFiniteSet(S)
  PROVE  Max(S) \in S
<1>. DEFINE Has(T) == \E m \in T : \A n \in T : m >= n
            C == {T \in FiniteSubsetsOf(Nat) : T # {} /\ ~Has(T)}
<1>1. SUFFICES C = {}
  <2>1. S \in FiniteSubsetsOf(Nat)
    BY DEF FiniteSubsetsOf
  <2>2. Has(S)
    BY <1>1, <2>1
  <2>. QED
    BY <2>2 DEF Max
<1>2. SUFFICES ASSUME C # {} PROVE FALSE
  OBVIOUS
<1>3. PICK T \in C : \A U \in C : U \subseteq T => U = T
  <2>1. C \subseteq FiniteSubsetsOf(Nat)
    OBVIOUS
  <2>. HIDE DEF C
  <2>. QED
    BY <1>2, <2>1, Smallest
<1>4. T \subseteq Nat /\ IsFiniteSet(T) /\ T # {} /\ ~Has(T)
  BY DEF FiniteSubsetsOf
<1>5. PICK x \in T : TRUE
  BY <1>4
<1>. DEFINE U == T \ {x}
<1>6. U \in FiniteSubsetsOf(Nat) /\ U # T /\ U \subseteq T
  BY <1>4, <1>5, FS_Subset DEF FiniteSubsetsOf
<1>7. CASE U = {}
  <2>1. T = {x}
    BY <1>5, <1>7
  <2>. QED
    BY <1>4, <2>1
<1>8. CASE U # {}
  <2>1. Has(U)
    BY <1>3, <1>6, <1>8
  <2>2. PICK m \in U : \A n \in U : m >= n
    BY <2>1
  <2>3. CASE m >= x
    BY <1>4, <2>2, <2>3
  <2>4. CASE ~(m >= x)
    <3>1. \A n \in T : x >= n
      <4>1. ASSUME NEW n \in T PROVE x >= n
        <5>1. n \in Nat /\ x \in Nat /\ m \in Nat
          BY <1>4, <1>5, <2>2
        <5>2. CASE n = x
          BY <5>1, <5>2
        <5>3. CASE n # x
          BY <2>2, <2>4, <4>1, <5>1, <5>3
        <5>. QED
          BY <5>2, <5>3
      <4>. QED
        BY <4>1
    <3>. QED
      BY <1>4, <1>5, <3>1
  <2>. QED
    BY <2>3, <2>4
<1>. QED
  BY <1>7, <1>8

\* No rows, no totals.
LEMMA EmptyTotal == TotalOf({}) = 0
BY SumEmpty DEF TotalOf, SumFunction

-----------------------------------------------------------------------------
(* The invariant and what it says.                                           *)

LEMMA InitPInv == Init => PInv
<1>. SUFFICES ASSUME Init PROVE PInv
  OBVIOUS
<1>1. /\ rows = {} /\ statements = [c \in Cards |-> [m \in Months |-> None]]
      /\ loan = [status |-> "NONE", score |-> 300] /\ position = [o \in Customers |-> 0]
      /\ month = 0 /\ ses = [s \in Sessions |-> Idle]
      /\ cards \in [Cards -> {[status |-> "ACTIVE", daily |-> Max(DailyLimits)]}]
  BY DEF Init
<1>2. TypeOK
  <2>1. rows \subseteq Row /\ IsFiniteSet(rows)
    BY <1>1, FS_EmptySet
  <2>2. cards \in [Cards -> [status : {"ACTIVE", "FROZEN", "BLOCKED"}, daily : DailyLimits]]
    BY <1>1, LargestIn, ProductsAssumption
  <2>3. statements \in [Cards -> [Months -> [due : Nat, paid : BOOLEAN] \cup {None}]]
    BY <1>1
  <2>4. loan \in [status : LoanStatuses, score : 300 .. 850]
    BY <1>1 DEF LoanStatuses
  <2>5. position \in [Customers -> Nat] /\ month \in Months
    BY <1>1, ProductsAssumption DEF Months
  <2>6. ses \in [Sessions -> Session]
    BY <1>1, IdleSound DEF Sound, Shaped
  <2>. QED
    BY <2>1, <2>2, <2>3, <2>4, <2>5, <2>6 DEF TypeOK
<1>3. SessionsSound /\ LocksApart
  BY <1>1, IdleSound DEF SessionsSound, LocksApart, Sound
<1>4. PaymentsMarked /\ SettledOnce /\ BilledWithinPurchases /\ PaidLoansArePaid
  BY <1>1 DEF PaymentsMarked, SettledOnce, BilledWithinPurchases, PaidLoansArePaid
<1>5. DebitsCovered
  <2>. SUFFICES ASSUME NEW a \in Accounts PROVE Spare(a) >= 0
    BY DEF DebitsCovered
  <2>1. InRows(a) = {} /\ OutRows(a) = {} /\ Unchecked(a) = {}
    BY <1>1 DEF InRows, OutRows, Unchecked
  <2>2. InitialBalance[a] \in Nat
    BY ProductsAssumption
  <2>. QED
    BY <2>1, <2>2, SpareIs, EmptyTotal
<1>6. PositionsMatchOrders
  <2>1. \A o, op : Ordered(o, op) = 0
    <3>1. \A o, op : OrderRows(o, op) = {}
      BY <1>1 DEF OrderRows
    <3>. QED
      BY <3>1, OrderedIs, EmptyTotal
  <2>. QED
    BY <1>1, <2>1 DEF PositionsMatchOrders
<1>. QED
  BY <1>2, <1>3, <1>4, <1>5, <1>6 DEF PInv

LEMMA NextPInv == PInv /\ [Next]_vars => PInv'
<1>. SUFFICES ASSUME PInv, [Next]_vars PROVE PInv'
  OBVIOUS
<1>1. CASE UNCHANGED vars
  <2>1. TypeOK /\ SessionsSound /\ LocksApart /\ Books
    BY PInvIs
  <2>2. TypeOK'
    BY <1>1, <2>1 DEF vars, TypeOK
  <2>3. SessionsSound'
    BY <1>1, <2>1, <2>2, ReadySame DEF vars, SessionsSound
  <2>4. LocksApart'
    BY <1>1, <2>1 DEF vars, LocksApart
  <2>5. Books'
    BY <1>1, <2>1, BooksSame DEF vars
  <2>. QED
    BY <2>2, <2>3, <2>4, <2>5 DEF PInv, Books
<1>2. ASSUME NEW s \in Sessions, NEW q \in Requests,
             \/ Purchase(s, q) \/ PayBill(s, q) \/ PlaceOrder(s, q) \/ FundAccount(s, q)
             \/ PayStatement(s, q) \/ RepayInstalment(s, q) \/ ApproveLoan(s, q)
      PROVE  PInv'
  <2>1. Ask(s, q)
    BY <1>2 DEF Purchase, PayBill, PlaceOrder, FundAccount, PayStatement, RepayInstalment, ApproveLoan
  <2>. QED
    BY <2>1, AskStep
<1>3. ASSUME NEW s \in Sessions, Lock(s) \/ LockBill(s) PROVE PInv'
  BY <1>3, LockStep, LockBillStep
<1>4. ASSUME NEW s \in Sessions,
             \/ CheckPurchase(s) \/ CheckStatements(s) \/ CheckBill(s) \/ CheckDeposit(s)
             \/ CheckOrder(s) \/ CheckRepayment(s) \/ CheckLoan(s)
      PROVE  PInv'
  BY <1>4, CheckPurchaseStep, CheckStatementsStep, CheckBillStep, CheckDepositStep,
     CheckOrderStep, CheckRepaymentStep, CheckLoanStep
<1>5. ASSUME NEW s \in Sessions, SettlePurchase(s) \/ SettleBill(s) \/ SettleDeposit(s)
      PROVE  PInv'
  BY <1>5, SettleStep DEF SettlePurchase, SettleBill, SettleDeposit
<1>6. ASSUME NEW s \in Sessions,
             SettleStatements(s) \/ SettleOrder(s) \/ SettleRepayment(s) \/ SettleLoan(s)
      PROVE  PInv'
  BY <1>6, SettleStatementsStep, SettleOrderStep, SettleRepaymentStep, SettleLoanStep
<1>7. ASSUME NEW s \in Sessions, (\E c \in Cards, m \in Months : CloseCycle(s, c, m)) \/ InsertStatement(s)
      PROVE  PInv'
  BY <1>7, CloseCycleStep, InsertStatementStep
<1>8. ASSUME NEW s \in Sessions, Crash(s) PROVE PInv'
  BY <1>8, AbandonStep DEF Crash
<1>9. ASSUME \E c \in Cards, st \in {"ACTIVE", "FROZEN", "BLOCKED"}, d \in DailyLimits :
               SetCardControl(c, st, d)
      PROVE  PInv'
  BY <1>9, CardControlStep
<1>10. ASSUME \E active \in BOOLEAN : ApplyForLoan(active) PROVE PInv'
  BY <1>10, ApplyStep
<1>11. ASSUME Tick PROVE PInv'
  BY <1>11, TickStep
<1>. QED
  BY <1>1, <1>2, <1>3, <1>4, <1>5, <1>6, <1>7, <1>8, <1>9, <1>10, <1>11 DEF Next

\* PInv is an inductive invariant.
THEOREM ProductsInv == Spec => []PInv
<1>1. Init => PInv
  BY InitPInv
<1>2. PInv /\ [Next]_vars => PInv'
  BY NextPInv
<1>. QED
  BY <1>1, <1>2, PTL DEF Spec

\* The tables and the sessions keep their types.
THEOREM ProductsTypes == Spec => []TypeOK
<1>1. PInv => TypeOK
  BY DEF PInv
<1>. QED
  BY <1>1, ProductsInv, PTL

\* The debits that lock the account they check never spend more than it has,
\* whatever the cards, bills, orders and loans of however many workers do.
THEOREM DebitsAreCovered == Spec => []DebitsCovered
<1>1. PInv => DebitsCovered
  BY DEF PInv
<1>. QED
  BY <1>1, ProductsInv, PTL

\* Bills, instalments and invoices are paid once, the loan is paid out once.
THEOREM SettlesOnce == Spec => []SettledOnce
<1>1. PInv => SettledOnce
  BY DEF PInv
<1>. QED
  BY <1>1, ProductsInv, PTL

\* Whichever month is closed, whenever and by however many runs of the command,
\* no invoice asks for more than the purchases of its month.
THEOREM InvoicesWithinPurchases == Spec => []BilledWithinPurchases
<1>1. PInv => BilledWithinPurchases
  BY DEF PInv
<1>. QED
  BY <1>1, ProductsInv, PTL

\* A loan marked PAID has no open instalment.
THEOREM PaidMeansPaid == Spec => []PaidLoansArePaid
<1>1. PInv => PaidLoansArePaid
  BY DEF PInv
<1>. QED
  BY <1>1, ProductsInv, PTL

\* The shares of a customer with one account are those bought and not sold.
THEOREM PositionsMatch == Spec => []PositionsMatchOrders
<1>1. PInv => PositionsMatchOrders
  BY DEF PInv
<1>. QED
  BY <1>1, ProductsInv, PTL

\* A new row is that of a session which is about to commit.
LEMMA NewRow ==
  ASSUME PInv, Next, NEW r \in rows' \ rows
  PROVE  \E s \in Sessions : /\ r = RowOf(ses[s]) /\ rows' = rows \cup {r}
                             /\ ses[s].pc = "commit" /\ ses[s].op \in Debits \cup Credits
<1>. DEFINE Made(s) == /\ rows' = rows \cup {RowOf(ses[s])}
                       /\ ses[s].pc = "commit" /\ ses[s].op \in Debits \cup Credits
<1>1. SUFFICES ASSUME ~(\E s \in Sessions : Made(s)) PROVE rows' = rows
  OBVIOUS
<1>2. ASSUME NEW s \in Sessions, NEW q \in Requests,
             \/ Purchase(s, q) \/ PayBill(s, q) \/ PlaceOrder(s, q) \/ FundAccount(s, q)
             \/ PayStatement(s, q) \/ RepayInstalment(s, q) \/ ApproveLoan(s, q)
      PROVE  rows' = rows
  <2>1. Ask(s, q)
    BY <1>2 DEF Purchase, PayBill, PlaceOrder, FundAccount, PayStatement, RepayInstalment, ApproveLoan
  <2>. QED
    BY <2>1 DEF Ask, Local
<1>3. ASSUME NEW s \in Sessions, Lock(s) \/ LockBill(s) PROVE rows' = rows
  BY <1>3 DEF Lock, LockBill, Local
<1>4. ASSUME NEW s \in Sessions, CheckPurchase(s) \/ CheckStatements(s) \/ CheckBill(s) \/ CheckDeposit(s)
      PROVE  rows' = rows
  BY <1>4 DEF CheckPurchase, CheckStatements, CheckBill, CheckDeposit, Local, Abandon
<1>5. ASSUME NEW s \in Sessions, CheckOrder(s) \/ CheckRepayment(s) \/ CheckLoan(s) PROVE rows' = rows
  BY <1>5 DEF CheckOrder, CheckRepayment, CheckLoan, Local, Abandon
<1>6. ASSUME NEW s \in Sessions, SettlePurchase(s) \/ SettleBill(s) \/ SettleDeposit(s)
      PROVE  rows' = rows \/ Made(s)
  BY <1>6 DEF SettlePurchase, SettleBill, SettleDeposit, Settle, At, Abandon, Enter, Debits, Credits
<1>7. ASSUME NEW s \in Sessions, SettleStatements(s) \/ SettleOrder(s)
      PROVE  rows' = rows \/ Made(s)
  BY <1>7 DEF SettleStatements, SettleOrder, At, Abandon, Enter, Debits, Credits
<1>8. ASSUME NEW s \in Sessions, SettleRepayment(s) \/ SettleLoan(s)
      PROVE  rows' = rows \/ Made(s)
  BY <1>8 DEF SettleRepayment, SettleLoan, At, Abandon, Enter, Debits, Credits
<1>9. ASSUME NEW s \in Sessions, (\E c \in Cards, m \in Months : CloseCycle(s, c, m)) \/ InsertStatement(s) \/ Crash(s)
      PROVE  rows' = rows
  BY <1>9 DEF CloseCycle, InsertStatement, Crash, Local, Abandon
<1>10. ASSUME \E c \in Cards, st \in {"ACTIVE", "FROZEN", "BLOCKED"}, d \in DailyLimits :
                SetCardControl(c, st, d)
       PROVE  rows' = rows
  BY <1>10 DEF SetCardControl
<1>11. ASSUME (\E active \in BOOLEAN : ApplyForLoan(active)) \/ Tick PROVE rows' = rows
  BY <1>11 DEF ApplyForLoan, Tick
<1>. HIDE DEF Made
<1>. QED
  BY <1>1, <1>2, <1>3, <1>4, <1>5, <1>6, <1>7, <1>8, <1>9, <1>10, <1>11 DEF Next

\* A purchase settles only on a card that is active as it settles, within the
\* daily and the credit limit the card then has.
THEOREM PurchasesKeepLimits == Spec => PurchasesAuthorised
<1>. DEFINE Authorised ==
       \A r \in rows' \ rows : r.op = "purchase" =>
         /\ cards[r.item].status = "ACTIVE"
         /\ TotalOf({p \in rows' : p.op = "purchase" /\ p.item = r.item /\ p.month = r.month})
              <= cards[r.item].daily
         /\ r.item \in CreditCards => CreditUsed(r.item) + r.amt <= CreditLimit[r.item]
<1>1. PInv /\ [Next]_vars => [Authorised]_vars
  <2>. SUFFICES ASSUME PInv, Next, NEW r \in rows' \ rows, r.op = "purchase"
                PROVE  /\ cards[r.item].status = "ACTIVE"
                       /\ TotalOf({p \in rows' : p.op = "purchase" /\ p.item = r.item /\ p.month = r.month})
                            <= cards[r.item].daily
                       /\ r.item \in CreditCards => CreditUsed(r.item) + r.amt <= CreditLimit[r.item]
    OBVIOUS
  <2>1. PICK s \in Sessions : /\ r = RowOf(ses[s]) /\ rows' = rows \cup {r}
                              /\ ses[s].pc = "commit" /\ ses[s].op \in Debits \cup Credits
    BY NewRow
  <2>2. /\ r.op = ses[s].op /\ r.item = ses[s].req.item /\ r.amt = ses[s].req.amt
        /\ r.month = ses[s].month
    BY <2>1 DEF RowOf
  <2>3. /\ TypeOK /\ Ready(ses[s]) /\ ses[s] \in Session /\ ses[s].req \in Request
        /\ r.item \in Cards
    BY <2>1, <2>2, SoundSession DEF Sound, Shaped, CardOps
  <2>4. r \in Row /\ rows \subseteq Row /\ IsFiniteSet(rows)
    <3>1. r \in Row
      BY <2>1, <2>3 DEF RowOf, Row, Request, Session
    <3>. QED
      BY <2>3, <3>1 DEF TypeOK
  <2>5. {p \in rows' : p.op = "purchase" /\ p.item = r.item /\ p.month = r.month}
          = Purchases(r.item, {r.month}) \cup {r}
    BY <2>1 DEF Purchases
  <2>6. TotalOf(Purchases(r.item, {r.month}) \cup {r}) = TotalOf(Purchases(r.item, {r.month})) + r.amt
    <3>1. Purchases(r.item, {r.month}) \subseteq rows
      BY DEF Purchases
    <3>2. /\ Purchases(r.item, {r.month}) \in SUBSET Row /\ IsFiniteSet(Purchases(r.item, {r.month}))
          /\ r \notin Purchases(r.item, {r.month})
      BY <2>4, <3>1, FS_Subset
    <3>. QED
      BY <2>4, <3>2, TotalAdd
  <2>7. /\ cards[r.item].status = "ACTIVE"
        /\ TotalOf(Purchases(r.item, {r.month})) + r.amt <= cards[r.item].daily
        /\ r.item \in CreditCards => CreditUsed(r.item) + r.amt <= CreditLimit[r.item]
    BY <2>2, <2>3 DEF Ready
  <2>. QED
    BY <2>5, <2>6, <2>7
<1>. QED
  BY <1>1, ProductsInv, PTL DEF Spec, PurchasesAuthorised

\* A closed invoice is only ever marked paid, in the step that debits its amount.
THEOREM ClosedInvoicesStand == Spec => InvoicesStand
<1>. DEFINE Stand ==
       \A c \in Cards, m \in Months :
         statements[c][m] # None /\ statements'[c][m] # statements[c][m]
           => /\ statements'[c][m] = [statements[c][m] EXCEPT !.paid = TRUE]
              /\ \E r \in rows' \ rows : /\ r.op = "paystmt" /\ r.item = c /\ m \in r.pays
                                         /\ r.amt = AmountDue(c, r.pays)
<1>1. PInv /\ [Next]_vars => [Stand]_vars
  <2>. SUFFICES ASSUME PInv, Next, ~(\E s \in Sessions : SettleStatements(s) \/ InsertStatement(s))
                PROVE  statements' = statements
    <3>1. ASSUME PInv, Next, NEW s \in Sessions, SettleStatements(s) PROVE Stand
      <4>. DEFINE r == RowOf(ses[s])
      <4>1. Entered(s, r) /\ r.op = "paystmt"
        BY <3>1, SettleStatementsStep
      <4>. HIDE DEF r
      <4>2. Marked(r) /\ r.amt = ses[s].req.amt /\ r.pays = ses[s].req.pick
            /\ r.item = ses[s].req.item /\ Ready(ses[s]) /\ r.op = ses[s].op
        BY <3>1, <4>1, EnteredTypes, EnteredRow
      <4>3. r.amt = AmountDue(r.item, r.pays)
        BY <4>1, <4>2 DEF Ready
      <4>4. r \in rows' \ rows
        BY <4>1 DEF Entered
      <4>. QED
        BY <4>1, <4>2, <4>3, <4>4 DEF Marked
    <3>2. ASSUME PInv, Next, NEW s \in Sessions, InsertStatement(s) PROVE Stand
      BY <3>2, InsertStatementStep
    <3>. QED
      BY <3>1, <3>2 DEF vars
  <2>1. ASSUME NEW s \in Sessions, NEW q \in Requests,
               \/ Purchase(s, q) \/ PayBill(s, q) \/ PlaceOrder(s, q) \/ FundAccount(s, q)
               \/ PayStatement(s, q) \/ RepayInstalment(s, q) \/ ApproveLoan(s, q)
        PROVE  statements' = statements
    <3>1. Ask(s, q)
      BY <2>1 DEF Purchase, PayBill, PlaceOrder, FundAccount, PayStatement, RepayInstalment, ApproveLoan
    <3>. QED
      BY <3>1 DEF Ask, Local
  <2>2. ASSUME NEW s \in Sessions, Lock(s) \/ LockBill(s) PROVE statements' = statements
    BY <2>2 DEF Lock, LockBill, Local
  <2>3. ASSUME NEW s \in Sessions,
               CheckPurchase(s) \/ CheckStatements(s) \/ CheckBill(s) \/ CheckDeposit(s)
        PROVE  statements' = statements
    BY <2>3 DEF CheckPurchase, CheckStatements, CheckBill, CheckDeposit, Local, Abandon
  <2>4. ASSUME NEW s \in Sessions, CheckOrder(s) \/ CheckRepayment(s) \/ CheckLoan(s)
        PROVE  statements' = statements
    BY <2>4 DEF CheckOrder, CheckRepayment, CheckLoan, Local, Abandon
  <2>5. ASSUME NEW s \in Sessions, SettlePurchase(s) \/ SettleBill(s) \/ SettleDeposit(s)
        PROVE  statements' = statements
    BY <2>5 DEF SettlePurchase, SettleBill, SettleDeposit, Settle, Abandon
  <2>6. ASSUME NEW s \in Sessions, SettleOrder(s) \/ SettleRepayment(s) \/ SettleLoan(s)
        PROVE  statements' = statements
    BY <2>6 DEF SettleOrder, SettleRepayment, SettleLoan, Abandon
  <2>7. ASSUME NEW s \in Sessions, (\E c \in Cards, m \in Months : CloseCycle(s, c, m)) \/ Crash(s)
        PROVE  statements' = statements
    BY <2>7 DEF CloseCycle, Crash, Local, Abandon
  <2>8. ASSUME \E c \in Cards, st \in {"ACTIVE", "FROZEN", "BLOCKED"}, d \in DailyLimits :
                 SetCardControl(c, st, d)
        PROVE  statements' = statements
    BY <2>8 DEF SetCardControl
  <2>9. ASSUME (\E active \in BOOLEAN : ApplyForLoan(active)) \/ Tick
        PROVE  statements' = statements
    BY <2>9 DEF ApplyForLoan, Tick
  <2>. QED
    BY <2>1, <2>2, <2>3, <2>4, <2>5, <2>6, <2>7, <2>8, <2>9 DEF Next
<1>. QED
  BY <1>1, ProductsInv, PTL DEF Spec, InvoicesStand
=============================================================================
