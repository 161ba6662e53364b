\* Two sessions, every product, three settled operations.
SPECIFICATION Spec
CONSTANTS
  s1 = s1
  s2 = s2
  Sessions = {s1, s2}
  Accounts <- MCAccounts
  Owner <- MCOwner
  Cards <- MCCards
  CardAccount <- MCCardOf
  CreditCards = {"c"}
  CreditLimit <- MCCredit
  DailyLimits = {3}
  Instalments = {"i1", "i2"}
  LoanAmount = 2
  ProductMax = 2
  Requests <- MCRequests
  InitialBalance <- MCRich
  MaxMonth = 1
  MaxRows = 3
  None = None
SYMMETRY SessionSymmetry
INVARIANTS DebitsCovered SettledOnce BilledWithinPurchases PaidLoansArePaid PositionsMatchOrders
PROPERTIES PurchasesAuthorised InvoicesStand
CHECK_DEADLOCK FALSE
