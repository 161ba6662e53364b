\* Two closed months, and the key of the button that pays all open invoices.
SPECIFICATION Spec
CONSTANTS
  s1 = s1
  Sessions = {s1}
  Accounts <- MCAccounts
  Owner <- MCOwner
  Cards <- MCCards
  CardAccount <- MCCardOf
  CreditCards = {"c"}
  CreditLimit <- MCCredit
  DailyLimits = {3}
  Instalments = {"i1", "i2"}
  LoanAmount = 2
  ProductMax = 2
  Requests <- MCPayAll
  InitialBalance <- MCWealthy
  MaxMonth = 2
  MaxRows = 5
  None = None
CHECK_DEADLOCK FALSE
PROPERTY PayingAllPays
