\* Two sessions, two keys, every answer of the gate, every operation.
SPECIFICATION Spec
CONSTANTS
  s1 = s1
  s2 = s2
  k1 = k1
  k2 = k2
  Sessions = {s1, s2}
  Keys = {k1, k2}
  None = None
  External = "ext"
  Accounts <- MCAccounts
  Requests <- MCTwo
  InitialBalance <- MCRich
  TxLimit <- MCTxLimit
  DailyLimit <- MCNoLimit
  Verdicts = {"ALLOW", "REVIEW", "BLOCK", "CHALLENGE"}
  Ops = {"execute", "job", "approve", "reverse", "close"}
SYMMETRY SessionSymmetry
INVARIANTS NoOverdraft MoneyMatchesRows ClosedStaysEmpty
PROPERTY BookSpec
CHECK_DEADLOCK FALSE
