\* A reviewed transfer whose funds are there, and its approval.
SPECIFICATION Spec
CONSTANTS
  s1 = s1
  s2 = s2
  k1 = k1
  Sessions = {s1, s2}
  Keys = {k1}
  None = None
  External = "ext"
  Accounts <- MCAccounts
  Requests <- MCOneSend
  InitialBalance <- MCRich
  TxLimit <- MCTxLimit
  DailyLimit <- MCNoLimit
  Verdicts = {"REVIEW"}
  Ops = {"execute", "approve"}
INVARIANT ApprovalSettles
CHECK_DEADLOCK FALSE
