\* Opposite requests, orders and closings of two accounts compete; cron comes back.
SPECIFICATION CronSpec
CONSTANTS
  s1 = s1
  s2 = s2
  k1 = k1
  k2 = k2
  Sessions = {s1, s2}
  Keys = {k1, k2}
  None = None
  External = "ext"
  Accounts <- MCAccounts
  Requests <- MCRace
  InitialBalance <- MCPair
  TxLimit <- MCThree
  DailyLimit <- MCThree
  Verdicts = {"ALLOW"}
  Ops = {"execute", "job", "close"}
INVARIANTS DailyLimitHeld
PROPERTIES OperationsEnd ScheduledSettle
CHECK_DEADLOCK FALSE
