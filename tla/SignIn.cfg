\* Two workers serve one of eleven workloads.
SPECIFICATION Spec
CONSTANTS
  w1 = w1
  w2 = w2
  Workers = {w1, w2}
  Browsers = {"b1", "b2"}
  Roles <- MCRoles
  Workloads <- MCWorkloads
  MaxFailed = 2
  MaxTries = 2
  MaxClock = 2
  None = None
INVARIANTS ControlEscalates RulesApproved TimelineMatches SessionsEarned LocksDeserved PasswordJustified
CHECK_DEADLOCK FALSE
