\* A fast transfer among other operations.
SPECIFICATION Spec
CONSTANTS
  w1 = w1
  w2 = w2
  Workers = {w1, w2}
  Browsers = {"b1", "b2"}
  Roles <- MCRoles
  Workloads <- MCTransfers
  MaxFailed = 2
  MaxTries = 2
  MaxClock = 2
  None = None
INVARIANTS VelocitySeen
CHECK_DEADLOCK FALSE
