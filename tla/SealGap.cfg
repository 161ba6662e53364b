SPECIFICATION Spec
CONSTANTS
  Sealers = {s1, s2}
  Anchorers = {w1}
  MaxId = 3
  MAX_BATCH_SIZE = 3
  MaxAnchors = 2
  MaxCommands = 1
  MaxCrashes = 1
CHECK_DEADLOCK FALSE
INVARIANT
  NoneLeftBehind
