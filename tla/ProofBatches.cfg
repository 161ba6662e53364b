SPECIFICATION Spec
CONSTANTS
  Sealers = {s1, s2}
  Anchorers = {w1, w2}
  MaxId = 3
  MAX_BATCH_SIZE = 3
  MaxAnchors = 2
  MaxCommands = 2
  MaxCrashes = 1
SYMMETRY MCSymmetry
CHECK_DEADLOCK FALSE
INVARIANTS
  BatchChainValid
  SealedProvable
  ProofsExclusive
  ConfirmedIsAnchored
PROPERTIES
  ChainSpec
