\* Two sessions on a challenge and its replacement; two wrong codes are too many.
SPECIFICATION Spec
CONSTANTS
  s1 = s1
  s2 = s2
  Sessions = {s1, s2}
  c1 = c1
  c2 = c2
  Challenges = {c1, c2}
  None = None
  MaxAttempts = 2
  MaxCrashes = 1
SYMMETRY Symmetry
INVARIANTS SentSupersedes GuessesBounded CInv
PROPERTY TokenSpec
CHECK_DEADLOCK FALSE
