SPECIFICATION Spec
CONSTANTS
  Workers = {w1}
  Retries = 2
  MaxKeys = 2
  MaxSends = 6
SYMMETRY Symmetry
INVARIANTS
  SuccessStillHolds
CHECK_DEADLOCK FALSE
