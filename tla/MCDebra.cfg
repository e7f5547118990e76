SPECIFICATION Spec
CONSTANTS
  N = 2
  Objects = {o1, o2}
  Setups <- MCSetups
  Registrations = 1
  MaxEpoch = 3
INVARIANTS TwoEpochsAgo NoUseAfterFree ScanInBounds
SYMMETRY Symmetry
CHECK_DEADLOCK FALSE
