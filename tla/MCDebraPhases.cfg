SPECIFICATION Spec
CONSTANTS
  N = 2
  Objects = {o1, o2}
  Setups <- MCRapid
  Registrations = 2
  MaxEpoch = 3
INVARIANT TwoEpochsAgo
SYMMETRY Symmetry
CHECK_DEADLOCK FALSE
