SPECIFICATION Spec
CONSTANTS
  Keys <- MCKeys
  Values <- MCValues
  MaxSmall = 2
  MaxBig = 6
INVARIANTS ArrayExact Faithful
PROPERTY OnlySplitsOverrun
CHECK_DEADLOCK FALSE
