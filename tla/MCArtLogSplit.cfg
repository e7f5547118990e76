SPECIFICATION Spec
CONSTANTS
  t1 = t1
  t2 = t2
  t3 = t3
  Threads = {t1, t2, t3}
  Keys <- MCKeys
  Misread <- MCAbsent
  Setups <- MCSplit
INVARIANTS NoDuplicateBytes
CHECK_DEADLOCK FALSE
