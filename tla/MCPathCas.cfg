SPECIFICATION Spec
CONSTANTS
  Threads = {1, 2, 3}
  Addrs = {1, 2, 3}
  Setups <- MCSetups
INVARIANTS TypeOK LockedPrefix
PROPERTY Implements
CHECK_DEADLOCK FALSE
