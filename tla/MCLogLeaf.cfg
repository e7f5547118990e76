SPECIFICATION FairSpec
CONSTANTS
  k1 = k1
  k2 = k2
  r1 = r1
  Keys <- MCKeys
  Readers <- MCReaders
  MaxUpdates = 3
  MaxReads = 2
  MaxClock = 2
INVARIANTS TypeOK StampOrder SnapshotExact DurableReads
PROPERTY ReadsEnd
CHECK_DEADLOCK FALSE
