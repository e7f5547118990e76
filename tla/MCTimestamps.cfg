SPECIFICATION Spec
CONSTANTS
    N = 2
    Kinds = {"read_hw", "write_hw", "read", "write", "read_write"}
    MaxStamp = 6
VIEW View
INVARIANTS
    TypeOK
    WritesAfterSnapshots
    StampsFollowRealTime
