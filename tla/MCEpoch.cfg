SPECIFICATION Spec
CONSTANTS
    N = 2
    o1 = o1
    o2 = o2
    o3 = o3
    Objects = {o1, o2, o3}
    None = None
    MaxEpoch = 4
    MaxClock = 3
SYMMETRY ObjectSymmetry
VIEW View
CONSTRAINT Bounded
ACTION_CONSTRAINT LatePickUp
INVARIANTS
    TypeOK
    EpochGap
    NoUseAfterFree
    RetiredOnce
    DoneStampSafe
