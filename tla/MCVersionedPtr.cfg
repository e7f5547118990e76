SPECIFICATION Spec
CONSTANTS
    t1 = t1
    t2 = t2
    t3 = t3
    p1 = p1
    p2 = p2
    Threads = {t1, t2, t3}
    Ptrs = {p1, p2}
    Setups <- MCSetups
    MaxOps = 4
SYMMETRY ThreadSymmetry
VIEW View
CHECK_DEADLOCK FALSE
INVARIANTS
    TypeOK
    RetiredUse
    FreshLinkKept
    DurableBeforeVisible
    ReadsAtomic
    RetiredExactlyOnce
