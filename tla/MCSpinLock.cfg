\* Nested calls in colliding nodes; the counter wraps after two acquisitions.
SPECIFICATION FairSpec
CONSTANTS
    N = 2
    n1 = n1
    n2 = n2
    n3 = n3
    b1 = b1
    b2 = b2
    Nodes = {n1, n2, n3}
    Buckets = {b1, b2}
    Bucket <- MCBucket
    CountLimit = 4
    MaxTries = 4
    MaxCount = 4
INVARIANTS TypeOK MutualExclusion ThunksProtected
PROPERTY HeldIsReleased
