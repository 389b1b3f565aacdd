SPECIFICATION Spec
CONSTANTS
    p1 = p1 u1 = u1 u2 = u2 b1 = b1 b2 = b2 r1 = r1
    t1 = t1 k1 = k1
    Free = Free
    None = None
    Ops = {b1, r1}
    Kind <- MCKind
    Refs = {t1, k1}
    Ref <- RetryRef
    MaxVersion = 2
    Seed = 1
    LeaseLapses = FALSE
    DoubleSubmits = FALSE
    FaultAt <- Anywhere
PROPERTY FailedNeverActive
