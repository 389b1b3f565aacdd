SPECIFICATION Spec
CONSTANTS
    p1 = p1 u1 = u1 u2 = u2 b1 = b1 b2 = b2 r1 = r1
    t1 = t1 k1 = k1
    Free = Free
    None = None
    Ops = {p1, u1, b1, r1}
    Kind <- MCKind
    Refs = {t1, k1}
    Ref <- RetryRef
    MaxVersion = 3
    Seed = 1
    LeaseLapses = FALSE
    DoubleSubmits = FALSE
    FaultAt <- BeforeSwitch
INVARIANTS
    MutualExclusion
    ConstraintsNeverFire
    RedisFollowsTable
PROPERTIES
    NoStaleOverwrite
    UploadNotStale
