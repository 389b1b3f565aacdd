\* Collectors alone between failing deploys, or across everything; one path
\* served to two browsers; the LRU; API instances that start; requests of one
\* key that overlap, fail and expire.
SPECIFICATION FilesSpec
CONSTANTS
    Hashes <- MCHashes
    Variants <- MCVariants
    Pages <- MCPages
    Seeds <- MCSeeds
    SeedBorn <- MCSeedBorn
    PageOf <- MCPageOf
    Content <- MCContent
    Uploads = {"u", "v"}
    Builds = {"m"}
    Rollbacks = {"r"}
    Retention = 1
    Regimes <- SerialOrCrossed
    Browsers = {"new", "twin", "old"}
    Accepts <- MCAccepts
    Absent = Absent
    Scenes <- MCScenes
    MaxActivations = 2
    Reverts = FALSE
    StoreFails = TRUE
    LruKeys = {"k1", "k2", "k3", "k4"}
    Sizes = {0, 1, 3}
    LruCapacity = 3
    MaxBytes = 2
    Instances = {"i1", "i2"}
    Newest = 3
    Unprobeable = {2}
    Databases <- MCDatabases
    MaxDeaths = 1
    Free = Free
    None = None
    Key = Key
    Bodies <- MCBodies
    Body <- MCBody
    Prepares = {"p1", "q", "p3"}
    Commits = {"c1"}
    Rivals = {"r"}
    MaxVersion = 3
    DoubleSubmits = TRUE
    Lapsing = {"lock", "token"}
    Collects = TRUE
    FaultAt = {"fail", "create", "complete"}
    CliLists <- MCCliLists
    BuildLists <- MCBuildLists
    MaxFileCount = 2
    MaxFileBytes = 2
    MaxTotalBytes = 3
    Visitors = {"v1", "v2"}
    Ttl = 2
    MaxWrites = 2
    Services <- MCServices
INVARIANTS
    StoreIntact
    TablesAgree
    RightRepresentation
    NotModifiedIsTrue
    ListensMigrated
    OneReservation
    PublishedIsServed
    BoundedStaleness
    CompletedIsTrue
PROPERTIES
    PrunedToRetention
    OldestGoFirst
    CompletedForGood
\* Every request of a key may have ended.
CHECK_DEADLOCK FALSE
