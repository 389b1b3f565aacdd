\* A patient client repeats its deploy; anything may fail or expire but the completion of the key.
\* Two requests, a flusher and two loads of the usage; three versions of a page; three dumps,
\* a day of one tick and a lost volume; two pages, made and deleted by two calls at once.
SPECIFICATION ConsoleSpec
CONSTANTS
    Free = Free
    None = None
    Key = Key
    Bodies <- MCBodies
    Body <- MCBody
    Prepares = {"p1", "p2", "p3"}
    Commits = {"c1", "c2"}
    Rivals = {"r"}
    MaxVersion = 3
    DoubleSubmits = FALSE
    Lapsing = {"lock", "token"}
    Collects = FALSE
    FaultAt = {"insert", "read", "revive", "lock", "setToken", "undo", "fail", "acquire",
               "check", "create", "activate", "delToken", "release"}
    MaxEvents = 2
    Capacity = 1
    Workers = 1
    Flushers = {"f"}
    MaxKills = 1
    CountFaults = {"count", "upsert"}
    Loads = {"l1", "l2"}
    Views = {"summary", "tab"}
    MaxDeployments = 3
    MaxChanges = 6
    Listings <- MCListings
    Compressed = {"x.br"}
    RowsKept = 1
    Reloads = {"r1", "r2"}
    Patient = TRUE
    RetentionTicks = 0
    MaxTicks = 1
    MaxLosses = 1
    MaxDumps = 3
    MaxPages = 2
    Fetches = {"f1", "f2"}
    Edits = {"e1", "e2"}
    Triggers = {"t"}
INVARIANTS
    AtMostOnce
    UsageIsNear
    TreeShowsFiles
    HistoryFollows
    LatestIsWhole
    ProjectsAreTrue
    WizardIsTrue
\* Requests end, and bounds are reached.
CHECK_DEADLOCK FALSE
