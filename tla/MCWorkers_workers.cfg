\* Two builds of a tenant that may run one at a time, with two attempts each,
\* a worker that may die, and one build's log; two calls of the console; two
\* requests for a manifest; two analytics workers and a flusher that die once.
SPECIFICATION WorkersFairSpec
CONSTANTS
    Builds = {"a", "b"}
    Limit = 1
    Concurrency = 2
    MaxAttempts = 2
    MaxStalls = 1
    MaxCrashes = 1
    EarlyLapse = FALSE
    FaultAt = {"add", "slotAnswer", "validate", "deploy", "releaseCall"}
    CrashAt = {"run", "deploy"}
    MaxLines = 2
    Polls = {"p"}
    Callers = {"c1", "c2"}
    MaxTokens = 4
    Requests = {"r1", "r2"}
    Groups = {"g1", "g2", "g3"}
    NoGroup = "none"
    MaxFailures = 2
    MaxEvents = 3
    Capacity = 2
    Workers = 2
    Flushers = {"f"}
    MaxKills = 1
    CountFaults = {"count", "upsert"}
INVARIANTS
    WithinLimit
    
    RetryIsFresh
    Sheltered
    Accounting
PROPERTIES
    CountsEachOnce
    EveryBuildSettles
    EndIsShown
    SlotsComeFree
\* Requests, jobs and streams end.
CHECK_DEADLOCK FALSE
