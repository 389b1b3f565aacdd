\* The client repeats a request before the commit has answered; nothing fails.
SPECIFICATION Spec
CONSTANTS
    Free = Free
    None = None
    Key = Key
    Bodies <- MCBodies
    Body <- MCBody
    Prepares = {"p1", "p2"}
    Commits = {"c1", "c2"}
    Rivals = {"r"}
    MaxVersion = 3
    DoubleSubmits = TRUE
    Lapsing = {}
    Collects = FALSE
    FaultAt = {}
INVARIANTS
    AtMostOnce
\* Every request may have ended.
CHECK_DEADLOCK FALSE
