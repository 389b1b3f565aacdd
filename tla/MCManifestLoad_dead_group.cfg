\* Two requests; a load fails once.
SPECIFICATION LoadFairSpec
CONSTANTS
    Requests = {"r1", "r2"}
    Groups = {"g1", "g2", "g3"}
    NoGroup = "none"
    MaxFailures = 1
PROPERTIES
    Heals
CHECK_DEADLOCK FALSE
