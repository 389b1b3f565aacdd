SPECIFICATION FairSpec
CONSTANTS
    Servers <- MCServers
    ServerOf <- MCServerOf
    Empty = Empty
    Visits = {"x"}
    MaxVersion = 3
    MaxSwitches = 1
    Seed = 2
    Warm = FALSE
    Mishaps = {{"slowFill"}}
PROPERTIES
    Converges
