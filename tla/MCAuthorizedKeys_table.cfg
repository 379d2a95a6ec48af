SPECIFICATION FairSpec
CONSTANTS
    k1 = k1
    k2 = k2
    n1 = n1
    Keys = {k1, k2}
    Noise = {n1}
    Cuts = {k2}
    Contents <- ThreeFiles
    Clients = {c1}
    EvCap = 2
    MaxEdits = 2
    EditOps <- AllOps
    WatchMayFail = TRUE
INVARIANTS
    NoSilentStaleness
    VerdictFromOneTable
PROPERTIES
    TableFollowsFile
    Converges
CHECK_DEADLOCK FALSE
