SPECIFICATION FairSpec
CONSTANTS
    k1 = k1
    k2 = k2
    n1 = n1
    Keys = {k1, k2}
    Noise = {n1}
    Cuts = {k2}
    Contents <- TwoFiles
    Clients = {}
    EvCap = 3
    MaxEdits = 1
    EditOps <- PlainOps
    WatchMayFail = FALSE
PROPERTIES
    ReloadsAutomatically
CHECK_DEADLOCK FALSE
