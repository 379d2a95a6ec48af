SPECIFICATION FairSpec
CONSTANTS
    MaxReqs = 3
    MaxResps = 3
    Window = 1
INVARIANTS
    NilMeansComplete
    HalfCloseIsLast
    ErrorHasCause
PROPERTIES
    Settles
    GoroutinesEnd
    EveryResponseSeen
CHECK_DEADLOCK FALSE
