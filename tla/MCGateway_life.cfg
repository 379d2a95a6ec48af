SPECIFICATION FairSpec
CONSTANTS
    ErrCap = 3
    MaxCalls = 1
INVARIANTS
    CodeHasCause
    NobodyWaits
PROPERTIES
    CauseEndsProcess
CHECK_DEADLOCK FALSE
