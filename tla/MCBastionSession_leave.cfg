SPECIFICATION FairSpec
CONSTANTS
    Budgets <- LeaveBudget
    MaxDials = 1
    ReqCap = 16
    WireCap = 2
PROPERTIES
    ExitCloses
CHECK_DEADLOCK FALSE
