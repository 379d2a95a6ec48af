SPECIFICATION FairSpec
CONSTANTS
    Budgets <- AllBudgets
    MaxDials = 2
    ReqCap = 1
    WireCap = 2
INVARIANTS
    DeviceReleased
    FirstSizeShown
PROPERTIES
    ServedInConnection
    InputConfined
    CleansUp
    SessionEndsWithDevice
CHECK_DEADLOCK FALSE
