SPECIFICATION Spec
CONSTANTS
    Budgets <- ResizeBudget
    MaxDials = 2
    ReqCap = 2
    WireCap = 2
INVARIANTS
    EverySizeShown
CHECK_DEADLOCK FALSE
