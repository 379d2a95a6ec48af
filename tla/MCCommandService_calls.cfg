SPECIFICATION FairSpec
CONSTANTS
    Devices <- Routers
    Requests <- AllRequests
    MaxReqs = 2
INVARIANTS
    OutputIsOwn
    ZeroBySshMeansRan
    PasswordAtPrompt
    CancelStops
PROPERTIES
    ImplementsLog
    CallsEnd
CHECK_DEADLOCK FALSE
