SPECIFICATION FairSpec
CONSTANTS
    MaxBytes = 3
    Window = 1
    Chunk = 1
INVARIANTS
    NothingCutOff
PROPERTIES
    ImplementsPipes
    Delivers
    Released
CHECK_DEADLOCK FALSE
