SPECIFICATION Spec
CONSTANT MaxKeys = 5
INVARIANTS
    LineIsTyped
    ScreenShowsLine
    EscapesUndone
CHECK_DEADLOCK FALSE
