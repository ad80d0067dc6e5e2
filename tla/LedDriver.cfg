SPECIFICATION Spec
CONSTANTS
    Blinkers = {b1, b2}
    Commands = {c1}
INVARIANTS
    LedAsAsked
    RemoveExact
CHECK_DEADLOCK FALSE
