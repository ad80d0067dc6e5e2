SPECIFICATION Spec
CONSTANTS
    Debounce = 10
    Calm = FALSE
INVARIANTS
    TimerGone
CHECK_DEADLOCK FALSE
