SPECIFICATION Spec
CONSTANTS
    Readers = {r1, r2}
    NAxes = 2
    MaxConcurrent = 2
    BusFaults = FALSE
    MaxSample = 2
    MaxProbes = 1
INVARIANTS
    FrameOfOneSample
CHECK_DEADLOCK FALSE
