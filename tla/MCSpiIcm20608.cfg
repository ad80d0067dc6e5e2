SPECIFICATION Spec
CONSTANTS
    Readers = {r1, r2}
    NAxes = 2
    MaxConcurrent = 1
    BusFaults = TRUE
    MaxSample = 1
    MaxProbes = 2
INVARIANTS
    SpiTypeOK
    BoundReady
    FrameComplete
    FrameCutShort
    RemoveReleasesAll
    NullOnlyUnfinished
CHECK_DEADLOCK FALSE
SYMMETRY Symmetry
