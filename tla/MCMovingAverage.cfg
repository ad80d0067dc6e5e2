SPECIFICATION FilterSpec
CONSTANTS
    Window = 3
    MaxSamples = 8
    Samples <- SomeSamples
INVARIANTS
    AveragesWindow
    RingHoldsWindow
