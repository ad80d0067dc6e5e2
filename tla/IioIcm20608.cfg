SPECIFICATION Spec
CONSTANTS
    Daemons = {d1}
    Monitors = {m1}
    NChannels = 3
    MaxSample = 3
INVARIANTS
    ScaleTrue
    FrameInOrder
