SPECIFICATION FairSpec
CONSTANTS
    Debounce = 10
    Calm = TRUE
INVARIANTS
    NoFault
    SettledInTime
PROPERTIES
    SampledWhenQuiet
    SettledReported
