SPECIFICATION Spec
CONSTANTS
    Readings <- TwoReadings
    MaxErrors = 1
    IicUsers = {u1, u2}
    IioUsers = {p1, p2}
    MaxConcurrent = 1
    MaxOpens = 2
    IIO = iio_driver
INVARIANTS
    ApTypeOK
    OpenChipOn
    IicExact
    BoundChipOn
PROPERTIES
    GoneChipDown
    IioAtomic
CHECK_DEADLOCK FALSE
SYMMETRY Symmetry
