SPECIFICATION Spec
CONSTANTS
    Submitters = {s1, s2}
    Blank = Blank
    Capacity = 2
    Width = 2
INVARIANTS
    BiosExact
    ZeroMeansSound
CHECK_DEADLOCK FALSE
