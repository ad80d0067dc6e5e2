SPECIFICATION FairSpec
CONSTANTS
    None = None
    ap3216c = ap3216c
    icm20608 = icm20608
    w1 = w1
    w2 = w2
    w3 = w3
    w4 = w4
    Ap = ap3216c
    Icm = icm20608
    Tasks <- BothTasks
    Workers <- ThreeWorkers
    Window = 1
    MaxQueue = 2
    Stuck <- ApStuck
PROPERTIES
    IcmNotStarved
    DaemonExits
