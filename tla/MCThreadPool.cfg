SPECIFICATION FairSpec
CONSTANTS
    N = 3
    None = None
    n1 = n1
    n2 = n2
    n3 = n3
    main = main
    Main = main
    Nodes <- ThreeNodes
    Submitters <- MainAndWorkers
INVARIANTS
    QueueWellFormed
    OwnershipExact
    NoUseAfterFree
    DrainFindsNothing
    NoLostWakeup
    NobodyStuck
PROPERTIES
    ImplementsTaskPool
    AcceptedRuns
    CallsReturn
