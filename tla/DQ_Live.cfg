SPECIFICATION FairSpec
CONSTANTS
    p1 = p1
    p2 = p2
    main1 = main1
    tick1 = tick1
    main2 = main2
    e1 = e1
    e2 = e2
    e3 = e3
    Free = Free
    Orphan = Orphan
    Procs <- MCProcs
    Threads <- MCThreads
    ProcOf <- MCProcOf
    Events <- MCEvent1
    Invalid <- MCNone
    Oversize <- MCNone
    MaxSize = 2
    RetryMax = 1
    HasDeadLetter = TRUE
    AtomicReclaim = TRUE
    MaxCrashes = 1
    MaxFaults = 1
PROPERTIES
    EventuallyHandedOver
