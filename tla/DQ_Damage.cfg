SPECIFICATION Spec
CONSTANTS
    p1 = p1
    p2 = p2
    main1 = main1
    tick1 = tick1
    main2 = main2
    e1 = e1
    e2 = e2
    e3 = e3
    Free = Free
    Orphan = Orphan
    Procs <- MCOneProc
    Threads <- MCSingle
    ProcOf <- MCProcOfS
    Events <- MCEvents3
    Invalid <- MCThird
    Oversize <- MCFirst
    MaxSize = 2
    RetryMax = 1
    HasDeadLetter = TRUE
    AtomicReclaim = FALSE
    MaxCrashes = 2
    MaxFaults = 1
INVARIANTS
    RedeliveryNeedsUnsavedOutcome
PROPERTIES
    LeavesOnlyWhenHandedOver
