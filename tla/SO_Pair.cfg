SPECIFICATION Spec
CONSTANTS
    p1 = p1
    p2 = p2
    main1 = main1
    tick1 = tick1
    main2 = main2
    f1 = f1
    Nobody = Nobody
    None = None
    Procs <- MCProcs
    Threads <- MCThreads
    ProcOf <- MCProcOf
    Auditors <- MCAuditors
    Fps <- MCFps
    Invalid <- MCNoFp
    Window = 1
    MaxSize = 2
    MaxTime = 2
    MaxFaults = 1
    MaxRuns = 1
CHECK_DEADLOCK FALSE
INVARIANTS
    NoDoubleAlert
    ReservationBacked
PROPERTIES
    ReservationsSurvive
