SPECIFICATION AuditSpec
CONSTANTS
    p1 = p1
    main1 = main1
    tick1 = tick1
    f1 = f1
    Nobody = Nobody
    None = None
    Procs <- MCOneProc
    Threads <- MCPair
    ProcOf <- MCProcOf
    Auditors <- MCAudit
    Fps <- MCFp
    Invalid <- MCNoFp
    Window = 1
    MaxSize = 2
    MaxTime = 2
    MaxFaults = 1
    MaxRuns = 1
CHECK_DEADLOCK FALSE
INVARIANTS
    ExitZeroLeavesNothingBehind
