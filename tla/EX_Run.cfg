SPECIFICATION Spec

CONSTANTS
    Columns = {"exposed", "granted"}
    Equated = {"granted"}
    Unreadable = Unreadable
    Packs <- MCPacks
    Entitlements <- MCEntitlements
    None = None
    MaxFaults = 1
    MaxRows = 2
    MaxSeeds = 3
    MaxMatches = 1
    MaxTargets = 2
    MaxRequests = 3
    PollAttempts = 2

INVARIANTS
    OnlyClearedPacksRun
    StatusFollowsProcedures
    ValidatedNeverMisread
    VerdictCoversEveryTarget

PROPERTIES
    RunEnds
