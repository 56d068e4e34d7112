SPECIFICATION FairSpec
CONSTANTS
    Procs = {p1, p2, p3}
    Absent = Absent
    Orphan = Orphan
    StaleAfter = 2
    AcquireLimit = 1
    HoldLimit = 2
    MaxCrashes = 2
    MaxErrors = 1
INVARIANTS
    ExclusiveUnlessUsurped
    HolderKeepsItsFile
PROPERTIES
    AcquireReturns
    OrphanReclaimed
