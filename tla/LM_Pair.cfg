SPECIFICATION FairSpec
CONSTANTS
    p1 = p1
    p2 = p2
    Absent = Absent
    Broken = Broken
    Procs <- MCBoth
    SourceCount = 2
    MaxLines <- MCLines
    MaxChanges = 1
    MaxFaults = 1
INVARIANTS
    PassedLinesAreReported
    WholeUnlessOverlapped
PROPERTIES
    LinesAreReported
