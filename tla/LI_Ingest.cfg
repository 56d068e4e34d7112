SPECIFICATION Spec
CONSTANTS
    a1 = a1
    a2 = a2
    Nobody = Nobody
    Agents <- MCTwo
    Buffer = 2
    MaxRows = 2
    PendingMaxFiles = 1
    UploadMaxFilesPerRun = 1
    MaxSize = 3
    MaxStamp = 2
    MaxFaults = 1
SYMMETRY AgentSymmetry
INVARIANTS
    TypeOK
    PassedRowsAreKept
    NoRowBehindTheCursor
    OneHashPerRow
