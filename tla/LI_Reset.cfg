SPECIFICATION Spec
CONSTANTS
    a1 = a1
    a2 = a2
    Nobody = Nobody
    Agents <- MCOne
    Buffer = 2
    MaxRows = 4
    PendingMaxFiles = 1
    UploadMaxFilesPerRun = 1
    MaxSize = 5
    MaxStamp = 2
    MaxFaults = 0
INVARIANTS
    ResetOnlyIfTruncated
