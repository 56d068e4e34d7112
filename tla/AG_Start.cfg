SPECIFICATION FairSpec
CONSTANTS
    None = None
    Broken = Broken
    Name = Name
    PendingMaxFiles = 2
    UploadMaxFilesPerRun = 1
    Systems = 1
    Credentials = 2
    MaxRegistrations = 3
    MaxTime = 1
    MaxFaults = 3
    Configurations <- MCConfigurations
INVARIANTS
    TypeOK
    IdentityFollowsToken
    EntitlementIsMine
    OneReportPerSystem
PROPERTIES
    RegistersOnlyAfterALoss
    EventuallyUploaded
