SPECIFICATION FairSpec
CONSTANTS
    a1 = a1
    a2 = a2
    Nobody = Nobody
    Agents <- MCAgents
    Studies <- MCStudies
    Limit = 1
    Window = 1
    MaxRecords = 2
    MaxTime = 2
    MaxFaults = 1
INVARIANTS
    TypeOK
    WatermarkCoversOnlyStored
PROPERTIES
    EvidenceArrives
