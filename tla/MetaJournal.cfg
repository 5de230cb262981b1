CONSTANTS
    h1 = h1  h2 = h2
    Handles <- TwoHandles
    Files <- SixFiles
    CheckpointRecords = 3
    MaxOps = 3
    MaxFaults = 2
    RollbackFails = TRUE
SPECIFICATION FairSpec
INVARIANTS TypeOK AckedSurvives CacheCoherent CachePaired BlobsDurable
PROPERTIES ReadReturns
CHECK_DEADLOCK FALSE
