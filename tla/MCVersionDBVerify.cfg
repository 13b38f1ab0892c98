SPECIFICATION Spec
CONSTANTS
    Keys <- MCKeys
    Stores <- MCStores
    Changes <- MCChanges
    SSTFileSize = 2
    SorterChunk = 16
    Lag = 1
    ChunkSize = 2
    Concurrency = 2
    ImportCommitBatchSize = 2
    WrongWrites = FALSE
    Truncation = TRUE
    MaxHeight = 3
    MaxLegacy = 3
    MaxCrashes = 0
INVARIANTS
    VerifiedFilesExact
CHECK_DEADLOCK FALSE
