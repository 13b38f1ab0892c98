CONSTANTS
    Binaries <- Releases
    InitialHeight = 3
    sdk46Compact = TRUE
    EmptyBlocks = FALSE
    MaxVersion = 5
    BlockWrites = 2
    MaxRestores = 1
SPECIFICATION Spec
INVARIANT TreesInStep
INVARIANT PendingLogReplays
 
 
PROPERTY AnnouncedIsCommitted
