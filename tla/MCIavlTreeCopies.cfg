SPECIFICATION Spec
CONSTANTS
    Keys = {1, 2, 3}
    Values = {0, 1}
    CacheSize = 1
    LockFreeReaders = FALSE
    BlockWrites <- CopyBlocks
    MaxCopies = 1
CHECK_DEADLOCK FALSE
INVARIANTS
    CopiesUnchanged
    HashesFresh
    
