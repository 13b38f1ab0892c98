SPECIFICATION Spec
CONSTANTS
    Keys = {1, 2, 3, 4, 5}
    Values = {0}
    CacheSize = 0
    LockFreeReaders = FALSE
    BlockWrites <- WideBlocks
    MaxCopies = 0
CHECK_DEADLOCK FALSE
INVARIANTS
    BalancedSearchTree
    ReadsMatchWrites
    IteratorsExact
    SnapshotRoundTrip
    ProofsVerify
