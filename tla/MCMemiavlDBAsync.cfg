CONSTANTS
  ChangeSets = {a, b}
  InitialVersion = 5
  BaseVersion = 4
  U64 = 64
  SnapshotInterval = 3
  KeepRecent = 1
  Async = TRUE
  AsyncBuffer = 1
  TargetLoads = FALSE
  MaxHeight = 4
SPECIFICATION FairSpec
INVARIANT RetainedVersionsLoadable
INVARIANT TreeMatchesChain
PROPERTY ImplementsDurableHistory
PROPERTY CallsReturn
