CONSTANTS
  ChangeSets = {a, b}
  InitialVersion = 3
  BaseVersion = 0
  U64 = 64
  SnapshotInterval = 2
  KeepRecent = 0
  Async = FALSE
  AsyncBuffer = 0
  TargetLoads = FALSE
  MaxHeight = 5
SYMMETRY Symmetry
SPECIFICATION Spec
INVARIANT CurrentLoadable
INVARIANT CommittedBlocksKept
INVARIANT RetainedVersionsLoadable
INVARIANT TreeMatchesChain
INVARIANT LastIndexMatches
PROPERTY OnlyRollbackRewritesHistory
