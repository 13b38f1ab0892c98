CONSTANTS
  ChangeSets = {a, b}
  InitialVersion = 0
  BaseVersion = 0
  U64 = 64
  SnapshotInterval = 2
  KeepRecent = 0
  Async = FALSE
  AsyncBuffer = 0
  TargetLoads = TRUE
  MaxHeight = 5
SYMMETRY Symmetry
SPECIFICATION Spec
INVARIANT NoSnapshotNewerThanWAL
