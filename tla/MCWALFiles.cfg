CONSTANTS
  SegmentSize = 2
  MaxEntries = 4
  MaxTruncations = 3
  MaxCrashes = 1
SPECIFICATION Spec
INVARIANT ListedLogExact
INVARIANT ReadsExact
INVARIANT FailedOpenWasRaced
