SPECIFICATION FairSpec
CONSTANTS
  Callers = {c1, c2, c3}
  Handles = {h1, h2, h3}
  Versions = {v1, v2}
  MaxSize = 1
  None = None
INVARIANTS
  NoUseAfterClose
  NoDoubleClose
  NoLeak
  RefsCountBorrows
  
  LoadsBounded
PROPERTIES
  BorrowReturns
  CloseDrains
