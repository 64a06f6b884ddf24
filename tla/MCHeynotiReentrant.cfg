SPECIFICATION FairSpec
CONSTANTS
  NULL = NULL
  Inode = {n1, n2}
  Callback = {c1, c2}
  Cell = {x1, x2}
  MaxDepth = 2
  Careful = TRUE
  MaxWd = 2
  MaxQueue = 2
INVARIANTS
  TypeOK
  CursorsLive
  WalkIsExact
  DueIsReachable
PROPERTIES
  ImplementsCallbacks
  DispatchShrinks
  DispatchEnds
