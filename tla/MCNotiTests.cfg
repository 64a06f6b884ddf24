SPECIFICATION TestFairSpec
CONSTANTS
  NULL = NULL
  Noti = {n1}
  Removable = {n1}
  Callback = {c1}
  Publisher = {p1, p2}
  Inode = {i1, i2}
  Node = {x1}
  MaxWd = 2
  MaxQueue = 2
  Key = n1
  Cb = c1
  Me = p1
INVARIANTS
  TestTypeOK
  VerdictsHold
  CleanupCloses
PROPERTIES
  TestsEnd
