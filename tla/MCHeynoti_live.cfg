SPECIFICATION FairSpec
CONSTANTS
  NULL = NULL
  Noti = {n1}
  Removable = {n1}
  Callback = {c1, c2}
  Publisher = {p1}
  Inode = {i1, i2}
  Node = {x1, x2}
  MaxWd = 2
  MaxQueue = 2
PROPERTIES
  DueIsServed
  ReturnsWhenQuiet
