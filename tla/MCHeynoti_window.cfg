SPECIFICATION Spec
CONSTANTS
  NULL = NULL
  Noti = {n1}
  Removable = {}
  Callback = {c1, c2}
  Publisher = {p1}
  Inode = {i1}
  Node = {x1, x2}
  MaxWd = 2
  MaxQueue = 2
PROPERTY
  PublishReachesSlots
