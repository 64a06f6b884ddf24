SPECIFICATION Spec
CONSTANTS
  NULL = NULL
  Noti = {n1, n2}
  Removable = {}
  Callback = {c1, c2}
  Publisher = {p1}
  Inode = {i1, i2}
  Node = {x1, x2, x3}
  MaxWd = 3
  MaxQueue = 2
SYMMETRY Symmetry
INVARIANTS
  NoDuplicateSlot
  SlotsMatchSubscribed
PROPERTY
  ImplementsService
