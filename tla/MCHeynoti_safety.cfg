SPECIFICATION Spec
CONSTANTS
  NULL = NULL
  Noti = {n1, n2}
  Removable = {n1, n2}
  Callback = {c1, c2}
  Publisher = {p1}
  Inode = {i1, i2}
  Node = {x1, x2}
  MaxWd = 2
  MaxQueue = 2
SYMMETRY Symmetry
INVARIANTS
  TypeOK
  DeafOnlyInWindow
  DueIsQueued
  ListensToItsKey
PROPERTIES
  NoOvertaking
  FailureKeepsSlots
  NoOrphanWatch
