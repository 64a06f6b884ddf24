SPECIFICATION Spec
CONSTANTS
  NULL = NULL
  Noti = {n1}
  Inode = {i1, i2, i3}
  Tool = {t1, t2, t3}
  Root = {t1, t2}
  Publisher = {p1, a1}
  App = {a1}
SYMMETRY Symmetry
INVARIANTS
  TypeOK
  OpenOnlyIfAsked
  SetHoldsTheKey
  WriterWasAllowed
PROPERTY
  ImplementsKeys
