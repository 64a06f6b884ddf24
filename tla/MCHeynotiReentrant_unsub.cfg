SPECIFICATION Spec
CONSTANTS
  NULL = NULL
  Inode = {n1, n2}
  Callback = {c1, c2}
  Cell = {x1, x2}
  MaxDepth = 2
  Careful = FALSE
  MaxWd = 2
  MaxQueue = 2
SYMMETRY Symmetry
PROPERTY
  UnsubscribeAnywhere
