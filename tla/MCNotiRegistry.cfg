SPECIFICATION Spec
CONSTANTS
  NULL = NULL
  MaxFd = 3
  Cell = {x1, x2, x3}
  Source = {s1, s2}
  Owner = {o1, o2, o3}
  Release <- Releases
  ProcMounted = TRUE
SYMMETRY Symmetry
INVARIANTS
  TypeOK
  DescriptorsOwned
  SourcesMatch
  OwnersIsolated
  GateSound
PROPERTY
  ImplementsMap
