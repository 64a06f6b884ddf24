SPECIFICATION Spec
CONSTANT MaxQueue = 5
INVARIANTS
  TypeOK
PROPERTIES
  AheadIsServed
