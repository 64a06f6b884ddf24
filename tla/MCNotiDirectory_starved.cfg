SPECIFICATION Spec
CONSTANT MaxQueue = 3
PROPERTIES
  EveryPublishServed
