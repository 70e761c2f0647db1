SPECIFICATION Spec
CONSTANTS
  a = a
  b = b
  c1 = c1
  c2 = c2
  Name <- TwoNames
  Selected <- OneName
  Consumer <- OneConsumer
  MaxWrites = 3
  MaxEdits = 1
CHECK_DEADLOCK FALSE
INVARIANTS
  CacheIsPristine
PROPERTIES
  SpecNeverReverts
  CachesConverge
