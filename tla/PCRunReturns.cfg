SPECIFICATION Spec
CONSTANTS
  k1 = k1
  k2 = k2
  w1 = w1
  w2 = w2
  NoKey = NoKey
  Finalizer = Finalizer
  Other = Other
  Key <- OneKey
  Worker <- TwoWorkers
  Foreign <- None
  ChanCap = 1
  MaxRequeues = 1
  MaxRV = 3
  Fault = {"stop"}
  MaxFaults = 1
CHECK_DEADLOCK FALSE
PROPERTIES
  RunReturnsWhenStopped
