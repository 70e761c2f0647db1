SPECIFICATION TQSpec
CONSTANTS
  k1 = k1
  k2 = k2
  w1 = w1
  w2 = w2
  NoKey = NoKey
  Key <- MCKey
  Worker <- MCWorker
  ChanCap = 1
  MaxRequeues = 1
INVARIANTS
  TQInv
  KeySerialized
  NoLostRetry
  DrainedWhenReturned
PROPERTIES
  EventuallySynced
  ShutdownCompletes
