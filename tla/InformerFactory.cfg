SPECIFICATION Spec
CONSTANTS
  t1 = t1
  t2 = t2
  g1 = g1
  g2 = g2
  ch1 = ch1
  ch2 = ch2
  Type <- TwoTypes
  Known <- OneType
  Caller <- TwoCallers
  Chan <- TwoChans
  MaxInformers = 3
INVARIANTS
  IFInv
  OneInformerPerType
  ShutdownIsFinal
  WaitAnswersForStarted
PROPERTIES
  ShutdownReturnsAtLast
