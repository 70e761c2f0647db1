SPECIFICATION Spec
CONSTANTS
  t1 = t1
  t2 = t2
  n1 = n1
  n2 = n2
  node = node
  Missing = Missing
  Absent = Absent
  Tenant <- TwoTenants
  AllowMissing <- OneTenant
  Kind <- OneKind
  Name <- TwoNames
  MaxChanges = 3
INVARIANTS
  FIInv
  CallsFit
  HandlerAgrees
  CleanupReachesAll
PROPERTIES
  SilenceIsFinal
  ListersAreIsolated
  EventuallyAgrees
