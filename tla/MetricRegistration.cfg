SPECIFICATION Safe
CONSTANTS
  Tenant = {t1, t2}
  Metric = {m1}
  LabelList <- Orders
  Help = {"a", "b"}
  MaxHandles = 2
CHECK_DEADLOCK FALSE
INVARIANTS
  TrackerIsRegistered
  GlobalIsShared
  RegistriesAgree
  HandlesServe
