SPECIFICATION Safe
CONSTANTS
  t1 = t1
  t2 = t2
  n1 = n1
  n2 = n2
  node = node
  Missing = Missing
  Absent = Absent
  Tenant <- OneTenant
  AllowMissing <- OneTenant
  Kind <- OneKind
  Name <- OneName
  MaxChanges = 2
INVARIANTS
  ListMatchesFilter
