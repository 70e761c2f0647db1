SPECIFICATION Safe
CONSTANTS
  t1 = t1
  t2 = t2
  e1 = e1
  e2 = e2
  h1 = h1
  h2 = h2
  Tenant <- TwoTenants
  Help <- TwoHelps
  Series = {ok}
  Emitter <- TwoEmitters
  MaxFactories = 2
  MaxEmits = 3
  MaxResets = 1
SYMMETRY Symmetry
INVARIANTS
  NothingLost
  ScrapeComplete
  ScrapeIsCurrent
