\* Every trigger over every saga or process-manager router of two handlers.
CONSTANTS
  d1 = d1
  d2 = d2
  t1 = t1
  t2 = t2
  k1 = k1
  p1 = p1
  x1 = x1
  x2 = x2
  NoDomain = NoDomain
  Domains = {d1, d2}
  Types = {t1, t2}
  Keys = {k1}
  PmTypes = {p1}
  Targets = {x1, x2}
  Configs <- AllConfigs
  MaxHandlers = 2
  MaxBook = 2
  MaxOut = 1
SPECIFICATION Spec
INVARIANTS
  ListenersServed
  
  PoisonStopsDispatch
  
PROPERTIES
  FanOutSpec
CHECK_DEADLOCK FALSE
