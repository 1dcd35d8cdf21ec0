\* A fact whose handler is not the first one registered.
CONSTANTS
  d1 = d1
  d2 = d2
  t1 = t1
  t2 = t2
  k1 = k1
  NoDomain = NoDomain
  NoKey = NoKey
  Domains = {d1, d2}
  Types = {t1, t2}
  Keys = {}
  Configs <- FactConfigs
  MaxHandlers = 2
  MaxPages = 1
  SeqLimit = 8
  FirstSeqs = {0}
SPECIFICATION Spec
INVARIANTS
  FactReachesItsHandler
CHECK_DEADLOCK FALSE
