\* A rejection handler that delegates to the framework.
CONSTANTS
  d1 = d1
  d2 = d2
  t1 = t1
  t2 = t2
  k1 = k1
  NoDomain = NoDomain
  NoKey = NoKey
  Domains = {d1, d2}
  Types = {t1, t2}
  Keys = {k1}
  Configs <- AllConfigs
  MaxHandlers = 1
  MaxPages = 1
  SeqLimit = 8
  FirstSeqs = {0}
SPECIFICATION Spec
INVARIANTS
  DelegationIsVisible
CHECK_DEADLOCK FALSE
