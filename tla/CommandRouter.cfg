\* Every kind of request over every router of up to three handlers.
CONSTANTS
  d1 = d1
  d2 = d2
  t1 = t1
  t2 = t2
  k1 = k1
  NoDomain = NoDomain
  NoKey = NoKey
  Domains = {d1, d2}
  Types = {t1, t2}
  Keys = {k1}
  Configs <- AllConfigs
  MaxHandlers = 3
  MaxPages = 2
  SeqLimit = 8
  FirstSeqs = {0, 5}
SPECIFICATION Spec
INVARIANTS
  CommandHasOneOwner
  RejectionServesAll
  RejectionSequencesThread
PROPERTIES
  FanOutSpec
CHECK_DEADLOCK FALSE
