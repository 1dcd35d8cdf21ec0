\* Deliveries, redeliveries, speculative calls and upcasts over logs of up to
\* three pages and routers of two handlers.
CONSTANTS
  d1 = d1
  d2 = d2
  v1 = v1
  v2 = v2
  v3 = v3
  Home = d1
  Domains = {d1, d2}
  AnyDomain = AnyDomain
  NotAnEvent = NotAnEvent
  Types = {v1, v2, v3}
  Pages <- AllPages
  Configs <- AllConfigs
  MaxHandlers = 2
  MaxLog = 3
SPECIFICATION Spec
INVARIANTS
  
  CaughtUp
  UpcastLeavesNothing
CHECK_DEADLOCK FALSE
