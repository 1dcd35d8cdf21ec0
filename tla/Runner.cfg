\* A service with two probed endpoints, over UDS or TCP: every interleaving of
\* the runner, the supervisor and the endpoints.
CONSTANTS
  NDeps = 2
  NNames = 2
SPECIFICATION FairSpec
INVARIANTS
  TypeOK
  UdsShownIsBound
  ShownIsRecent
  NamesAgree
  ShutdownIsFinal
PROPERTIES
  ShownOnlyByFullTick
  GateSpec
  RecoversWhenUp
  DrainsWhenDown
  ShutdownCompletes
