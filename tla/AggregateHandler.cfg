\* Two requests at once, replays from snapshots; an undecodable fact may be persisted as it is.
CONSTANTS
  w1 = w1
  w2 = w2
  inc = inc
  reset = reset
  note = note
  garbled = garbled
  spoiled = spoiled
  Workers = {w1, w2}
  Types = {inc, note, garbled, spoiled}
  Applied = {inc, garbled}
  FactTypes = {inc, spoiled}
  Undecodable = {garbled, spoiled}
  States <- CounterStates
  NoState = NoState
  Initial = 0
  Default = 0
  Apply <- CounterApply
  SendsSnapshots = FALSE
  MaxLog = 3
  MaxPages = 1
  MaxFacts = 1
SPECIFICATION Spec
INVARIANTS
  TypeOK
  MethodsSeeTheirHistory
  PoisonEndsCommands
  SnapshotIsTrue
PROPERTIES
  AggregateSpec
SYMMETRY Symmetry
