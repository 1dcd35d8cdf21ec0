\* Command books that start from the latest snapshot.
CONSTANTS
  w1 = w1
  w2 = w2
  inc = inc
  reset = reset
  note = note
  garbled = garbled
  spoiled = spoiled
  Workers = {w1}
  Types = {inc, reset, note, garbled, spoiled}
  Applied = {inc, reset, garbled}
  FactTypes = {reset, spoiled}
  Undecodable = {garbled, spoiled}
  States <- CounterStates
  NoState = NoState
  Initial = 0
  Default = 0
  Apply <- CounterApply
  SendsSnapshots = TRUE
  MaxLog = 3
  MaxPages = 2
  MaxFacts = 1
SPECIFICATION Spec
INVARIANTS
  StateStartsFromSnapshot
