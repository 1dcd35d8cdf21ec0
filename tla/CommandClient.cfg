SPECIFICATION FairSpec
CONSTANTS
  a = a
  b = b
  Callers = {a, b}
  Chains <- MCChains
  Drafts <- MCDrafts
  MaxAttempts = 2
  MaxRounds = 2
  MaxLog = 3
INVARIANTS
  AppliedAtMostOnce
  AnswersAreTrue
  ReadsAreWhole
PROPERTIES
  RetrySpec
  EveryCallReturns
CHECK_DEADLOCK FALSE
