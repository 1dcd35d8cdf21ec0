SPECIFICATION FairSpec
CONSTANTS
  r1 = r1
  r2 = r2
  t1 = t1
  t2 = t2
  t3 = t3
  NoRoot = NoRoot
  Roots = {r1}
  Sequences = {1, 2}
  Targets = {t1, t2, t3}
  Domain <- MCDomain
  Plans <- MCPlans
  Rejected <- MCRejected
  MaxLog = 2
INVARIANTS
  AcknowledgedIsSettled
  CompensationHitsItsTrigger
  BookedLandsWhereRead
PROPERTIES
  DeliverySpec
  Settles
CHECK_DEADLOCK FALSE
