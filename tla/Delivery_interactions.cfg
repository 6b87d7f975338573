SPECIFICATION DFairSpec
CONSTANTS
  ada = ada
  bea = bea
  k1 = k1
  k2 = k2
  t1 = t1
  t2 = t2
  r1 = r1
  r2 = r2
  Users <- MCUsers
  Components <- MCComponents
  Layouts <- MCLayouts
  Keys <- MCKeys
  Bodies <- MCBodies
  MaxSockets = 2
  MaxDeliveries = 2
  SendAttempts = 3
  MaxFaults = 1
  Submits <- MCSubmits
  Results <- MCResults
CONSTRAINT OneThing
INVARIANTS PolicyHolds EffectsOnce CompletedMeansApplied
PROPERTY DeliveryEnds
CHECK_DEADLOCK FALSE
