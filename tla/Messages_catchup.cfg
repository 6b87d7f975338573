SPECIFICATION MSpec
CONSTANTS
  ada = ada
  bea = bea
  k1 = k1
  k2 = k2
  t1 = t1
  t2 = t2
  Users <- MCUsers
  Keys <- OneKey
  UseLimits <- Unlimited
  Kinds <- MCChannelOnly
  Offered <- Leaving
  Tracked <- NoTargets
  MaxVersion = 3
  MaxRequests = 1
  Tasks <- MCTasks
  Readers <- BeaReads
  MaxEvents = 3
SYMMETRY MCSymmetry
INVARIANT NothingMissed
CHECK_DEADLOCK FALSE
