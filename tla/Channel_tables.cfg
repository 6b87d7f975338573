SPECIFICATION MCSpec
CONSTANTS
  ada = ada
  bea = bea
  k1 = k1
  k2 = k2
  t1 = t1
  t2 = t2
  Users <- MCUsers
  Keys <- TwoKeys
  UseLimits <- MCLimits
  Kinds <- MCBothKinds
  Offered <- Operations
  Tracked <- NoTargets
  MaxVersion = 5
  MaxRequests = 4
  Tasks <- MCTasks
  Readers <- BeaReads
  MaxEvents = 3
SYMMETRY MCSymmetry
INVARIANTS OneOwner CountersMatch RetryNeverReapplies HistoryTellsState OncePerCommand SendersWereMembers
PROPERTIES VersionsSpec HiddenStaysHidden
CHECK_DEADLOCK FALSE
