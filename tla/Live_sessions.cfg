SPECIFICATION MCSpec
CONSTANTS
  bea = bea
  s1 = s1
  s2 = s2
  t1 = t1
  t2 = t2
  Users <- BeaOnly
  Sessions <- TwoSessions
  UserOf <- ToBea
  Tasks <- TwoTasks
  MaxVersion = 3
  MaxLease = 2
  MaxCalls = 1
  Failures <- FailureKinds
INVARIANTS NoLeak LeaseKeepsAlarm
CHECK_DEADLOCK FALSE
