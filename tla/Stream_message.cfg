SPECIFICATION SFairSpec
CONSTANTS
  w1 = w1
  w2 = w2
  h1 = h1
  AlarmTask = AlarmTask
  RegistryTask = RegistryTask
  Sockets <- TwoSockets
  Handlers <- OneHandler
  MaxSeq = 2
  MaxFaults = 1
CONSTRAINT OneThing
INVARIANTS StreamInv AckedIsDurable FinalIsComplete
PROPERTIES OutcomeStands StreamEnds
CHECK_DEADLOCK FALSE
