SPECIFICATION SFairSpec
CONSTANTS
  h1 = h1
  h2 = h2
  MaxSockets = 2
  MaxSessions = 2
  MaxInputs = 2
  MaxEffects = 1
  Backlog = 1
  MaxFaults = 1
  Handlers <- TwoHandlers
CONSTRAINT OneThing
INVARIANTS SessionInv OneLive NoInputLost EffectsOnce
PROPERTY SessionEnds
CHECK_DEADLOCK FALSE
