SPECIFICATION MSpec
CONSTANTS
  ada = ada
  bea = bea
  hal = hal
  pat = pat
  go = go
  do = do
  k1 = k1
  k2 = k2
  s1 = s1
  s2 = s2
  t1 = t1
  t2 = t2
  Users <- MCUsers
  Bots <- MCBots
  Tokens <- MCTokens
  Definitions <- MCDefinitions
  Requests <- MCRequests
  SyncKeys <- MCKeys
  MaxSchema = 2
  Syncs <- OneSync
  Keys <- MCKeys
  MaxVersion = 0
  Slots <- MCSlots
CONSTRAINT OneThing
PROPERTY RejectedChangesNothing
CHECK_DEADLOCK FALSE
