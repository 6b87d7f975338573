SPECIFICATION OFairSpec
CONSTANTS
  ada = ada
  bea = bea
  k1 = k1
  k2 = k2
  Users <- MCUsers
  Keys <- MCKeys
  UseLimits <- MCLimits
  Kinds <- MCChannelOnly
  Offered <- Showing
  Tracked <- BothTargets
  MaxVersion = 4
  MaxRequests = 3
  MaxFailures = 2
  MaxAttempts = 2
CONSTRAINT OneThing
INVARIANTS OutboxInv DirectoryNeverInvents MembersFindChannel ListingSettles
PROPERTY OutboxDrains
CHECK_DEADLOCK FALSE
