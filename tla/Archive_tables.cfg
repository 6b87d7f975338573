SPECIFICATION AFairSpec
CONSTANTS
  channel = channel
  user = user
  plain = plain
  scoped = scoped
  image = image
  c1 = c1
  c2 = c2
  Sources <- MCSources
  Plain <- MCPlain
  Scoped <- MCScoped
  Shared <- MCShared
  Consumers <- MCConsumers
  MaxSeq = 2
  MaxAttempts = 2
  MaxFaults = 1
CONSTRAINT OneThing
INVARIANT ArchiveIsPrefix
 
CHECK_DEADLOCK FALSE
