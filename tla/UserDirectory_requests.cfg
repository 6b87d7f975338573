SPECIFICATION Spec
CONSTANTS
  ada = ada
  bea = bea
  cid = cid
  k1 = k1
  k2 = k2
  h1 = h1
  h2 = h2
  room = room
  cat = cat
  dog = dog
  Users <- MCUsers
  Keys <- MCKeys
  Opens <- MCOpens
  Handlers <- MCHandlers
  MaxFailures = 2
  UploadKeys <- TwoKeys
  UploadTasks <- MCHandlers
  MaxUploads = 2
  MaxUploadFaults = 1
  Attachments <- MCAttachments
  Own <- MCOwn
  SaveRequests <- MCSaves
  DeleteKeys <- TwoKeys
  SaveTasks <- MCHandlers
  MaxPersonalStickers = 1
  MaxStickerIds = 2
CONSTRAINT OneThing
INVARIANTS OneDmPerPair FinalizedStays SaveOnce
PROPERTIES OpeningFinishes ExpiredIsCollected
CHECK_DEADLOCK FALSE
