SPECIFICATION FairSpec
CONSTANTS
  Calls = {s, r1, r2}
  Releases = {r1, r2}
  Streaming = {s}
  Parts <- MCParts
  MaxPendingCalls = 1
  DeliverySlots = 1
  QueuedFrames = 1
  MaxMessages = 1
  MayDisconnect = TRUE
  None = None
  r1 = r1
  r2 = r2
CONSTRAINT FirstIsR1
INVARIANTS
  TypeOK
  NoProtocolError
PROPERTIES
  CallUnwinds
CHECK_DEADLOCK FALSE
