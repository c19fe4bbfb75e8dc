SPECIFICATION Spec
CONSTANTS
  Calls = {s, r1}
  Releases = {r1}
  Streaming = {s}
  Parts <- MCParts
  MaxPendingCalls = 1
  DeliverySlots = 1
  QueuedFrames = 1
  MaxMessages = 1
  MayDisconnect = FALSE
  None = None
  r1 = r1
  r2 = r2
INVARIANTS
  ReservedSlot
CHECK_DEADLOCK FALSE
