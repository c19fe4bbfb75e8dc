SPECIFICATION Spec
CONSTANTS
  Threads = {t1}
  Requests = {r1}
  OneShot = {}
  Sessions = {chat, audio}
  Chat = {chat}
  Concurrent = {}
  MaxItems = 3
  Window = 1
  None = None
INVARIANTS
  DeliveryComplete
