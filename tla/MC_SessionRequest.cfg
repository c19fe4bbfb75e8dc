SPECIFICATION FairSpec
CONSTANTS
  Threads = {t1, t2}
  Requests = {r1, r2}
  OneShot = {r1}
  Sessions = {chat, shared}
  Chat = {chat}
  Concurrent = {shared}
  MaxItems = 2
  Window = 1
  None = None
INVARIANTS
  TypeOK
  CancelHonoured
  ActiveTracked
  ShutdownReachesAll
  ClosedNeverRuns
  NothingUndecided
PROPERTIES
  CanceledReturns
