SPECIFICATION FairSpec
CONSTANTS
  Ids = {1, 2, 3}
  Capacity = 1
  CacheCapacity = 2
  Requests = {q1, q2}
  MaxRestarts = 1
  None = None
INVARIANTS
  TypeOK
  Replayable
  DeletedStaysGone
  WarmIsWhole
  SessionsDieFirst
PROPERTIES
  ShutdownReturns
CHECK_DEADLOCK FALSE
