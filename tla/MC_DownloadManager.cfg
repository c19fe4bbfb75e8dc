SPECIFICATION FairSpec
CONSTANTS
  t1 = t1
  t2 = t2
  t3 = t3
  p1 = p1
  p2 = p2
  Threads <- ThreadsMC
  ProcessOf <- ProcessOfMC
  Processes = {p1, p2}
  Models = {m1, m2}
  Inodes = {1, 2, 3, 4, 5}
  MaxCalls = 1
  MaxCrashes = 1
  RemovalMayFail = FALSE
  None = None
INVARIANTS
  TypeOK
  LockExclusive
  HitIsWhole
PROPERTIES
  StaysCached
  EveryCallReturns
\* The calls are over at some time.
CHECK_DEADLOCK FALSE
