SPECIFICATION Spec
CONSTANTS
  t1 = t1
  t2 = t2
  t3 = t3
  p1 = p1
  p2 = p2
  Threads <- ThreadsMC
  ProcessOf <- ProcessOfMC
  Processes = {p1, p2}
  Models = {m1}
  Inodes = {1, 2, 3, 4, 5}
  MaxCalls = 1
  MaxCrashes = 1
  RemovalMayFail = TRUE
  None = None
INVARIANTS
  HitIsWhole
CHECK_DEADLOCK FALSE
