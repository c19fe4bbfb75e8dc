SPECIFICATION FairSpec
CONSTANTS
  gen1 = gen1
  gen2 = gen2
  rank = rank
  decide = decide
  p1 = p1
  p2 = p2
  None = None
  NumCalls = 3
  Handles <- MCHandles
  Ids = {"g", "r", "d"}
  Paths = {p1, p2}
  IdOf <- MCIdOf
  PathOf <- MCPathOf
  Typed = {rank, decide}
  Budget = 1
  Readiness = 1
INVARIANTS
  TypeOK
  SessionsPinModel
  SingleFlight
  FilesOutliveRuntime
  TypedStayUnloaded
PROPERTIES
  WaitersAnswered
  UnloadAllReturns
CHECK_DEADLOCK FALSE
