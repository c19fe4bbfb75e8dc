SPECIFICATION FairSpec
CONSTANTS
  Owners = {o1, o2}
  Guards = {g1, g2, g3}
  MaxTime = 7
  ReconnectGrace = 2
  StartupDeadline = 2
  MaxDelay = 2
  None = None
INVARIANTS
  TypeOK
  StopExcludesHttp
  FullGrace
PROPERTIES
  KeepsContract
  UnusedHostCommits
