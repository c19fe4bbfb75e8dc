SPECIFICATION FairSpec
CONSTANTS
  Clients = {c1, c2}
  Incarnations = {1, 2, 3, 4}
  MaxFaults = 3
  None = None
INVARIANTS
  TypeOK
  NothingForgotten
PROPERTIES
  Recovers
\* When every client is attached and nothing more goes wrong, nothing happens.
CHECK_DEADLOCK FALSE
