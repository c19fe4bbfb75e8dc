SPECIFICATION FairSpec
CONSTANTS
  N = 6
  WordBits = 4
  ByteBits = 2
  SaveInterval = 2
  Workers = {w1, w2}
  Versions = {v1, v2}
  First = v1
  None = None
  MaxFaults = 2
  MaxLost = 1
INVARIANTS
  TypeOK
  FinishedIsWhole
  ReadsBack
PROPERTIES
  Finishes
CHECK_DEADLOCK FALSE
