SPECIFICATION FairSpec
CONSTANTS
  NF = 2
  MaxVersion = 2
  Size <- SizeCut
  BlockLen = 2
  PipeCap = 2
  NetCap = 2
  Faults = 1
  Loses = FALSE
  Online = TRUE
  MaxRuns = 1
INVARIANTS
  InSync
  AllDelivered
PROPERTIES
  TransferEnds
CHECK_DEADLOCK FALSE
