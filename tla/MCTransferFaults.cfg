SPECIFICATION Spec
CONSTANTS
  NF = 2
  MaxVersion = 2
  Size <- SizeFaults
  BlockLen = 2
  PipeCap = 1
  NetCap = 1
  Faults = 0
  Loses = TRUE
  Online = TRUE
  MaxRuns = 2
INVARIANTS
  MtimeImpliesContent
PROPERTIES
  ImplementsSync
CHECK_DEADLOCK FALSE
