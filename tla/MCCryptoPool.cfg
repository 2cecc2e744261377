SPECIFICATION FairSpec
CONSTANTS
  N = 3
  MaxChunks = 5
  MayFail = TRUE
  MayExit = TRUE
INVARIANTS
  JoinReturnsBuffer
  ArgsNotShared
  StreamInOrder
PROPERTIES
  CallsReturn
  ImplementsService
CHECK_DEADLOCK FALSE
