SPECIFICATION FairSpec
CONSTANTS
  KeyLen = 12
  Keys <- SameOrOther
  Loses = TRUE
INVARIANTS
  ReadsItsOwn
  OpenMeansSameKey
PROPERTIES
  HandshakeEnds
CHECK_DEADLOCK FALSE
