SPECIFICATION FairSpec
CONSTANTS
  N = 3
  crypto_buff_len = 2
  Input <- BlockLengths
  MayStop = TRUE
INVARIANTS
  WholeBlocksOut
PROPERTIES
  AllOut
CHECK_DEADLOCK FALSE
