SPECIFICATION Spec
CONSTANTS
  MaxSeqNo = 15
  SeqNoTH = 7
  Size = 4
  SndUnit = 2
  RcvSize = 3
  AckWinSize = 3
  Nothing = Nothing
  Packets = 3
  InitSeqNo = 14
  SndBufSize = 2
  CongestionWindow = 2
  SelfClock = 3
  ExpLimit = 2
  MaxFaults = 1
INVARIANTS
  RightPacket
  GapsExact
  NotCondemned
  LostNotForgotten
PROPERTIES
  ImplementsStream
  CallsReturn
CHECK_DEADLOCK FALSE
