SPECIFICATION ContainersSpec
CONSTANTS
  SndUnit = 2
  RcvSize = 5
  AckWinSize = 3
  Nothing = Nothing
  Pattern <- FourMessages
  MaxSnd = 3
  MaxSeqNo = 15
  SeqNoTH = 7
  Window = 5
  DropWraps = FALSE
  Socks = {s1, s2, s3, s4, s5}
  MaxTime = 3
  QueueSize = 4
  Part = 5
  Whole = 8
  MaxUsed = 4
  MaxDrift = 2
SYMMETRY AnySocket
INVARIANTS
  ListsExact
  BuffersExact
  HeapExact
  NoLostSignal
  UnitsExact
CHECK_DEADLOCK FALSE
