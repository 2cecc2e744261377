SPECIFICATION FairSpec
CONSTANTS
  Roots <- OneRoot
  Dirs <- WithEmpty
  Regs <- SmallRegs
  Base <- D
  Times <- SomeTimes
  Trees <- EachTwice
INVARIANTS
  AllArrive
  FailureJustified
  UpToDateNotSent
PROPERTIES
  KeepsTheRest
  RunEnds
CHECK_DEADLOCK FALSE
