SPECIFICATION FairSpec
CONSTANTS
  Roots <- OneRoot
  Dirs <- SmallDirs
  Regs <- SmallRegs
  Base <- D
  Times <- SomeTimes
  Trees <- CheckpointTwice
PROPERTIES
  RunEnds
CHECK_DEADLOCK FALSE
