SPECIFICATION FairSpec
CONSTANTS
  Threads <- CryptoThreads
  Children <- CryptoChildren
  JoinsOn <- CryptoJoins
  Type1 = {"crypt"}
  Main = "main"
  Nobody = "none"
  MayEnd = {"crypt", "recv", "send", "mon"}
  Raises = {"recv", "mon"}
  Connects = {"run"}
  MayBlock = {"recv", "send"}
  PoolSizes = {5}
INVARIANTS
  CountCovers
  CleanupIsLast
PROPERTIES
  ExitCompletes
CHECK_DEADLOCK FALSE
