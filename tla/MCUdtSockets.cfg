SPECIFICATION Spec
CONSTANTS
  c1 = c1
  c2 = c2
  None = None
  Clients = {c1, c2}
  MaxSockets = 2
  BackLog = 1
  MaxRequests = 3
  TightRaces = FALSE
  MaxLeaks = 1
CHECK_DEADLOCK FALSE
INVARIANTS
  NoDangling
  RefCountExact
  OneSocketEach
PROPERTIES
  AllFreed
  AcceptReturns
