CONSTANTS
  LastPlace = 1
  None = None
  PathLength = 1
  GateStep = 1
  HistorySize = 1
  MaxCycles = 2
  MaxRequests = 2
SPECIFICATION FairSpec
INVARIANTS TypeOK ReachedWasThere AdmittedIsCounted
PROPERTY RunEnds
CHECK_DEADLOCK FALSE
