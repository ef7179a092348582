SPECIFICATION FairSpecSimulator
CONSTANTS
  CycleLength = 20
  LoadTicks = 2
  MaxPath = 1
PROPERTY
  PathIsWalked
CHECK_DEADLOCK FALSE
