SPECIFICATION FairSpecSimulator
CONSTANTS
  CycleLength = 20
  LoadTicks = 2
  MaxPath = 1
INVARIANTS
  SimulatorTypeOK
PROPERTIES
  GaitRecovers
  StepsGoOn
CHECK_DEADLOCK FALSE
