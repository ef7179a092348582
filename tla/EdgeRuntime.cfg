CONSTANTS
  ForwardDur = 1
  BackwardDur = 1
  ForwardCap = 1
  BackwardCap = 1
  Cooldown = 1
  Second = 1
  None = None
  MaxTime = 2
  LastAdmission = 1
  MaxLatency = 0
  MaxTriggers = 2
  MaxCancels = 1
  PerTick = 0
  MayShutDown = FALSE
  MayFail = FALSE
  Caller = {c1}
SPECIFICATION FairSpecRuntime
PROPERTIES BusyEnds TriggersServed
CHECK_DEADLOCK FALSE
