CONSTANTS
  ForwardDur = 1
  BackwardDur = 1
  ForwardCap = 1
  BackwardCap = 1
  Cooldown = 1
  Second = 1
  None = None
  MaxTime = 2
  LastAdmission = 1
  MaxLatency = 0
  MaxTriggers = 1
  MaxCancels = 0
  PerTick = 1
  MayShutDown = FALSE
  MayFail = FALSE
  Caller = {c1}
SPECIFICATION SpecRuntime
INVARIANT DrainedOnShutdown
CHECK_DEADLOCK FALSE
