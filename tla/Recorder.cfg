CONSTANTS
  ForwardDur = 2
  BackwardDur = 1
  ForwardCap = 2
  BackwardCap = 2
  Cooldown = 2
  Second = 2
  None = None
  MaxTime = 3
  LastAdmission = 2
  MaxLatency = 1
  MaxTriggers = 2
  MaxCancels = 1
  PerTick = 1
  MayShutDown = TRUE
  MayFail = TRUE
SPECIFICATION Spec
INVARIANTS
  TypeOK CollectingIffRecording BackwardIsOfThisTrigger NoMessageTwice
  PreTriggerKept CollectedKept ManifestFitsBag
PROPERTY BagsAreKept
CHECK_DEADLOCK FALSE
