CONSTANTS
  File = {f1, f2}
  Large = {f2}
  PartCount = 2
  MaxFailures = 2
  Nothing = Nothing
  MaxFaults = 3
  MaxCrashes = 1
SPECIFICATION FairSpec
INVARIANTS TypeOK WholeFilesKept NoFileQueuedTwice PopsWhatItSent
PROPERTIES ImplementsDelivery StopEnds
CHECK_DEADLOCK FALSE
