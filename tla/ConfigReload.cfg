CONSTANTS
  BufferCap = 2
  None = None
  MaxEdits = 2
  MaxMessages = 3
  MaxTriggers = 1
SPECIFICATION FairSpec
INVARIANTS TypeOK PartsAgree OldDataBounded ManifestFitsStrategy
PROPERTY ImplementsReplacement
CHECK_DEADLOCK FALSE
