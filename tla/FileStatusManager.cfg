CONSTANTS
  File = {f1, f2}
  MaxChunk = 1
  MaxCrashes = 2
SPECIFICATION Spec
INVARIANTS TypeOK LastSaveOnDisk
PROPERTY RestartFindsLastSave
