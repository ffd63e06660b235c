SPECIFICATION MemorySpec
CONSTANTS
  Instances <- MCInstances
  Keys <- MCKeys
  OneTtl = TRUE
  MaxPuts = 3
  Separated = {2}
  NoKey = NoKey
  NoFile = NoFile
INVARIANTS
  MemoryTypeOK
  EntriesSurvive
  MemoryIsOnDisk
CHECK_DEADLOCK FALSE
