SPECIFICATION Spec
CONSTANTS
  Tools <- MCTools
  Risk <- MCRisk
  Calls <- MCCalls
  Assess <- MCAssess
  Modes <- MCModes
  PoolSize = 2
  MaxCalls = 3
  MaxBatches = 2
  MaxTasks = 2
INVARIANTS
  TypeOK
  MutationsAlone
  OnlyAuthorizedRun
  AskedOnce
  UsedToolsStay
CHECK_DEADLOCK FALSE
