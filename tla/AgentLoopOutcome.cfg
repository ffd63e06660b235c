SPECIFICATION Spec
CONSTANTS
  Budgets <- MCBudgets
  MaxCalls = 1
  MaxRuns = 2
  MaxProcesses = 2
  RunsPerAgent = 2
  Apis <- MCApis
  HasSummarizer = TRUE
  SilentEdits <- MCSilentEdits
PROPERTIES
  ImplementsBoundedRun
  RunStops
CHECK_DEADLOCK FALSE
