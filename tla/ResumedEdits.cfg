SPECIFICATION Spec
CONSTANTS
  Budgets <- MCBudgets
  MaxCalls = 1
  MaxRuns = 1
  MaxProcesses = 2
  RunsPerAgent = 1
  Apis <- MCApis
  HasSummarizer = FALSE
  SilentEdits <- NoSilentEdits
INVARIANT
  EditsVerified
CHECK_DEADLOCK FALSE
