SPECIFICATION Spec
CONSTANTS
  Budgets <- MCBudgets
  MaxCalls = 2
  MaxRuns = 2
  MaxProcesses = 3
  RunsPerAgent = 2
  Apis <- MCApis
  HasSummarizer = FALSE
  SilentEdits <- NoSilentEdits
INVARIANTS
  TypeOK
  FreshRunVerifies
  RequestsAnswerCalls
PROPERTIES
  CheckpointAdvances
CHECK_DEADLOCK FALSE
