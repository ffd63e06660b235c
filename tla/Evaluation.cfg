SPECIFICATION Spec
CONSTANTS
  Outcomes <- MCOutcomes
  Selections <- MCSelections
  Concurrency = 2
  PoolSize = 2
  Mutations <- MCMutations
  Splits <- MCSplits
  MaxCandidates = 2
  Generations = 3
  EarlierTraces <- MCEarlierTraces
INVARIANTS
  InFlight
  ReportIsTrue
PROPERTIES
  PromotionsAreEarned
  BenchmarkEnds
CHECK_DEADLOCK FALSE
