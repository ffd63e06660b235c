CONSTANTS
  Kinds = {"chat", "responses", "messages"}
  MaxRetries = 0
  MaxTurns = 2
  MaxAsks = 2
  MaxResumes = 0

SPECIFICATION Spec

INVARIANT
  ReviewerIsShownDiff

CHECK_DEADLOCK FALSE
