CONSTANTS
  Kinds = {"chat", "async_chat", "responses", "messages"}
  MaxRetries = 1
  MaxTurns = 3
  MaxAsks = 4
  MaxResumes = 1

SPECIFICATION Spec

INVARIANTS
  TypeOK
  ToolLinks
  GivesUpForCause

PROPERTIES
  ResumeContinues
  RequestEnds

CHECK_DEADLOCK FALSE
