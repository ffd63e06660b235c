CONSTANTS
  Paths = {"p"}
  Answers = {"a"}
  Specialists <- MCSpecialists
  Blocked = {"write_file"}
  Injected <- MCInjected
  Concurrency = 2
  MaxSpecialists = 3
  MaxObserved = 1
  MaxRuns = 1

SPECIFICATION Spec

INVARIANTS
  EvidenceIsOwn
  VerifiedIsFinal
  ConversationsSeparate

PROPERTIES
  PublishKeeps
  RunEnds

CHECK_DEADLOCK FALSE
