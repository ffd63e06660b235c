CONSTANTS
  Clients = 2
  Threads = {"t1", "t2"}
  MaxCalls = 2
  MaxNoise = 1
  MaxExecutes = 1
  MaxWrites = 2
  MaxTools = 2

SPECIFICATION Spec

INVARIANTS
  AnswersAreOwn
  ServersAreAttached
  TimeoutEndsTheGroup
  FileIsOneWrite

PROPERTIES
  SessionEnds
  ExecuteEnds

CHECK_DEADLOCK FALSE
