SPECIFICATION CacheSpec
CONSTANTS
  Paths <- MCPaths
  Files <- MCFiles
  Resolve <- MCResolve
  Threads <- MCThreads
  Stamps = {tick1_short, tick2_short, tick2_long}
  MaxEdits = 2
INVARIANTS
  CacheTypeOK
  ReadsAreFresh
  OwnWritesAreSeen
CHECK_DEADLOCK FALSE
