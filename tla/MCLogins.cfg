CONSTANTS
  Ttys <- MCTtys
  MaxTime = 2
  MaxRecords = 4
  MaxFailures = 1
SPECIFICATION FairSpec
INVARIANTS
  MemorySafe
  OnlyUnmatchedLeak
  FirstFreeLogout
  SessionsReported
PROPERTIES
  Returns
CHECK_DEADLOCK FALSE
