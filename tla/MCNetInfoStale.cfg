CONSTANTS
  Sockets = {s1, s2}
  MaxPid = 3
  PathLen <- MCPathLen
  MaxEvents = 0
  MaxFailures = 0
SPECIFICATION Spec
INVARIANTS
  ReportedPidIsOwner
CHECK_DEADLOCK FALSE
