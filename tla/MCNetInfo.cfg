CONSTANTS
  Sockets = {s1, s2}
  MaxPid = 3
  PathLen <- MCPathLen
  MaxEvents = 2
  MaxFailures = 1
SPECIFICATION Spec
SYMMETRY MCSymmetry
INVARIANTS
  FoundIsOwner
  MissesNoOwner
  PathBegins
  OnlyHeaderLeaks
CHECK_DEADLOCK FALSE
