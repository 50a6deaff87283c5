CONSTANTS
  t1 = t1
  t2 = t2
  Threads <- MCThreads
  Limit <- MCLimit
  MaxOptions <- MCMaxOptions
SPECIFICATION Spec
SYMMETRY MCSymmetry
INVARIANTS
  HeldAreOpen
  OnlyKnownLeaks
  AsPromised
CHECK_DEADLOCK FALSE
