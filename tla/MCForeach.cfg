CONSTANTS
  Kinds <- MCKinds
  CallAfterEnd <- MCCallAfterEnd
  MaxItems = 3
  MaxPasses = 3
SPECIFICATION Spec
INVARIANTS
  MemorySafe
  NothingLeaks
PROPERTIES
  ImplementsCursor
CHECK_DEADLOCK FALSE
