CONSTANTS
  NSIG = 3
  Uncatchable = {}
  Fatal <- MCFatal
  Handlers = {h1}
  DFL = DFL
  IGN = IGN
  HandlerCalls <- MCHandlerCalls
  MaxDepth = 3
  MaxRaise = 2
SPECIFICATION Spec
INVARIANTS
  DelRestoresOriginal
CHECK_DEADLOCK FALSE
