CONSTANTS
  NSIG = 3
  Uncatchable <- MCUncatchable
  Fatal <- MCFatalWithKill
  Handlers = {h1, h2}
  DFL = DFL
  IGN = IGN
  HandlerCalls <- MCHandlerCalls
  MaxDepth = 3
  MaxRaise = 1
SPECIFICATION FairSpec
PROPERTIES
  CallReturns
CHECK_DEADLOCK FALSE
