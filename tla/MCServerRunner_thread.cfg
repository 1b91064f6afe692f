CONSTANTS
  None = None
  LoopOf <- ThreadStarts
SPECIFICATION Spec
CHECK_DEADLOCK FALSE
PROPERTIES DrainAwaitsServer
