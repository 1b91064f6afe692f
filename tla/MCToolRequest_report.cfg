CONSTANTS
  n1 = n1
  s1 = s1  s2 = s2
  t1 = t1
  None = None
  Nodes <- OneNode
  Sessions <- TwoSessions
  Tools <- OneTool
  MaxRetries = 0
  Timeouts <- ShortTimeout
  ExitCodes <- ZeroAndOne
  Slack = 1
  ToolDefault = 4
  EndpointDefault = 4
  Backoff = 2
  BackoffCap = 3
SPECIFICATION Spec
CHECK_DEADLOCK FALSE
INVARIANTS ReportsExitCode
