CONSTANTS
  n1 = n1
  s1 = s1  s2 = s2
  t1 = t1
  None = None
  Nodes <- OneNode
  Sessions <- TwoSessions
  Tools <- OneTool
  MaxRetries = 1
  Timeouts <- ShortTimeout
  ExitCodes <- Zero
  Slack = 1
  ToolDefault = 3
  EndpointDefault = 2
  Backoff = 2
  BackoffCap = 1
SPECIFICATION FairSpec
CHECK_DEADLOCK FALSE
INVARIANTS TypeOK RepeatedOnlyIfUnreachable RerunOnOtherSession ReportHasGrounds
PROPERTIES ToolsEnd
