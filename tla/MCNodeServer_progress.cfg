CONSTANTS
  n1 = n1  n2 = n2
  s1 = s1  s2 = s2  s3 = s3
  c1 = c1  c2 = c2
  None = None
  Nodes <- OneNode
  Sessions <- TwoSessions
  Calls <- OneCall
  EnvCalls <- NoCalls
  CliNodes <- OneNode
SPECIFICATION FairSpec
CHECK_DEADLOCK FALSE
PROPERTIES CallsEnd DeadSessionLeaves SilentNodeSwept
