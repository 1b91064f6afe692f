CONSTANTS
  n1 = n1  n2 = n2
  s1 = s1  s2 = s2  s3 = s3
  c1 = c1  c2 = c2
  None = None
  Nodes <- TwoNodes
  Sessions <- TwoSessions
  Calls <- TwoCalls
  EnvCalls <- OneCall
  CliNodes <- NoNodes
SPECIFICATION Spec
CHECK_DEADLOCK FALSE
SYMMETRY ServerSymmetry
INVARIANTS TypeOK WaitersOfHolder PendingOnHolder WaiterHasOwner
PROPERTIES LostOnlyWithSession AnsweredUnderName
