CONSTANTS
  None = None
  LoopOf <- OneLoop
SPECIFICATION FairSpec
CHECK_DEADLOCK FALSE
INVARIANTS TypeOK NoOrphan SweepStopsToo
PROPERTIES HooksEnd
