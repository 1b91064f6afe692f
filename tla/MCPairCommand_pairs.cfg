CONSTANTS
  n1 = n1  n2 = n2
  p1 = p1  p2 = p2
  i1 = i1  i2 = i2  i3 = i3  i4 = i4
  None = None
  OldKey = OldKey
  Other = Other
  Blank = Blank
  Names <- TwoNames
  Commands <- TwoCommands
  Scripts <- SingleOps
  AuthNames <- NoNames
  Inodes <- FourInodes
  FirstFiles <- SomeFiles
SPECIFICATION FairPairSpec
CHECK_DEADLOCK FALSE
INVARIANTS PairTypeOK DoneUnderStoreKey
PROPERTIES StoreKeyKept OtherLinesKept NoLostUpdate PairsEnd
