CONSTANTS
  n1 = n1
  p1 = p1  p2 = p2  p3 = p3
  i1 = i1  i2 = i2  i3 = i3  i4 = i4  i5 = i5
  None = None
  Names <- OneName
  Commands <- ThreeCommands
  Scripts <- AllScripts
  AuthNames <- OneName
  Inodes <- FiveInodes
SPECIFICATION Spec
CHECK_DEADLOCK FALSE
SYMMETRY StoreSymmetry
INVARIANTS TypeOK OneLiveToken
PROPERTIES DeletedReturnsByRace
