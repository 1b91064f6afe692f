CONSTANTS
  n1 = n1  n2 = n2
  Nodes <- TwoNodes
  MaxCalls = 2
  Window = 2
  Horizon = 6
SPECIFICATION Spec
SYMMETRY NodeSymmetry
INVARIANTS TypeOK CapPerWindow RefusedOnlyOverCap WindowIsRecentTail
