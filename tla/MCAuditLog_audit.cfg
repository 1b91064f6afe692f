CONSTANTS
  Keep <- ThreeSlots
  Limit <- OneRow
  MaxRows = 6
  MaxFaults = 2
SPECIFICATION Spec
INVARIANTS TypeOK RowsInOrder RotatedAreFull RecentRowsKept
PROPERTIES RowsLeaveByAge
