SPECIFICATION Spec
CONSTANTS
  CellSize = 4000
  CellWord = 65536
  Solid <- MCSolid
  Ladder <- MCLadder
  Floating <- MCFloating
  LadderSpots <- MCSpots
  Dts = {4, 20}
  MaxX = 2000
INVARIANTS TypeOK  RiseBounded
PROPERTIES NoFallThrough AlwaysComesDown
