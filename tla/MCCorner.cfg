SPECIFICATION Spec
CONSTANTS
  CellSize = 4000
  CellWord = 65536
  Solid <- MCSolid
  Ladder <- MCLadder
  Floating <- MCFloating
  LadderSpots <- MCSpots
  Dts = {4}
  MaxX = 2000
INVARIANTS NeverInSolid
