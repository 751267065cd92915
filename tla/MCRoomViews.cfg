SPECIFICATION Spec
CONSTANTS
  p1 = p1
  p2 = p2
  p3 = p3
  Players <- ThreePlayers
  NoTask = notask
  MaxRequests = 2
INVARIANTS ViewsComplete
PROPERTIES LeaveClearsViews
SYMMETRY Symmetry
