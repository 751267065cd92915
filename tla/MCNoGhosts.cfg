SPECIFICATION Spec
CONSTANTS
  p1 = p1
  p2 = p2
  p3 = p3
  Players <- TwoPlayers
  NoTask = notask
  MaxRequests = 1
INVARIANTS NoGhosts
