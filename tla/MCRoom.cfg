SPECIFICATION FairSpec
CONSTANTS
  p1 = p1
  p2 = p2
  p3 = p3
  Players <- TwoPlayers
  NoTask = notask
  MaxRequests = 2
INVARIANTS TypeOK RoomExact
PROPERTIES TasksInOrder EventuallyGone EventuallyEntered
