SPECIFICATION FairSpec
CONSTANTS
  w1 = w1
  w2 = w2
  Workers <- MCWorkers
  Accept = accept
  Loop = loop
  NoOne = noone
  MaxSendQueue = 2
  MaxMessages = 3
INVARIANTS TypeOK RefCountExact WorkersNeverTouchFreed DisconnectedOnce NoDanglingPointer OneSendInFlight OneReceiver NoStrandedMessage
PROPERTIES ImplementsOutbox EventuallyFreed EventuallySent
