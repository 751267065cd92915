SPECIFICATION Spec
CONSTANTS
  w1 = w1
  w2 = w2
  Workers <- MCWorkers
  Accept = accept
  Loop = loop
  NoOne = noone
  MaxSendQueue = 2
  MaxMessages = 3
PROPERTIES SetSessionOnLoopOnly
