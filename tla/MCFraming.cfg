SPECIFICATION Spec
CONSTANTS
  Word = 8
  MaxPacketSize = 3
  RecvPostSize = 4
  ValidOpcodes = {1, 5}
  HandledOpcodes = {1}
  Messages <- MCMessages
  RawUnits = {1, 2, 3, 5}
  MaxUnits = 11
  MaxRawUnits = 7
INVARIANTS TypeOK  StreamBounded NothingInvented
PROPERTIES EventuallyDelivered
