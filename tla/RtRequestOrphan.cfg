SPECIFICATION Spec
CONSTANTS
  MaxOutput = 2
  MaxPieces = 4
  PairCapacity = 2
  ClientCapacity = 2
PROPERTIES GiveUpStopsCommand
CHECK_DEADLOCK FALSE
