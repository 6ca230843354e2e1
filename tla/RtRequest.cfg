SPECIFICATION EndingSpec
CONSTANTS
  MaxOutput = 2
  MaxPieces = 4
  PairCapacity = 2
  ClientCapacity = 2
INVARIANTS IInv WholeOutput
PROPERTIES NoEarlyGiveUp KeepsReply RequestEnds
CHECK_DEADLOCK FALSE
