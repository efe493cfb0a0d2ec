SPECIFICATION RecvSpec
CONSTANTS
  Methods <- MCMethods
  MaxCycle = 1
  NumTx = 2
  QueueCap = 2
  MaxLoss = 2
  MaxNoise = 1
  Messages <- MCMessages
  Peek = 20
  Mod = 32
  MaxSent = 2
INVARIANTS RetransmissionBound NeverWaits Framed GivesUpOnPiece
PROPERTIES ImplementsExchange Returns
CHECK_DEADLOCK FALSE
