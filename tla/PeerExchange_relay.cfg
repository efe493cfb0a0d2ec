SPECIFICATION Spec
CONSTANTS
  Modes <- MCRelay
  Types <- MCPairTypes
  MaxMsgs = 2
  MaxPresses = 1
  MaxData = 1
  Threads = 2
INVARIANT SendsToReceived
CHECK_DEADLOCK FALSE
