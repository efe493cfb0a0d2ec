SPECIFICATION FairSpec
CONSTANTS
  Modes <- MCAllModes
  Types <- MCAllTypes
  MaxMsgs = 2
  MaxPresses = 2
  MaxData = 1
  Threads = 2
INVARIANTS TypeOK NewestKept Superseded ThreadsRemain
PROPERTY HandlersFinish
CHECK_DEADLOCK FALSE
