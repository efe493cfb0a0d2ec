SPECIFICATION FairSpec
CONSTANTS
  first = first
  second = second
  Threads <- MCThreads
  Ephemeral <- MCEphemeral
  MaxLoss = 1
  MaxNoise = 1
INVARIANTS PairsMatch NoLeak AnswerAhead
CONSTRAINTS FaultsAlone InOrder
PROPERTIES RunsEnd
CHECK_DEADLOCK FALSE
