SPECIFICATION Spec
CONSTANTS
  a = a
  b = b
  c = c
  Starters <- MCStarters
  PeerStarters <- MCPeers
INVARIANTS SequentialStartsSafe BindableAfterStarts
CHECK_DEADLOCK FALSE
