SPECIFICATION Spec
CONSTANTS
  Limit = 128
  Words <- MCWords
  Lens = {5}
  Keys = {k1, k2}
  Datagrams = {}
  BodyWords = 0
INVARIANT IntegrityReported
CHECK_DEADLOCK FALSE
