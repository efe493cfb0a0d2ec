SPECIFICATION FairSpec
CONSTANTS
  Limit = 128
  Words <- MCWords
  Lens = {5}
  Keys = {k1, k2}
  Datagrams <- MCDatagrams
  BodyWords = 3
INVARIANTS LengthsAgree RoundTrip SealVerifies WalkInside
PROPERTY SearchEnds
CHECK_DEADLOCK FALSE
