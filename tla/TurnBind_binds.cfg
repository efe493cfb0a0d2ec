SPECIFICATION BindFairSpec
CONSTANTS
  Addresses <- MCAddresses
  Channels <- MCChannels
  NumBinds = 2
  MaxRotate = 1
INVARIANTS OneBindingPerCall ReportedBound AddressHonoured
PROPERTY BindEnds
CHECK_DEADLOCK FALSE
