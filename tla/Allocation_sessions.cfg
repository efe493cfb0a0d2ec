SPECIFICATION FairSpec
CONSTANTS
  MaxAttempts = 4
  UseTcp = FALSE
  NoRtcp = FALSE
  Nonces <- MCNonces
  NumSessions = 2
  MaxFault = 1
INVARIANTS RequestBudget GrantedOnReturn DescriptorsAccounted TokenReady
PROPERTY SessionEnds
