SPECIFICATION MqttFairSpec
CONSTANTS
  MaxDrops = 3
  MaxFails = 2
  MaxOutages = 2
INVARIANTS NeverStranded ChainsBounded SubscribedOrMissed
PROPERTY ComesUp
CHECK_DEADLOCK FALSE
