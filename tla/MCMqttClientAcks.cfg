SPECIFICATION Spec
CONSTANTS
  MaxPacketId = 3
  MaxCalls = 3
  MaxInbound = 0
  MaxConnections = 1
  MaxPings = 0
  Qos <- MCAtLeastOnce
INVARIANTS
  PublishConfirmed
CHECK_DEADLOCK FALSE
