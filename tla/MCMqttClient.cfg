\* Two connections; a packet id is used again after the second call.  A behaviour
\* ends when the calls of the bound are made: there is no deadlock check.
SPECIFICATION FairSpec
CONSTANTS
  MaxPacketId = 2
  MaxCalls = 3
  MaxInbound = 1
  MaxConnections = 2
  MaxPings = 2
  Qos <- MCAllQos
INVARIANTS
  TypeOK
  ConfirmedUnlessGaveUp
  AckedWasHandled
  PingsTracked
PROPERTIES
  CallsReturn
CHECK_DEADLOCK FALSE
