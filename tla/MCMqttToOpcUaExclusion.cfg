SPECIFICATION Spec
CONSTANTS
  QueueLength = 3
  MaxEvents = 0
  ConnectRetries = 2
  MaxMessages = 3
  Payloads <- MCWholePayloads
INVARIANTS
  MutualExclusion
