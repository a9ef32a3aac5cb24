\* Two messages fill the queue while a third is being sent, so that sends
\* time out; two events replace the handles, the second while calls still
\* wait in what the first one replaced.
SPECIFICATION FairSpec
CONSTANTS
  QueueLength = 2
  MaxEvents = 2
  ConnectRetries = 1
  MaxMessages = 3
  Payloads <- MCPayloads
INVARIANTS
  TypeOK
  NoLeakedMutex
  NodesAreLatest
  PublishedNotTorn
  AppliedInOrder
PROPERTIES
  ImplementsChannel
  QueueDrains
  SubReconnects
