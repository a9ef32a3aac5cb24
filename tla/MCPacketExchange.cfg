\* All kinds of packets, with lengths of one to four digits, in buffers of
\* exactly their size, of one byte more or less, and with room to spare.
SPECIFICATION Spec
CONSTANTS
  Radix = 4
  Capacity = 80
  ConnectOptions <- MCConnectOptions
  Publishes <- MCPublishes
  Subscribes <- MCSubscribes
  Unsubscribes <- MCUnsubscribes
  Sizes <- MCSizes
  Stale <- MCStale
INVARIANTS
  LengthsAgree
  RefusedOnlyWhenFull
  RequestUnderstood
  AnswerUnderstood
