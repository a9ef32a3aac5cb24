\* The queue has the length of a frame, as in the code; two frames fill it
\* twice; one event replaces the handles at any point.
SPECIFICATION FairSpec
CONSTANTS
  QueueLength = 3
  MaxEvents = 1
  ConnectRetries = 1
  MaxFrames = 2
  Frames <- MCAnyFrames
INVARIANTS
  TypeOK
  ReadingsAligned
  ReadingsWhole
PROPERTIES
  NeverOlder
  CallbackRuns
  QueueDrains
