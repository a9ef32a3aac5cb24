\* Two retries stand for 10 and 100, three iterations for a million, two devices
\* on the bus for three.  In the variant "bridge" the publishing task has no step
\* left that changes anything once its connection is lost: no deadlock check.
SPECIFICATION FairSpec
CONSTANTS
  ConnectRetries = 2
  LoopLength = 3
  SpiDevices = 2
  Nothing = Nothing
  Garbage = Garbage
  Unset = Unset
  Untouched = Untouched
  Angles <- MCAngles
  Distances <- MCDistances
INVARIANTS
  TypeOK
  OneLink
  ConnectedMeansOpen
PROPERTIES
  LinkReturns
  PublishedIsMeasured
  DataFlows
CHECK_DEADLOCK FALSE
