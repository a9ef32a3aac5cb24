\* Seventeen bytes in pieces of any size up to the longest packet.  The stream
\* ends, and what follows is only timeouts.
SPECIFICATION ReadSpec
CONSTANTS
  Radix = 2
  BufferLength = 9
  Lengths <- MCLengths
INVARIANTS
  TypeOK
  BytesInOrder
  PolledExactly
PROPERTIES
  PacketsExact
