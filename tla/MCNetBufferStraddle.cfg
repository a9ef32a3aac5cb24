SPECIFICATION ReadSpec
CONSTANTS
  Radix = 2
  BufferLength = 9
  Lengths <- MCLengths
INVARIANTS
  ReadsStream
