SPECIFICATION Spec
CONSTANTS
  MaxEvents = 6
  MaxReboots = 0
  Variants <- MCServer
INVARIANTS
  SectionsExclusive
CHECK_DEADLOCK FALSE
