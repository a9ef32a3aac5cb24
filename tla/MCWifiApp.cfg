\* Two connections in a row, or a reboot and one connection.  The events of
\* the bound may end in a state without tasks: there is no deadlock check.
SPECIFICATION FairSpec
CONSTANTS
  MaxEvents = 6
  MaxReboots = 1
  Variants <- MCVariants
INVARIANTS
  TypeOK
  ExclusiveUnlessRobbed
  MutexComesBack
  BitIsCurrent
PROPERTIES
  TasksEnter
CHECK_DEADLOCK FALSE
