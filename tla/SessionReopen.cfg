SPECIFICATION Spec
CONSTANTS
  Writers = {1}
  Concurrent = FALSE
  MaxEntries = 4
  MaxCrashes = 2
  MaxFaults = 1
  MaxTears = 0
INVARIANTS MemoryIsFile BranchesHold
PROPERTY ImplementsTree
\* The application may leave the session alone for ever.
CHECK_DEADLOCK FALSE
