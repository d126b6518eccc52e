SPECIFICATION CockpitSpec
CONSTANTS
  MaxInputs = 2
  MaxUpdates = 1
\* None of them holds; take out the one TLC reports to see the next.
INVARIANTS DeletedStaysDeleted ViewAlwaysSettles
\* The user may leave the thread alone for ever.
CHECK_DEADLOCK FALSE
