SPECIFICATION CockpitFairSpec
CONSTANTS
  MaxInputs = 2
  MaxUpdates = 1
INVARIANTS OneSession ViewSettles
PROPERTY SpinnerStops
\* The user may leave the thread alone for ever.
CHECK_DEADLOCK FALSE
