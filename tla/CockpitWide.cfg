SPECIFICATION CockpitSpec
CONSTANTS
  MaxInputs = 3
  MaxUpdates = 0
INVARIANTS CockpitTypeOK OneSession ViewSettles
\* The user may leave the thread alone for ever.
CHECK_DEADLOCK FALSE
