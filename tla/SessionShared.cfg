SPECIFICATION Spec
CONSTANTS
  Writers = {1, 2}
  Concurrent = TRUE
  MaxEntries = 4
  MaxCrashes = 1
  MaxFaults = 1
  MaxTears = 1
INVARIANTS NothingLostSilently TreeIsSound
\* The application may leave the session alone for ever.
CHECK_DEADLOCK FALSE
