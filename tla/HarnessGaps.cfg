SPECIFICATION Spec
CONSTANTS
  MaxOps = 1
  MaxTurns = 1
  MaxMessages = 1
  MaxWrites = 2
  MaxFaults = 0
  WriteTypes = {"config", "note"}
  QueueMode = "all"
  Structural = TRUE
  Overlap = FALSE
\* None of them holds; take out the one TLC reports to see the next.
INVARIANTS WritesInCallOrder AbortReachesRun PendingWritesPersisted
\* The application may leave the system idle for ever.
CHECK_DEADLOCK FALSE
