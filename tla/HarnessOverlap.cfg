SPECIFICATION Spec
CONSTANTS
  MaxOps = 2
  MaxTurns = 1
  MaxMessages = 2
  MaxWrites = 1
  MaxFaults = 1
  WriteTypes = {"config", "note"}
  QueueMode = "all"
  Structural = FALSE
  Overlap = TRUE
\* None of them holds; take out the one TLC reports to see the next.
INVARIANTS PhaseCoversRun IdleWaitCoversRun WritesInOrderOnce NextTurnNeverLost
\* The application may leave the system idle for ever.
CHECK_DEADLOCK FALSE
