SPECIFICATION Spec
CONSTANTS
  MaxOps = 2
  MaxTurns = 2
  MaxMessages = 2
  MaxWrites = 2
  MaxFaults = 0
  WriteTypes = {"config", "note"}
  QueueMode = "one-at-a-time"
  Structural = FALSE
  Overlap = FALSE
INVARIANTS WritesReachTheirPlace RequestSeesSession
\* The application may leave the system idle for ever.
CHECK_DEADLOCK FALSE
