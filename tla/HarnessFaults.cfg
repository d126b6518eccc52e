SPECIFICATION FairSpec
CONSTANTS
  MaxOps = 2
  MaxTurns = 1
  MaxMessages = 2
  MaxWrites = 2
  MaxFaults = 1
  WriteTypes = {"note"}
  QueueMode = "one-at-a-time"
  Structural = TRUE
  Overlap = FALSE
INVARIANTS WritesInOrderOnce UserMessagesKept
PROPERTIES OpsSettle
\* The application may leave the system idle for ever.
CHECK_DEADLOCK FALSE
