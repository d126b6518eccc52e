SPECIFICATION FairSpec
CONSTANTS
  ToolExecution = "parallel"
  QueueModes = {"one-at-a-time"}
  StopsAfterTurn = TRUE
  MaxMessages = 1
  MaxRuns = 2
  MaxCalls = 2
  MaxCallsPerTurn = 2
  MaxResets = 0
  MaxFaults = 2
INVARIANTS IdleIsClean PendingCallsAreOpen TurnsAreWhole HealthyAgentEndIsFinal
PROPERTY
  RunSettles
\* The application may leave the agent idle for ever.
CHECK_DEADLOCK FALSE
