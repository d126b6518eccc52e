SPECIFICATION Spec
CONSTANTS
  MaxCalls = 2
  ToolExecution = "parallel"
  QueueModes = {"one-at-a-time"}
  StopsAfterTurn = FALSE
  MaxMessages = 1
  MaxRuns = 2
  MaxCallsPerTurn = 2
  MaxResets = 0
  MaxFaults = 1
INVARIANT
  AgentEndIsFinal
\* The application may leave the agent idle for ever.
CHECK_DEADLOCK FALSE
