SPECIFICATION Spec
CONSTANTS
  ToolExecution = "parallel"
  QueueModes <- BothModes
  StopsAfterTurn = FALSE
  MaxMessages = 2
  MaxRuns = 2
  MaxCalls = 0
  MaxCallsPerTurn = 0
  MaxResets = 1
  MaxFaults = 1
INVARIANT
  MessagesInPlace
PROPERTY
  ImplementsMailbox
\* The application may leave the agent idle for ever.
CHECK_DEADLOCK FALSE
