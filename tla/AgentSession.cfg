SPECIFICATION PartsSpec
CONSTANTS
  Prompters = {p1, p2}
  Waiters = {"user", "compact"}
  Contents = {"text"}
  Replies = {"full", "tools", "error", "fatal", "overflow", "length", "aborted"}
  Mode = "one-at-a-time"
  MaxRetries = 1
  MaxMessages = 2
  MaxReplies = 2
  MaxCompactions = 1
  MaxEntries = 6
  MaxKeep = 3
SYMMETRY Symmetry
INVARIANTS ContextIsSession ToolPairs QueuesAreShown IdleMeansDone
  CutIsSound NothingElseForgotten
\* Nobody need call the session again, and a branch has a last entry.
CHECK_DEADLOCK FALSE
