SPECIFICATION Spec
CONSTANTS
  Prompters = {p1, p2}
  Waiters = {"user", "compact"}
  Contents = {"text"}
  Replies = {"full", "tools", "error", "fatal", "overflow", "length", "aborted"}
  Mode = "one-at-a-time"
  MaxRetries = 1
  MaxMessages = 2
  MaxReplies = 2
  MaxCompactions = 1
\* None of them holds; take out the one TLC reports to see the next.
INVARIANTS NoAttemptsLeft IdleMeansIdle EverythingIsHeard ContextIsNeverBehind
\* Nobody need call the session again.
CHECK_DEADLOCK FALSE
