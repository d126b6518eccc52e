SPECIFICATION Spec
CONSTANTS
  Prompters = {p1}
  Waiters = {"user", "compact"}
  Contents = {"text", "image"}
  Replies = {"full", "tools", "error", "fatal", "overflow", "length", "aborted"}
  Mode = "one-at-a-time"
  MaxRetries = 1
  MaxMessages = 2
  MaxReplies = 2
  MaxCompactions = 1
\* None of them holds; take out the one TLC reports to see the next.
INVARIANTS ContinueNeverThrows QueuesAreShown
\* Nobody need call the session again.
CHECK_DEADLOCK FALSE
