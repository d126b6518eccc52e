SPECIFICATION FairSpec
CONSTANTS
  Prompters = {p1}
  Waiters = {"user", "compact"}
  Contents = {"text"}
  Replies = {"full", "tools", "error", "fatal", "overflow", "length", "aborted"}
  Mode = "one-at-a-time"
  MaxRetries = 1
  MaxMessages = 2
  MaxReplies = 1
  MaxCompactions = 1
PROPERTIES WaitersReturn
\* Nobody need call the session again.
CHECK_DEADLOCK FALSE
