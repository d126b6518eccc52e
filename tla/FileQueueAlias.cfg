SPECIFICATION FileSpec
CONSTANTS
  Ops = {o1, o2}
  a = a
  b = b
  Paths = {a, b}
  RealPath <- Linked
  NoOp = NoOp
INVARIANTS OneRunsPerFile
\* The tools may never be called again.
CHECK_DEADLOCK FALSE
