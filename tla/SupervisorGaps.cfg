SPECIFICATION FairSpec
CONSTANTS
  Instances = {i1}
  Callers = {c1}
  Main = Main
  Radius = TRUE
  NotFoundThreshold = 2
  MaxFaults = 1
  MaxForgets = 0
  MaxCrashes = 0
\* None of them holds; take out the one TLC reports to see the next.
INVARIANTS NoOrphansAtAll NoZombieHeartbeat NothingLeftRunning
PROPERTY SignalEnds
\* A system that has shut down stays so.
CHECK_DEADLOCK FALSE
