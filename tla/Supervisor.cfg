SPECIFICATION FairSpec
CONSTANTS
  Instances = {i1}
  Callers = {c1}
  Main = Main
  Radius = TRUE
  NotFoundThreshold = 2
  MaxFaults = 1
  MaxForgets = 1
  MaxCrashes = 1
INVARIANTS NoOrphans RecordsAreTrue PresenceEnds
PROPERTIES CallersReturn ForgottenIsRegisteredAgain
\* A system that has shut down stays so.
CHECK_DEADLOCK FALSE
