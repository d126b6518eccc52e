SPECIFICATION Spec
CONSTANTS
  Instances = {i1, i2}
  Callers = {c1}
  Main = Main
  Radius = TRUE
  NotFoundThreshold = 2
  MaxFaults = 0
  MaxForgets = 0
  MaxCrashes = 2
SYMMETRY Symmetry
INVARIANTS RegistrationsEnd
\* A system that has shut down stays so.
CHECK_DEADLOCK FALSE
