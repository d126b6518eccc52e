SPECIFICATION AuthSpec
CONSTANTS
  k1 = k1
  k2 = k2
  k3 = k3
  p1 = p1
  p2 = p2
  Procs = {p1, p2}
  Calls = {k1, k3}
  Home <- TwoHomes
  Providers = {v, w}
  NoCall = NoCall
  MaxOrders = 2
  MaxRotations = 2
  MaxFaults = 1
\* None of them holds; take out the one TLC reports to see the next.
INVARIANTS FirstLoginsKept StartedKnowsLogins MemoryWasSaved
CHECK_DEADLOCK FALSE
