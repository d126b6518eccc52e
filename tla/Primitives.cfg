SPECIFICATION PartsSpec
CONSTANTS
  Consumers = {c1, c2}
  MaxEvents = 3
  ResponseEvents = 5
  Ops = {o1, o2, o3}
  a = a
  b = b
  Paths = {a, b}
  RealPath <- Linked
  NoOp = NoOp
  k1 = k1
  k2 = k2
  k3 = k3
  p1 = p1
  p2 = p2
  Procs = {p1, p2}
  Calls = {k1, k3}
  Home <- TwoHomes
  Providers = {v, w}
  NoCall = NoCall
  MaxOrders = 2
  MaxRotations = 2
  MaxFaults = 1
INVARIANTS StreamInv MessageIsTheFinalOne IInv RefreshedOnce StoreKeepsLogins
PROPERTIES IteratorsReturn RequestSettles CallsReturn
\* Streams stay open, a response ends, the tools may never be called again,
\* nor the credentials used.
CHECK_DEADLOCK FALSE
