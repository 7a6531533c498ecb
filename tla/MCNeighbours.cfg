SPECIFICATION PartSpec
CONSTANTS
  p1 = p1
  p2 = p2
  p3 = p3
  Keys = {p1, p2, p3}
  Self = self
  Strangers = {s}
  Degenerate = {s}
  Hash <- FirstBytes
  Stamps = {1, 2}
  Hops = {0, 1}
  Walls = {1}
  MaxContacts = 2
  MaxSecrets = 2
  MaxCalls = 6
  MaxUnsynced = 1
  Torn = torn
  Absent = absent
  n1 = n1
  n2 = n2
  n3 = n3
  Nodes = {n1, n2, n3}
  Direct = direct
  Blocked = {n3}
  FloodPerMinute = 1
  DutyCeiling = 80
  Loads = {79, 80}
  RateWindow = 2
  MaxHopCount = 3
  Packets <- Heard
  MaxTime = 3
  MaxAsked = 3
INVARIANT FirstHandIsNeighbour
CHECK_DEADLOCK FALSE
