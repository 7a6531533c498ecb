CONSTANTS
  room = room
  rep = rep
  far = far
  client = client
  post = post
  login = login
  Nodes = {room, rep, far, client}
  Links <- Line
  Repeaters = {rep, far}
  Traffic <- Push
  Logins <- LogIn
  MaxTime = 2
  MaxSends = 1
  MaxPending = 1
  MaxRoutes = 1
  MaxAttempts = 2
  FloodAckTimeout = 1
  DirectAckBase = 1
  DirectAckPerHop = 0
  ForwardDelays = {0}
  SeenSlots = 2
  SeenTtl = 0
  MaxHops = 3
  MaxReadings = 1
SPECIFICATION MeshSpec
INVARIANTS TypeOK RoutesWork FloodsTrue TrackedOnce
CHECK_DEADLOCK FALSE
