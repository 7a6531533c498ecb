CONSTANTS
  a = a
  b = b
  Starts <- Together
  hello = hello
  server = server
  Keys = {a, b}
  Home = {a}
  Texts = {hello}
  NoAuthor = nobody
  NoPassword = none
  MaxSeq = 4
  MaxPosts = 3
  MaxClients = 2
  RetryDelay = 1
  MaxSends = 12
  MaxPending = 1
  MaxRoutes = 2
  MaxAttempts = 2
  FloodAckTimeout = 1
  DirectAckBase = 1
  SeenSlots = 8
  SeenTtl = 4
  MaxTime = 8
  LastPost = 0
  MaxFaults = 1
SPECIFICATION Spec
INVARIANTS AnswerComing

CHECK_DEADLOCK FALSE
