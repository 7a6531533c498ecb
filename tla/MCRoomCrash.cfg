CONSTANTS
  Keys = {a, b}
  NoAuthor = nobody
  Stamps = {0}
  LoginStamps = {1}
  RequestStamps = {0}
  Epochs = {0}
  Passwords = {none, adm}
  NoPassword = none
  adm = adm
  Ids = {i, j}
  MaxTime = 0
  MaxSeq = 4
  MaxPosts = 2
  MaxClients = 1
  MaxLoginFailures = 1
  MaxLoginAttempts = 1
  LoginLockout = 1
  RetryDelay = 0
  ClockWindow = 0
  KeepsBoard = TRUE
  FirstConfig <- OpenConfig
SYMMETRY Symmetry
SPECIFICATION CrashSpec
INVARIANTS SyncTypeOK BookmarksBehind BookmarkCovered PendingIsOpen
