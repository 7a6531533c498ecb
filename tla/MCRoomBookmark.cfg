CONSTANTS
  Keys = {a}
  NoAuthor = nobody
  Stamps = {0, 1}
  LoginStamps = {1}
  RequestStamps = {0}
  Epochs = {0}
  Passwords = {none, adm}
  NoPassword = none
  adm = adm
  Ids = {1, 2}
  MaxTime = 1
  MaxSeq = 3
  MaxPosts = 2
  MaxClients = 1
  MaxLoginFailures = 1
  MaxLoginAttempts = 1
  LoginLockout = 1
  RetryDelay = 1
  ClockWindow = 0
  KeepsBoard = TRUE
  FirstConfig <- OpenConfig
SPECIFICATION SyncSpec
INVARIANTS BookmarkRoundTrip
