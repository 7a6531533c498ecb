CONSTANTS
  Keys = {a, b, c}
  NoAuthor = nobody
  Stamps = {0}
  LoginStamps = {1, 2}
  RequestStamps = {0}
  Epochs = {0}
  Passwords = {none, adm, bad}
  NoPassword = none
  adm = adm
  Ids = {1}
  MaxTime = 3
  MaxSeq = 1
  MaxPosts = 1
  MaxClients = 2
  MaxLoginFailures = 2
  MaxLoginAttempts = 2
  LoginLockout = 2
  RetryDelay = 1
  ClockWindow = 1
  KeepsBoard = TRUE
  FirstConfig <- LoginConfig
SYMMETRY Symmetry
SPECIFICATION LoginSpec
INVARIANTS TypeOK TablesConsistent
PROPERTIES AdminKept LockoutKept
