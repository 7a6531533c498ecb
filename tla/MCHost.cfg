CONSTANTS
  old = old
  new = new
  Settings <- Operators
  Names = {old, new}
  Hops = {3}
  reply = reply
  returned = returned
  rebooting = rebooting
  MaxHopCount = 3
  AdvertEvery = 3
  FlushEvery = 2
  ReportEvery = 2
  RebootDelay = 3
  Second = 2
  Capacity = 3
  Depth = 2
  Percent = 50
  Window = 4
  Grace = 1
  MaxTime = 10
  MaxSends = 20
  LastInput = 3
  MaxInputs = 2
  MaxFaults = 2
SPECIFICATION Spec
INVARIANTS HostTypeOK SettingsDurable ExitMeansSaved EventsAccounted
PROPERTIES ReplyFirst RenameSpreads HearsAgain
CHECK_DEADLOCK FALSE
