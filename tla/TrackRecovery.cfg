SPECIFICATION MCTrackSpec
CONSTANTS
  d1 = d1
  k1 = k1
  k2 = k2
  cli = cli
  Device = {d1}
  Conn = {1, 2, 3, 4}
  DeviceOf <- MCDeviceOf
  NoConn = NoConn
  Call = {k1}
  PhoneOf <- MCPhoneOf
  NoCall = NoCall
  AutoAnswer = {"none"}
  Asker = {cli}
  JobsRun = TRUE
  QueueCap = 1
  MaxProcess = 2
  MaxBlip = 1
  MaxCrash = 1
INVARIANT PendingOnDisk
PROPERTIES OrphanEnds CallKnown
CHECK_DEADLOCK FALSE
