SPECIFICATION TrackSpec
CONSTANTS
  d1 = d1
  k1 = k1
  k2 = k2
  cli = cli
  Device = {d1}
  Conn = {1, 2}
  DeviceOf <- MCDeviceOf
  NoConn = NoConn
  Call = {k1, k2}
  PhoneOf <- MCPhoneOf
  NoCall = NoCall
  AutoAnswer = {"none"}
  Asker = {}
  JobsRun = TRUE
  QueueCap = 0
  MaxProcess = 2
  MaxBlip = 0
  MaxCrash = 1
INVARIANTS ManualSpared
CONSTRAINT OneAfterTheOther
CHECK_DEADLOCK FALSE
