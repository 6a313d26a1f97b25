SPECIFICATION Spec
CONSTANTS
  d1 = d1
  k1 = k1
  j1 = j1
  j2 = j2
  Device = {d1}
  Conn = {1, 2}
  DeviceOf <- MCDeviceOf
  NoConn = NoConn
  Call = {k1}
  PhoneOf <- MCPhoneOf
  NoCall = NoCall
  AutoAnswer = {"none"}
  Asker = {j1}
  JobsRun = TRUE
  QueueCap = 1
  MaxProcess = 1
  MaxBlip = 1
  MaxCrash = 0
  Job = {j1}
  NoDev = NoDev
  Script <- MCScript
INVARIANTS EndedMeansEnded
CHECK_DEADLOCK FALSE
