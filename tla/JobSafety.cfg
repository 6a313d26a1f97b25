SPECIFICATION Spec
CONSTANTS
  d1 = d1
  k1 = k1
  j1 = j1
  j2 = j2
  Device = {d1}
  Conn = {1, 2}
  DeviceOf <- MCDeviceOf
  NoConn = NoConn
  Call = {k1}
  PhoneOf <- MCPhoneOf
  NoCall = NoCall
  AutoAnswer = {"none", "job"}
  Asker = {j1, j2}
  JobsRun = TRUE
  QueueCap = 1
  MaxProcess = 2
  MaxBlip = 0
  MaxCrash = 0
  Job = {j1, j2}
  NoDev = NoDev
  Script <- MCShort
INVARIANTS CardHeld CancelledOnPurpose
SYMMETRY Symmetry
CONSTRAINT JobThenCall
CHECK_DEADLOCK FALSE
