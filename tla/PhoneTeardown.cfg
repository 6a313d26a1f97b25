SPECIFICATION Spec
CONSTANTS
  d1 = d1
  c1 = c1
  c2 = c2
  h1 = h1
  h2 = h2
  Device = {d1}
  Conn = {1, 2}
  DeviceOf <- MCDeviceOf
  HangupOf <- MCHangupOf
  Fire = {h1, h2}
  MaxInstance = 1
  MaxBeat = 0
  Command = {}
  QueueCap = 1
  WireCap = 1
  NoConn = NoConn
PROPERTIES TeardownSparesNewer
CHECK_DEADLOCK FALSE
