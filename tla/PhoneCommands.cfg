SPECIFICATION FairSpec
CONSTANTS
  d1 = d1
  c1 = c1
  c2 = c2
  h1 = h1
  h2 = h2
  Device = {d1}
  Conn = {1}
  DeviceOf <- MCDeviceOf
  HangupOf <- MCHangupOf
  Fire = {h1}
  MaxInstance = 1
  MaxBeat = 1
  Command = {c1, c2}
  QueueCap = 1
  WireCap = 1
  NoConn = NoConn
PROPERTIES HubSpec CallReturns
CHECK_DEADLOCK FALSE
