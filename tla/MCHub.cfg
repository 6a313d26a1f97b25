SPECIFICATION HubSpec
CONSTANTS
  d1 = d1
  s1 = s1
  s2 = s2
  c1 = c1
  c2 = c2
  Device = {d1}
  Conn = {s1, s2}
  DeviceOf <- MCDeviceOf
  Command = {c1, c2}
  Fire = {}
  QueueCap = 1
  WireCap = 1
  NoConn = NoConn
INVARIANTS WaiterInv
PROPERTY HubRefinesService
SYMMETRY Symm
CHECK_DEADLOCK FALSE
