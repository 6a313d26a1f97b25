SPECIFICATION ControlSpec
CONSTANTS
  n1 = n1
  n2 = n2
  answer = answer
  play = play
  serial1 = serial1
  serial2 = serial2
  serial3 = serial3
  Session = {s1, s2}
  Number = {n1, n2}
  Handler = {answer, play}
  BadHandler = BadHandler
  Silent = Silent
  NoMap = NoMap
  Config <- MCConfig
  EventCap = 1
  MaxEvent = 2
  Client = {r1, r2}
  SlotKind = {"mmi"}
  ListKind = {"sms", "sims"}
  NoReply = NoReply
  Codes <- MCCodes
  InboxCap = 1
  MaxPoll = 2
  MaxBreak = 1
  Port = {p1, p2}
  None = None
  AutoConnect = TRUE
  AdbFound = TRUE
  MaxRetry = 3
  MaxChange = 2
  Peer = {1}
  ForwardPort = {1, 2}
  InUse = {2}
  ShareKind <- MCShareKind
  MaxShare = 2
  Device = {serial1, serial2, serial3}
  Everything = Everything
  Nobody = Nobody
  ShareSettings <- MCSettings
  ShareRequests <- MCRequests
  DefaultBind <- MCDefaultBind
  MaxSpan = 3
  Daemon = {sys, usr}
  Root = {sys}
  Responder = {"dns-sd", "avahi-publish"}
  Words = {"down", "nothing"}
  MaxAdvert = 2
  Iface = {"lo", "wlan0", "wt0"}
  Lo = "lo"
  AnyIface = "any"
  Host <- MCFirewalls
  MdnsFault = {"install", "denied"}
INVARIANTS ControlTypeOK ServeRight StatusIsTrue AnswerIsNew PortIsOwn PolicyRight
  ReapRight AdvertRight FirewallRight
PROPERTIES SessionEnds GivesUpOnlyUnanswered AdbStatusSettles ClosesByItself
CHECK_DEADLOCK FALSE
