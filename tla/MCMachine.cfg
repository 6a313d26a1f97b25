SPECIFICATION MachineSpec
CONSTANTS
  d1 = d1
  d2 = d2
  Daemon = {d1, d2}
  Scenes <- MCScenes
  None = None
  ResolveRetries = 1
  Doublings = 1
  Channels = 2
  ReadSize = {2, 3}
  Bound = 1
  PromptLen = 2
  MaxRead = 3
  MaxStep = 2
  HopMs = 2
  HopLen = 2
  ReadLen = {1, 3}
  WaitKind <- MCWait
  Forever = 1000
  FrameRate = 2
  TrueRate = {1, 2, 4}
  Settle = 1
  ReportMin = 2
  ShareDen = 4
  Measure = 6
  ToleranceDen = 3
  SilentMin = 2
  SilentWarnAfter = 3
  Buffer = 1
  MaxTick = 8
  RatePair <- MCPairs
  Taps = 3
  ChunkLen = {0, 1, 2, 4}
  MaxInput = 9
  Folder <- MCFolder
  Abroad <- MCAbroad
  Base <- MCBase
  Yaml <- MCYaml
  HiddenDir = {".h"}
  Number = {1, 2}
  Setup <- MCSetup
  RealKey = {"k1", "2"}
  NumberKey = {"2"}
  YamlName = {"config.yaml", "job.yaml", "job2.yaml"}
  Archive <- MCArchive
  MaxImport = 2
  MaxEdit = 1
  MaxSecond = 1
  Machine <- MCHosts
  Imported <- MCImported
  Installed0 <- MCTools
  BrewDir = "brew"
  NgRank = 3
INVARIANTS AlwaysTrying OneTimeline TurnsAreClean TurnsRight
  CaptureTold ChunkingIrrelevant BundleTravels ImportKeeps CommandsFit
PROPERTIES AppFindsItsDaemon AudioReturns NothingOverwritten
CHECK_DEADLOCK FALSE
