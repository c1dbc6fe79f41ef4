SPECIFICATION Spec
CONSTANTS
  Launches = {l1}
  Files = {f1, f2}
  Versions = {v1, v2}
  Blocks = 2
  NetFaults = {"nosums", "altered"}
  Concurrent = FALSE
  UnlinkOpen = TRUE
  NoFile = NoFile
  Hole = Hole
  Altered = Altered
  QmpCommands = {"system_powerdown", "quit"}
  MaxUnread = 3
  SshOps <- AllSshOps
  NetVMs = {a, b}
  NetPorts = {x1, x2, x3}
  NoPort = NoPort
  Stranger = Stranger
  Setters = {s1, s2}
  Keys = {"cpus", "qemupath"}
  TextKeys = {"qemupath"}
  Values = {"v1", "v2"}
  BadValue = "bad"
  DefaultOf <- Defaults
  Unset = "unset"
  KeyPairs = {k1, k2}
  HostProxies <- SomeProxies
  DocumentSizes = {1, 1048577}
  Nobody = Nobody
  VMNames = {n1, n2, n3}
  NoName = NoName
  Paths <- SmallTree
  GivenDirs = {"given"}
  NoPlace = "nowhere"
  HostOS = "windows"
INVARIANT ServicesTypeOK
INVARIANT CachedIsWhole
PROPERTY BackingNeverChanges
INVARIANT OkMeansDone
PROPERTY ExchangeEnds
INVARIANT StatusIsTheCommands
INVARIANT TerminalRestored
PROPERTY WaitForSSHEnds
PROPERTY CancelledEnds
PROPERTY AsksOwnQemu
INVARIANT BlockedByOthers
PROPERTY SetsOneKey
 
INVARIANT GuestReachesProxy
INVARIANT BypassesLocal
INVARIANT ImageFits
PROPERTY NeverPicks
INVARIANT CopyIsComplete
PROPERTY SetupIsHeeded
INVARIANT FallsBackToTCG
