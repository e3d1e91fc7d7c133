SPECIFICATION FairSpec
CONSTANTS
  Components = {"rojo", "modes", "lock", "reconcile", "routing", "broker", "play"}
  Projects = {p1}
  Ports = {1}
  Children = {ch1, ch2}
  NoChild = NoChild
  SignalDeaths = FALSE
  LateExits = TRUE
  Servers = {s1, s2}
  NoServer = NoServer
  Calls = {c1}
  Mutating = {c1}
  PluginStreams = FALSE
  Killable = {s1}
  Episodic = {s1}
  Writers = {w1, w2}
  NoWriter = NoWriter
  Updates = 2
  Mortal = {w1}
  Slow = {}
  Runs = {r1, r2}
  NoRun = NoRun
  HostOf <- OneHost
  MortalHosts = {host}
  host = host
  Permitted = {"install-toolchain", "resolve-wally-lock", "install-packages", "generate-sourcemap", "start-rojo"}
  Beginnings <- Unready
  MaxApplies = 1
  MaxChanges = 0
  e1 = e1
  e2 = e2
  d1 = d1
  d2 = d2
  Sessions = {e1, e2}
  Casts <- Moving
  PlaceIds = {p}
  Unpublished = Unpublished
  Requests = {}
  NoSession = NoSession
  Launches = {l1}
  Manual = {}
  NoStudio = NoStudio
  InstanceOf <- Own
  NoInstance = NoInstance
  TitleOf <- OneTitle
  Platform = "wsl"
  MaxCrashes = 1
  Players = {b1}
  MaxRestarts = 1
  Stops = {k1, k2}
  NoStop = NoStop
  MaxSessions = 2
  UserPlays = TRUE
PROPERTY
  AllAnswer
CHECK_DEADLOCK FALSE
