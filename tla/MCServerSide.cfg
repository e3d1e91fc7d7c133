SPECIFICATION Spec
CONSTANTS
  Components = {"rojo", "modes", "lock", "reconcile", "routing", "studios", "broker", "play"}
  Projects = {p1, p2}
  Ports = {1}
  Children = {ch1, ch2}
  NoChild = NoChild
  SignalDeaths = FALSE
  LateExits = FALSE
  Servers = {s1, s2}
  NoServer = NoServer
  Calls = {c1, c2}
  Mutating = {c1}
  PluginStreams = FALSE
  Killable = {s1}
  Episodic = {s1}
  Writers = {w1, w2}
  NoWriter = NoWriter
  Updates = 3
  Mortal = {w1}
  Slow = {}
  Runs = {r1, r2}
  NoRun = NoRun
  HostOf <- OneHost
  MortalHosts = {host}
  host = host
  Permitted = {"install-toolchain", "resolve-wally-lock", "install-packages", "generate-sourcemap", "start-rojo"}
  Beginnings <- Unready
  MaxApplies = 1
  MaxChanges = 1
  e1 = e1
  e2 = e2
  d1 = d1
  d2 = d2
  Sessions = {e1, e2}
  Casts <- Pairs
  PlaceIds = {p}
  Unpublished = Unpublished
  Requests = {q1}
  NoSession = NoSession
  Launches = {l1}
  Manual = {h1, h2}
  NoStudio = NoStudio
  InstanceOf <- Own
  NoInstance = NoInstance
  TitleOf <- OneTitle
  Platform = "wsl"
  MaxCrashes = 1
  Players = {b1, b2}
  MaxRestarts = 1
  Stops = {k1, k2}
  NoStop = NoStop
  MaxSessions = 3
  UserPlays = TRUE
INVARIANTS
  ServerSideTypeOK
  NoOrphan
  SweepLeavesOnlyUnseen
  OneQueueServed
  TimedOutRanAfterLapse
  NoLostUpdate
  OneReconcilerPerServer
  OnePerTarget
  WaitingHasReader
  StudiosAreKept
  EntryMeansLoop
  StopIsTruthful
PROPERTIES
  ExitIsFinal
  StepsFollowProject
  CloseEndsNamed
SYMMETRY Twins
CHECK_DEADLOCK FALSE
