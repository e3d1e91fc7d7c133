SPECIFICATION SystemSpec
CONSTANTS
  s1 = s1
  s2 = s2
  r1 = r1
  r2 = r2
  edit = edit
  NoSession = NoSession
  NoDelivery = NoDelivery
  Requests = {r1}
  Sessions = {s1, s2}
  Targets = {edit}
  EditTargets = {edit}
  TargetOf <- AllSessions
  RequestTarget <- AllRequests
  Mutations = {r1}
  Inspectors = {}
  Streaming = {}
  ReadLimit = 1
  LoadJournal = FALSE
  MaxAttempts = 3
  MaxEpoch = 1
  CacheLimit = 2
  MaxRuns = 2
INVARIANTS
  MutationRunsOnce
PROPERTIES
  RefinesBridge
  KeepsContract
SYMMETRY Twins
CHECK_DEADLOCK FALSE
