SPECIFICATION SystemSpec
CONSTANTS
  s1 = s1
  s2 = s2
  r1 = r1
  r2 = r2
  edit = edit
  NoSession = NoSession
  NoDelivery = NoDelivery
  Requests = {r1, r2}
  Sessions = {s1, s2}
  Targets = {edit}
  EditTargets = {edit}
  TargetOf <- AllSessions
  RequestTarget <- AllRequests
  Mutations = {r1, r2}
  Inspectors = {}
  Streaming = {}
  ReadLimit = 1
  LoadJournal = TRUE
  MaxAttempts = 2
  MaxEpoch = 1
  CacheLimit = 2
  MaxRuns = 2
INVARIANTS
  SystemTypeOK
  CompletedWasRun
PROPERTIES
  OnlyCurrentDeliveryCompletes
CHECK_DEADLOCK FALSE
SYMMETRY Twins
