SPECIFICATION CalmSpec
CONSTANTS
  s1 = s1
  s2 = s2
  r1 = r1
  r2 = r2
  edit = edit
  NoSession = NoSession
  NoDelivery = NoDelivery
  Requests = {r1, r2}
  Sessions = {s1}
  Targets = {edit}
  EditTargets = {edit}
  TargetOf <- AllSessions
  RequestTarget <- AllRequests
  Mutations = {r1, r2}
  Inspectors = {}
  Streaming = {}
  ReadLimit = 1
  LoadJournal = FALSE
  MaxAttempts = 3
  MaxEpoch = 0
  CacheLimit = 2
  MaxRuns = 1
PROPERTIES
  EventuallyCompleted
CHECK_DEADLOCK FALSE
