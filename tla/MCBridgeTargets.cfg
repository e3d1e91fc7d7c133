SPECIFICATION Spec
CONSTANTS
  s1 = s1
  s2 = s2
  s3 = s3
  r1 = r1
  r2 = r2
  r3 = r3
  edit = edit
  server = server
  NoSession = NoSession
  Requests = {r1, r2, r3}
  Sessions = {s1, s2, s3}
  Targets = {edit, server}
  EditTargets = {edit}
  TargetOf <- MCTargetOf
  RequestTarget <- LastServer
  Mutations = {r3}
  Inspectors = {s3}
  Streaming = {}
  ReadLimit = 1
  LoadJournal = FALSE
  MaxAttempts = 2
  MaxEpoch = 0
INVARIANTS
  LeaseHeldByHandler
  ReadsWithinLimit
SYMMETRY Pairs
