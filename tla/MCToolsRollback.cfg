SPECIFICATION ToolsSpec
CONSTANTS
  Components = {"plan"}
  Sessions = {s1}
  Requests = {r1, r2, r3}
  Fences <- Attempts
  NoFence = NoFence
  CacheLimit = 2
  MaxRuns = 2
  Jobs = {j1, j2, j3, j4, j5}
  MaxJobs = 2
  Sizes = {0, 1, 2, 5}
  MaxBytes = 4
  EntryCap = 3
  MaxPushed = 6
  Children = 1
  Names = {n1}
  Plain = {v1, v2}
  Rich = {}
  AsText = AsText
  Unset = Unset
  Unchecked = Unchecked
  MaxOps = 2
  Scripts = {i1, i2}
  Paths = {p, q, out}
  Stray = out
  Classes = {k}
  Texts = {a, b}
  Gone = Gone
  Large = {b}
  MaxStudio = 2
  MaxLocal = 1
  Races = TRUE
  Places = {g}
  ScriptPaths = {p, q}
  Sources = {a, b}
  Long = {}
  Beginning = Beginning
  NoSource = NoSource
  Setters = {c1, c2}
  Restorers = {c3}
  backupLimit = 1
INVARIANT
  ReceiptUndoesAnyPlan
CHECK_DEADLOCK FALSE
