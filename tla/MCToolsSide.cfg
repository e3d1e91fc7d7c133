SPECIFICATION ToolsSpec
CONSTANTS
  Components = {"executor", "jobs", "log", "plan", "sync", "backups"}
  Sessions = {s1}
  Requests = {r1, r2, r3}
  Fences <- Attempts
  NoFence = NoFence
  CacheLimit = 2
  MaxRuns = 2
  Jobs = {j1, j2, j3, j4, j5}
  MaxJobs = 2
  Sizes = {0, 1, 2, 5}
  MaxBytes = 4
  EntryCap = 3
  MaxPushed = 6
  Children = 1
  Names = {n1, n2}
  Plain = {FALSE}
  Rich = {x1}
  AsText = AsText
  Unset = Unset
  Unchecked = Unchecked
  MaxOps = 3
  Scripts = {i1, i2}
  Paths = {p, q, out}
  Stray = out
  Classes = {k}
  Texts = {a, b}
  Gone = Gone
  Large = {b}
  MaxStudio = 2
  MaxLocal = 1
  Races = TRUE
  Places = {g}
  ScriptPaths = {p, q}
  Sources = {a, b}
  Long = {}
  Beginning = Beginning
  NoSource = NoSource
  Setters = {c1, c2}
  Restorers = {c3}
  backupLimit = 1
INVARIANTS
  ToolsSideTypeOK
  RepeatsAreAnswered
  JobsAreKept
  ReadersMissNothing
  
  ReceiptUndoesPlan
  
  FailedPullRestores
  BackupIsOfItsCall
PROPERTY
  PullKeepsEdits
SYMMETRY Twins
CHECK_DEADLOCK FALSE
