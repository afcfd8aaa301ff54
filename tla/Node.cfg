SPECIFICATION NodeSpec
CONSTANTS
  None = None
  MaxRows = 2
  History = 0
  Replication = TRUE
  BatchSize = 2
  PruneBatch = 2
  MaxDelivered = 0
  MaxAttempts = 2
  RetryBase = 1
  RetryMax = 1
  StaleClaim = 1
  Retention = 1
  FailedAge = 1
  StaleCursor = 1
  MaxLag = 1
  MaxFaults = 1
  Nodes = {n1}
  Clients = {c1}
  Keys = {k1, k2}
  Policy = "ContentDiff"
  DeltaKeys = {k2}
  Seeded = 1
  DrainBatch = 2
  MaxOps = 3
  Ranked = {1, 2}
  Skipped = {}
  Runs = {a, b}
  Rules <- RetainRules
  PageSize = 1
  Budget = 2
  Cap = 3
  MaxTime = 3
  MaxWrites = 1
  MaxTrouble = 1
  MaxScope = 0
  MaxMaint = 0
  Hashes = {h1, h2, h3}
  Admins = {a}
  MaxBoots = 4
  MaxUsers = 1
  Failures = 2
  Blank = Blank
  Editors = {a, b}
  Edits <- AllEdits
  Installed <- FirstConfig
  Users = {1}
  Admin = 9
  MaxRequests = 2
  MaxCancels = 1
  MaxCrashes = 1
  Unregistered = {}
  Kinds = {"reencrypt", "backfill", "migrate"}
  Budgets = {3}
  MaxJobs = 1
  MaxApplies = 1
  MaxStalls = 1
  Parts = {"mirror", "outbox", "retain", "key", "apply", "jobs"}
INVARIANTS SettledMirror SweepSound
PROPERTIES RemovedIsSettled KeepsNewest UsersKept EditsKept EventsSettle
CHECK_DEADLOCK FALSE
