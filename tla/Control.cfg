SPECIFICATION CSpec
CONSTANTS
  a = a
  b = b
  h1 = h1
  h2 = h2
  None = None
  Blank = Blank
  Parts = {"sessions", "spread", "unsigned", "signed", "backup", "rows", "people",
           "providers", "policy", "gates", "witness"}
  Backends = {"cold"}
  Default = "default"
  Defs = {"d1", "d2"}
  Local = {}
  Buckets = {"k"}
  Staging = "staging"
  Admins = {a}
  Loops = {b}
  Node = h1
  Peers = {}
  Conditions <- AllConditions
  Worlds <- SomeWorlds
  First <- FirstDoc
  Docs <- MoreDocs
  BootMode = "enforce"
  WitnessAge = 1
  MaxClock = 0
  MaxChanges = 1
  MaxCalls = 2
  MaxStarts = 1
INVARIANTS GatesSound RequestsSound RestoresSound
PROPERTIES RightsKept 
CHECK_DEADLOCK FALSE
