SPECIFICATION Spec
CONSTANTS
  Path <- MCPath
  Dirs <- MCDirs
  End <- MCEnd
  Hidden = {}
  Excluded = {}
  PageSize = 1
  DirWorkers = 2
  HeadBatch = 2
  MaxPendingDirs = 5
  Transfers = 1
  ActionBuffer = 2
  SkipAfter = 1
  Volatile = {4}
  MaxVersion = 2
  MaxFaults = 1
  MaxHalts = 1
  Setups <- MCSetups
INVARIANT WalkSound
PROPERTY DeleteOnlyGone
PROPERTY Mirrored
