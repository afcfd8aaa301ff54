SPECIFICATION OSpec
CONSTANTS
  w = w
  x = x
  adm = adm
  c1 = c1
  c2 = c2
  k1 = k1
  k2 = k2
  None = None
  Error = Error
  Panicked = Panicked
  Ciphertext = Ciphertext
  Actors = {w, x, adm}
  Names = {"r", "d"}
  Internal = {"r"}
  Vals = {1, 2}
  Depth = 3
  Level <- FileLevel
  Programs <- FilePrograms
  MaxOps = 3
  MaxCrashes = 1
  Parts = {"fs", "writes", "handlers", "scan", "bytes", "encrypt"}
SYMMETRY Symmetry
INVARIANTS  HandlersSound ReadExact
PROPERTIES Linearizable
CHECK_DEADLOCK FALSE
