SPECIFICATION SSpec
CONSTANTS
  a = a
  b = b
  c = c
  d = d
  e = e
  x = x
  y = y
  None = None
  Unread = Unread
  Actors = {a, b, c}
  Names = {"r", "d"}
  Vals = {1, 2}
  Parts = 2
  Programs <- ServicePrograms
  Faults = {"lost", "busy", "crash"}
  Attempts = 2
  MaxOps = 3
  MaxFaults = 2
  InRun = {"s3", "denied", "list", "alias", "pages", "files", "read", "reads", "leftover",
           "downloads", "spool", "codec", "stream", "copy", "copies", "cancel"}
INVARIANTS ListingsSound  CodecSound CopiesSound
PROPERTIES AtLeastOnce
CHECK_DEADLOCK FALSE
