SPECIFICATION JSpec
CONSTANTS
  a = a
  b = b
  sched = sched
  node = node
  None = None
  Parts = {"verdicts", "audits", "age", "ends", "click", "local"}
INVARIANTS RunsExclusive
PROPERTIES  JobsFinish
CHECK_DEADLOCK FALSE
