SPECIFICATION Spec
CONSTANTS
  r1 = r1
  r2 = r2
  k1 = k1
  k2 = k2
  p1 = p1
  p2 = p2
  Runs <- MCRuns
  Keys <- MCKeys
  Paths <- MCPaths
  KeyOf <- MCKeyOf
  PathOf <- SharedPath
  MaxTime = 1
  Faults = {"report", "upload", "hook", "disk", "crash"}
  NoLog = NoLog
SYMMETRY MCSymmetry
CHECK_DEADLOCK FALSE
INVARIANT CompletedIsWhole
INVARIANT AcknowledgedIsStored
PROPERTY ReportsInOrder
