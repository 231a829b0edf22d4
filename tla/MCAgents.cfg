SPECIFICATION RunSpec
CONSTANTS
  p1 = p1
  p2 = p2
  none = none
  NoProc = none
  Procs = {p1, p2}
  NTools = 2
  ReplaySafe = {1}
  LeaseTime = 1
  MaxClock = 1
  MaxCalls = 2
  MaxFaults = 1
  SlowFence = FALSE
  StoreFaults = TRUE
SYMMETRY Symmetry
INVARIANTS
  RunTypeOK
  FilesTruthful
  CompactionSafe
  ConfigTruthful
PROPERTIES
  TaskRunOnce
  ToolsMediated
CHECK_DEADLOCK FALSE
