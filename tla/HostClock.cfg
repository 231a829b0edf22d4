SPECIFICATION Spec
CONSTANTS
  Procs = {1, 2, 3}
  NoProc = 0
  MaxEvents = 3
  MaxFaults = 2
  ClockSteps = TRUE
  SlowStart = FALSE
INVARIANTS DisplayOrder
CHECK_DEADLOCK FALSE
