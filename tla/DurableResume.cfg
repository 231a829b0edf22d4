SPECIFICATION Spec
CONSTANTS
  NoProc = NoProc
  Procs = {p1, p2}
  NTools = 2
  ReplaySafe = {1}
  LeaseTime = 1
  MaxClock = 2
  MaxCalls = 2
  MaxFaults = 0
  SlowFence = FALSE
  StoreFaults = FALSE
CHECK_DEADLOCK FALSE
INVARIANTS ResumesSavedRound
