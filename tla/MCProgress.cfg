SPECIFICATION RunSpec
CONSTANTS
  x1 = x1
  x2 = x2
  n1 = n1
  n2 = n2
  h1 = h1
  r1 = r1
  g1 = g1
  NoCollector = none
  Procs = {1, 2, 3}
  NoProc = 0
  MaxEvents = 2
  MaxFaults = 1
  ClockSteps = FALSE
  SlowStart = FALSE
PROPERTIES
  WaitersWake
  RunSettles
  SessionsSettle
  DropReturns
CHECK_DEADLOCK FALSE
