SPECIFICATION RunSpec
CONSTANTS
  Tasks = {t1}
  WorkflowTasks = {}
  Workers = {w1}
  Coordinator = c
  Supervisor = TRUE
  NoAgent = noagent
  Operations = {1, 2, 3}
  MaxRecords = 4
  child = child
  root = root
  team = team
  noteam = noteam
  hub = hub
  x = x
  y = y
  d1 = d1
  b1 = b1
  k1 = k1
  k2 = k2
  none = none
SYMMETRY Symmetry
INVARIANTS
  RunTypeOK
  RegistriesRestored
  DoneOnce
  TaskHistoryKept
  ConversationKept
  ChildrenKept
CHECK_DEADLOCK FALSE
