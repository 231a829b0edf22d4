CONSTANTS
  Tasks = {t1}
  WorkflowTasks = {}
  Workers = {w1}
  Coordinator = c
  Supervisor = FALSE
  NoAgent = noagent
  Operations = {1}
  MaxRecords = 3
SPECIFICATION Spec
PROPERTY AdmissionIndivisible
CHECK_DEADLOCK FALSE
