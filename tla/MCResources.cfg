SPECIFICATION RunSpec
CONSTANTS
  Spawners = {m1, m2}
  Reattachers = {r1}
  Effects = {e1, f1}
  Budgets <- MCBudgets
  MaxDescendants = 2
  MaxPending = 1
  e1 = e1
  f1 = f1
  m1 = m1
  m2 = m2
  none = none
SYMMETRY Symmetry
INVARIANTS
  RunTypeOK
  PermitsCounted
  SleeperHasWaker
  UsageAccounted
  DestinationsMediated
  LeasesShared
PROPERTY McpMediated
CHECK_DEADLOCK FALSE
