CONSTANTS
  Effects = {e1}
  Rounds = {r1, r2}
  Fingerprints = {f1}
  Budgets = {1, 2}
  SnapshotInterval = 2
  MaxRecords = 5
  MaxAgents = 1
SPECIFICATION Spec
INVARIANT CountedOnce
CHECK_DEADLOCK FALSE
