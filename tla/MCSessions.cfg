SPECIFICATION RunSpec
CONSTANTS
  root = root
  below = below
  other = other
  g1 = g1
  g2 = g2
  Runs <- MCRuns
  Roots <- MCRoots
  TreeOf <- MCTreeOf
  Sessions = {1, 2}
  Collectors = {g1, g2}
  NoCollector = none
  MaxSessions = 0
  GcBudget = 1
  MaxFaults = 1
SYMMETRY Symmetry
INVARIANTS
  RunTypeOK
  HostServed
  ChildAccounted
PROPERTY CollectionSafe
CHECK_DEADLOCK FALSE
