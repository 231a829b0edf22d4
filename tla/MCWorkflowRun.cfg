SPECIFICATION RunSpec
CONSTANTS
  h1 = h1
  h2 = h2
  t1 = t1
  t2 = t2
  none = none
  Hosts = {"h"}
  Nodes = {"a", "b"}
  depends_on <- ChainDepends
  FalseWhen = {}
  Unbindable = {}
  AgentNodes = {"a"}
  max_attempts <- ChainAttempts
  MaxRecords = 10
  MaxFaults = 1
SYMMETRY Symmetry
INVARIANTS
  RunTypeOK
  RunRestored
  RunOrdered
  NodeAccounted
  SupervisorSound
  DefinitionsSound
