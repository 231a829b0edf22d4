SPECIFICATION RunSpec
CONSTANTS
  o1 = o1
  o2 = o2
  none = none
  Owners = {o1, o2}
  NoOwner = NoOwner
  Keys = {k1}
  NoKey = NoKey
  LeaseTime = 1
  MaxClock = 2
  MaxEpoch = 3
  MaxSequence = 4
SYMMETRY Symmetry
INVARIANTS
  RunTypeOK
  FencedOrder
  LedgerKept
  MemoryKept
  PluginsKept
PROPERTY PromiseSpec
CHECK_DEADLOCK FALSE
