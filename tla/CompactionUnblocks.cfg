SPECIFICATION Spec
CONSTANTS
  Threshold = 2
  Limit = 4
  Reports = {0, 4}
  MaxFailures = 1
  MaxMessages = 6
  MaxEvents = 2
INVARIANT CompactionUnblocks
CHECK_DEADLOCK FALSE
