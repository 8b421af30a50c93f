SPECIFICATION SyncSpec
CONSTANTS
  Writer = {w1, w2}
  NumKeys = 2
  Document = {d1}
  BatchSize = 1
  MaxWork = 2
  MaxFaults = 1
INVARIANT FailureLeavesLive
CHECK_DEADLOCK FALSE
