SPECIFICATION SyncSpec
CONSTANTS
  Writer = {w1, w2}
  NumKeys = 2
  Document = {d1, d2}
  BatchSize = 1
  MaxWork = 2
  MaxFaults = 0
INVARIANT LateChangesHarmless
CHECK_DEADLOCK FALSE
