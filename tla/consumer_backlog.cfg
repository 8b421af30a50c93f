SPECIFICATION Spec
CONSTANTS
  NumEvents = 3
  KeyOf <- MCOneKey
  TagOf <- MCOneTag
  Bad = {}
  Mode = "NoEventLose"
  PollCount = 1
  MaxPending = 1
  NumDelays = 2
  MaxBatch = 1
  MaxCrashes = 0
  MaxStops = 0
  MaxLost = 0
INVARIANTS PendingBounded
