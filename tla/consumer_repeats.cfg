SPECIFICATION Spec
CONSTANTS
  NumEvents = 2
  KeyOf <- MCOneKey
  TagOf <- MCOneTag
  Bad = {}
  Mode = "NoDoubleConsume"
  PollCount = 2
  MaxPending = 2
  NumDelays = 2
  MaxBatch = 1
  MaxCrashes = 0
  MaxStops = 0
  MaxLost = 0
INVARIANTS NoEventProcessedTwice
