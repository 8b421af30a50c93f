SPECIFICATION Spec
CONSTANTS
  NumEvents = 4
  KeyOf <- MCKeyOf
  TagOf <- MCTagOf
  Bad = {2}
  Mode = "NoDoubleConsume"
  PollCount = 2
  MaxPending = 3
  NumDelays = 2
  MaxBatch = 1
  MaxCrashes = 2
  MaxStops = 1
  MaxLost = 1
INVARIANTS OnlyRetryRepeats
PROPERTIES SettledInOrder
