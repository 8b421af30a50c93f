SPECIFICATION FairSpec
CONSTANTS
  NumEvents = 3
  KeyOf <- MCKeyOf
  TagOf <- MCTagOf
  Bad = {3}
  Mode = "NoEventLose"
  PollCount = 2
  MaxPending = 2
  NumDelays = 2
  MaxBatch = 2
  MaxCrashes = 1
  MaxStops = 1
  MaxLost = 1
INVARIANTS NoLoss ShutdownCommits
PROPERTIES NothingWaitsForEver
