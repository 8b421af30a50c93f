SPECIFICATION Spec
CONSTANTS
  NumEvents = 4
  KeyOf <- MCKeyOf
  TagOf <- MCTagOf
  Bad = {}
  Mode = "NoEventLose"
  PollCount = 2
  MaxPending = 3
  NumDelays = 2
  MaxBatch = 1
  MaxCrashes = 1
  MaxStops = 0
  MaxLost = 0
INVARIANTS NoLoss RetryCommitSafe QuarantineHolds
PROPERTIES ImplementsDelivery
