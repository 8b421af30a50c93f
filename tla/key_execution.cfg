SPECIFICATION FairSpec
CONSTANTS
  TheKey = k
  Key = {k}
  Tag = {1, 2}
  NumEvents = 3
  PollCount = 2
  NumDelays = 2
  MaxCrashes = 1
INVARIANTS DemandsKept NothingForgotten
PROPERTY EventuallySettled
