SPECIFICATION MCSpec
CONSTANTS
  Token = {t1, t2, t3}
  LockTtls = {0, 2}
  Capacity = 2
  Refill = 1
  Period = 2001
  Costs = {0, 1, 2, 3}
  MaxBack = 2
  Grain = 1
  Rounding = 1
  MaxDrift = 3
  Body = {b1, b2, b3}
  Unreadable = {b3}
  CacheTtls = {0, 2}
  Editor = {e1, e2}
  MaxDiffs = 1
  ReadBatch = 2
  MaxVersion = 4
  MaxCreations = 2
  MaxResumes = 1
  BufferTtl = 2
  MaxBodies = 2
  MaxLives = 2
  MaxFailures = 1
  PipeTtl = 2
  MaxMessages = 3
  MaxCloses = 2
  MaxReceivers = 2
INVARIANTS
  LockExclusion
  BucketKept
  CacheTruthful
  CommitsKept SubscriberHasBody
  BufferFaithful
  PipeFaithful
PROPERTIES
  ImplementsLeaseLock
  SubscriberCatchesUp
  NobodyWaitsForEver
