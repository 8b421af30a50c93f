SPECIFICATION MCSpec
CONSTANTS
  Key = {k1}
  Tag = {1, 2}
  MaxRecords = 5
  Base = 7
  TagLen = 2
  WordLen = 3
  Samples = {0, 48, 342}
  Publishers = {p1, p2}
  Keys = {k1, k2}
  MaxBatch = 3
  MaxCalls = 2
  Values = {v1, v2}
  MaxChunk = 2
  NumDelays = 3
  MaxArrivals = 4
  Starters = {s1, s2}
  Topics = {x, y}
  Existing = {x}
  Tags = {a, b}
  MaxPartitions = 2
  MaxHandlers = 2
  MaxFailures = 1
  Interval = 2
  MaxTime = 5
  Level = {l1, l2}
  MaxQueries = 3
  MaxFlows = 2
  Writer = {w1, w2}
  NumKeys = 2
  Document = {d1}
  BatchSize = 1
  MaxWork = 2
  MaxFaults = 1
  Atoms = {a, b, c}
  Subjects = {s, t}
  MaxDepth = 3
  MaxLaws = 1
INVARIANTS
  RespectsOrder FencesBothWays ReencodingKeepsDemands
  HeadersExact
  PublishedAsTold
  EffectKept
  StartedCanRun
  CronSpacing ShutdownWaits StopIsObeyed
  AllOrNothing ReportTrue NamedLevelHolds
  IndexTrue
  EvidenceSupports
PROPERTIES
  RunEnds
  ShutdownEnds
  RebuildEnds
CHECK_DEADLOCK FALSE
