SPECIFICATION Spec
CONSTANTS
  Samples = {1, 2, 3}
  Observations = {1, 2, 3}
  QueueCap = 2
  BatchSize = 2
  SegmentLines = 2
  Archives = 2
  Sessions = {"a", "b"}
  Days = {"d1", "d2"}
  Attribution <- MCAttribution
  MaxBuckets = 1
  MaxFailures = 1
  MaxCrashes = 1
INVARIANTS
  NothingVanishes
  CleanCloseCountsAll
PROPERTIES
  CountsOnce
  EventuallyCounted
