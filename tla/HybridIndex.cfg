CONSTANTS
  block_size = 100
  Sizes <- MCSizes
  Queries <- MCQueries
  Threads = 2
  Codings <- MCCodings
  Budgets = {0, 40, 54, 70}
  MaxRuns = 2
  SampledPoints = 3
  None = None

SPECIFICATION HybridSpec
INVARIANT FileHoldsCriticalPoints
INVARIANT FoundSpaceIsIndexSize
INVARIANT TimeOptimal
CHECK_DEADLOCK FALSE
