\* One index, from the configuration of its build to the answer of a query.
CONSTANTS
  N = 5
  Dist <- Distances
  Degree = 2
  AlphaSq <- Alpha
  Builds <- SomeBuilds
  Projections <- OneOrder
  Tables <- OneTable
  Bits <- OneBit
  Training <- TwoQueries
  Dim = 337
  PageSize = 4096
  PqBytes = 0
  Searches <- SearchesOf
  Pq <- Quantized
  Exact <- ToQuery
  Scores <- TwoScores
SPECIFICATION Spec
INVARIANT TypeOK
INVARIANT RowsWellFormed
INVARIANT DeletedUnreachable
INVARIANT NoDeadEnds
INVARIANT FileServesGraph
INVARIANT ResultIsBestVisited
INVARIANT FullSearchIsExact
INVARIANT EarlyStopLeavesFarther
INVARIANT PlannedIsRead
PROPERTY BatchesAdvance
