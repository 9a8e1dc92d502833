\* Crashes, torn log tails, and every failure after which nothing durable is lost.
CONSTANTS
  Nodes = {n1, n2}
  Values = {v}
  Deleted = deleted
  EnableWal = TRUE
  AutoFlush = TRUE
  FlushAt = 2
  TornTail = TRUE
  Faults <- Survived
  MaxSeq = 3
  MaxTables = 3
  MaxCrashes = 2
  MaxFaults = 1
SPECIFICATION Spec
SYMMETRY AnyNode
INVARIANTS
  TypeOK
  RecoverableIsPrefix
  ManifestTablesOpen
  FlushIsDurable
  CleanCloseIsDurable
  WritesKept
PROPERTIES
  CompactionKeepsNewest
  ImplementsDurableStore
