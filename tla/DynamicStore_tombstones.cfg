\* One node written, deleted and flushed twice, and a compaction.
CONSTANTS
  Nodes = {n1}
  Values = {v}
  Deleted = deleted
  EnableWal = TRUE
  AutoFlush = FALSE
  FlushAt = 2
  TornTail = FALSE
  Faults <- NoFaults
  MaxSeq = 2
  MaxTables = 3
  MaxCrashes = 0
  MaxFaults = 0
SPECIFICATION Spec
INVARIANT CompactionDropsTombstones
