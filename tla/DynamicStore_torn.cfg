\* A crash in the middle of a record, then a normal restart, write and close.
CONSTANTS
  Nodes = {n1}
  Values = {v}
  Deleted = deleted
  EnableWal = TRUE
  AutoFlush = FALSE
  FlushAt = 2
  TornTail = TRUE
  Faults <- NoFaults
  MaxSeq = 2
  MaxTables = 3
  MaxCrashes = 1
  MaxFaults = 0
SPECIFICATION Spec
INVARIANT CloseIsDurable
