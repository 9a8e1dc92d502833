\* Every failure the code can meet, two of them in one behaviour.
CONSTANTS
  Nodes = {n1}
  Values = {v}
  Deleted = deleted
  EnableWal = TRUE
  AutoFlush = FALSE
  FlushAt = 2
  TornTail = TRUE
  Faults <- AllFaults
  MaxSeq = 2
  MaxTables = 3
  MaxCrashes = 1
  MaxFaults = 2
SPECIFICATION FairSpec
INVARIANT SequenceIsFresh
PROPERTY OperationsReturn
