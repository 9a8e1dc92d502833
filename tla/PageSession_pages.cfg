\* Any number of queries one after the other, every kind of failure.  The
\* system may stop: close_native waits for reads that were never submitted
\* (see ReadsHandedOver), so deadlock is not checked.
SPECIFICATION Spec
CONSTANTS
  Pages = {p1, p2, p3}
  Tokens = {1, 2, 3}
  Depth = 3
  BatchSize = 2
  Faults = {"read", "submit", "wait", "trace"}
  MaxFaults = 1
  PrefetchPages = 3
  Capacities = {0, 1}
  MaxPins = 1
INVARIANT TypeOK
INVARIANT BuffersConserved
INVARIANT CompletionsMatch
INVARIANT PageInOnePlace
INVARIANT FootprintWithinBudget
INVARIANT RoomForRequests
INVARIANT PinsMatchQuery
INVARIANT DemandArrives
INVARIANT ReadsHandedOver
SYMMETRY PageSymmetry
CHECK_DEADLOCK FALSE
