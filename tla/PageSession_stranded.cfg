\* Prefetching off, demand reads in chunks of two, and reads that fail.
SPECIFICATION FairSpec
CONSTANTS
  Pages = {p1, p2}
  Tokens = {1, 2, 3, 4}
  Depth = 4
  BatchSize = 2
  Faults = {"read"}
  MaxFaults = 1
  PrefetchPages = 0
  Capacities = {1}
  MaxPins = 1
PROPERTY CloseEnds
CHECK_DEADLOCK FALSE
