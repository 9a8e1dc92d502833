\* Liveness on two pages, without symmetry, prefetches forgotten by earlier
\* queries included.  The system may stop: close_native waits for reads that were
\* never submitted (see ReadsHandedOver), so deadlock is not checked.
SPECIFICATION FairSpec
CONSTANTS
  Pages = {p1, p2}
  Tokens = {1, 2, 3}
  Depth = 3
  BatchSize = 2
  Faults = {"read", "submit", "wait"}
  MaxFaults = 1
  PrefetchPages = 3
  Capacities = {1}
  MaxPins = 1
PROPERTY CallsReturn
CHECK_DEADLOCK FALSE
