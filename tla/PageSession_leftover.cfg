\* Nothing fails, and yet a query does.
SPECIFICATION Spec
CONSTANTS
  Pages = {p1, p2, p3}
  Tokens = {1, 2, 3}
  Depth = 3
  BatchSize = 2
  Faults = {}
  MaxFaults = 0
  PrefetchPages = 3
  Capacities = {1}
  MaxPins = 1
INVARIANT QueryFailsOnlyOnFault
