\* One reader beside a writer that closes and opens the store.
SPECIFICATION Spec
CONSTANTS
  near = near
  far = far
  Deleted = Deleted
  Nodes = {1, 2, 3}
  Values = {near, far}
  Base <- TwoBaseNodes
  Dist <- Distances
  Searchers = {s1}
  s1 = s1
  TopK = 2
  MaxSeq = 3
  MaxCloses = 1
INVARIANT TypeOK
INVARIANT SearchIsSnapshot
INVARIANT SearchSeesReturnedWrites
INVARIANT RecallIsExact
PROPERTY SequenceAdvances
PROPERTY ViewImplementsDurableStore
