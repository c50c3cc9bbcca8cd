CONSTANTS
  Address = {a1, a2, a3}
  LocalSets <- AllOrNot
  Kinds <- SomeKinds
  Ports <- TwoPorts
  Few = 1
  FallbackLimit = 1
  Workers = 2
  Chunk = 2
  MaxStale = 0
SPECIFICATION FairSpec
INVARIANTS NobodyIsOverlooked
PROPERTIES EventuallyOver
