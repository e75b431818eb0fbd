SPECIFICATION FairSpec
CONSTANTS
  Nodes = {n1, n2, n3, n4}
  Items = {x, y}
  Null = Null
INVARIANT TypeOK
INVARIANT BothWays
PROPERTY ImplementsSequence
PROPERTY ClearEnds
