SPECIFICATION MCSpec
CONSTANTS
  MaxId = 3
  NoVec = NoVec
  Ids <- MCIds
  Vecs = {0, 1, 3}
  Dist <- MCDist
  M = 1
  EfConstruction = 4
  EfSearch = 4
  MaxLevel = 1
  ReinsertIds = {0, 1, 2}
INVARIANTS
  TypeOK
  GraphStructure
  SearchReturnsLive
  SearchIsExact
PROPERTY ImplementsVectorIndex
CHECK_DEADLOCK FALSE
