SPECIFICATION MCSpec
CONSTANTS
  MaxId = 1
  NoVec = NoVec
  Ids <- MCIds
  Vecs = {0, 1, 3}
  Dist <- MCDist
  M = 1
  EfConstruction = 4
  EfSearch = 4
  MaxLevel = 1
  ReinsertIds = {0, 1}
INVARIANT ReinsertStaysInBounds
CHECK_DEADLOCK FALSE
