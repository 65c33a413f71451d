CONSTANTS
  MaxPageId = 4
  Parts = 1
  Values <- Contents
  Zero <- ZeroContent
  Capacity = 2
  Threads = {t1}
  FirstDataPage = 2
  MaxPins = 0
  Graphs = {0, 1, 2}
  PagesOf <- MCPagesOf
  HNSWPage = 1
  LateFailures = FALSE
  NoGraph = NoGraph
  Broken = Broken
SPECIFICATION CkSpec
INVARIANTS
  CkTypeOK
  PoolStructureUnlessUnordered
  ChainIdsIssued
PROPERTIES
  ImplementsGraphStore
  CallsReturn
CHECK_DEADLOCK FALSE
