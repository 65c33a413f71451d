CONSTANTS
  MaxPageId = 2
  Parts = 1
  Values = {z, a}
  Zero = z
  Capacity = 2
  Threads = {t1}
  FirstDataPage = 1
  MaxPins = 0
  Torn = Torn
SPECIFICATION Spec
INVARIANTS
  TypeOK
  PoolStructure
  CleanFramesMatchFile
PROPERTIES
  ImplementsPageStore
