CONSTANTS
  MaxPageId = 2
  Parts = 1
  Values = {z}
  Zero = z
  Capacity = 2
  Threads = {t1, t2}
  FirstDataPage = 1
  MaxPins = 1
  PageSlots = 1
SPECIFICATION PMSpec
INVARIANTS
  PMTypeOK
  PoolStructure
  NoDoubleAllocation
  SavedListIsFree
  NoMemOnlyWhenAllPinned
PROPERTIES
  PinnedStays
