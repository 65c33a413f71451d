CONSTANTS
  MaxPageId = 1
  Parts = 2
  Values = {z, a}
  Zero = z
  Capacity = 1
  Threads = {t1}
  FirstDataPage = 1
  MaxPins = 1
  Torn = Torn
SPECIFICATION Spec
PROPERTIES
  ImplementsPageStore
