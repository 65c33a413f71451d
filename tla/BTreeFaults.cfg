CONSTANTS
  Order = 1
  Keys = {1, 2, 3, 4}
  Inputs <- TwoValues
  RootPage = 1
  MaxPageId = 5
  CallsFail = TRUE
  Saves = TRUE
  InsertUpTo = 0
  RemoveUpTo = 0
SPECIFICATION Spec
INVARIANTS
  RangeAgreesWithFind
  NoForeignValue
PROPERTIES
  ImplementsOrderedMap
  FailedSplitKeepsChain
CHECK_DEADLOCK FALSE
