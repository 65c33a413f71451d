CONSTANTS
  Order = 1
  Keys = {1, 2, 3, 4, 5}
  Inputs <- OneValue
  RootPage = 1
  MaxPageId = 7
  CallsFail = FALSE
  Saves = FALSE
  InsertUpTo = 0
  RemoveUpTo = 1
SPECIFICATION Spec
INVARIANTS
  TypeOK
  RangeAgreesWithFind
  NoForeignValue
PROPERTIES
  ImplementsOrderedMap
CHECK_DEADLOCK FALSE
