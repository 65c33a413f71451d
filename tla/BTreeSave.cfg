CONSTANTS
  Order = 1
  Keys = {1, 2, 3, 4}
  Inputs <- TwoValues
  RootPage = 1
  MaxPageId = 5
  CallsFail = TRUE
  Saves = TRUE
  InsertUpTo = 0
  RemoveUpTo = 0
SPECIFICATION Spec
CHECK_DEADLOCK FALSE
PROPERTY SaveKeepsPairs
