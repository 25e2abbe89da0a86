SPECIFICATION Spec
CONSTANTS
  Prices = {1, 2, 3, 4, 5, 6, 7}
  MaxDepth = 6
CHECK_DEADLOCK FALSE
INVARIANTS TypeOK ReturnsLowerBound
PROPERTY SearchReturns
