SPECIFICATION Spec
CONSTANTS
  Orders = {o1, o2}
  Ids = {i1, i2}
  EmptyId = EmptyId
  MaxSpares = 1
  MaxPrice = 2
  MaxQty = 2
  InvalidPrice = InvalidPrice
  OrderTypes = {"GoodTillCancel", "FillAndKill", "FillOrKill", "Market"}
  NoOrder = NoOrder
CHECK_DEADLOCK FALSE
PROPERTIES CallReturns
