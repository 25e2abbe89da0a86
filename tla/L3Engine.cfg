SPECIFICATION MCSpec
CONSTANTS
  Orders = {o1, o2, o3}
  Ids = {i1, i2, i3}
  EmptyId = EmptyId
  MaxSpares = 1
  MaxPrice = 2
  MaxQty = 2
  InvalidPrice = InvalidPrice
  OrderTypes = {"GoodTillCancel", "FillAndKill", "FillOrKill", "Market"}
  NoOrder = NoOrder
SYMMETRY Symmetry
CHECK_DEADLOCK FALSE
INVARIANTS TypeOK BookConsistent L2MatchesL3 Uncrossed FillAndKillNeverRests FillOrKillAllOrNothing
PROPERTIES TradesInvolveIncoming KillsOnlyIncoming ImplementsPriceTimeBook
