SPECIFICATION SpecWithL2
CONSTANTS
  Orders = {o1, o2, o3}
  MaxPrice = 3
  MaxQty = 2
  MaxTime = 2
  Containers = {"list", "multiset", "set"}
  Dangling = Dangling
CHECK_DEADLOCK FALSE
INVARIANTS TypeOK BookConsistent
PROPERTIES OnlyTwinsComeApart L2DriftsByTwinsOnly ImplementsPriceTimeBook Settles
