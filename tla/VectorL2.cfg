SPECIFICATION Spec
CONSTANTS
  MaxPrice = 3
  MaxQty = 2
  MaxLevel = 3
INVARIANTS TypeOK LevelsSorted
PROPERTY ImplementsL2OrderBook
