SPECIFICATION Spec
CONSTANTS
  BlockSize = 4
  HeapPlaces = {h1, h2}
  Clients = {c1, c2}
SYMMETRY Symmetry
CHECK_DEADLOCK FALSE
INVARIANTS TypeOK HeldByOne NothingElseLost
PROPERTY HeapOnlyWhenExhausted
