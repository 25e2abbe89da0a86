SPECIFICATION Spec
CONSTANTS
  SlabSize = 2
  MaxSlabs = 3
  Clients = {c1, c2}
CHECK_DEADLOCK FALSE
SYMMETRY Symmetry
INVARIANTS TypeOK ListsExact HeldByOne NothingElseLost
PROPERTY GrowsOnlyWhenFull
