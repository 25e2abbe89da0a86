SPECIFICATION FairSpec
CONSTANTS
  Producers = {p1, p2}
  Consumers = {c1, c2}
  Capacity = 2
  MaxTickets = 6
  Raw = Raw
  Moved = Moved
  None = None
CHECK_DEADLOCK FALSE
INVARIANTS SlotExclusive TicketsMatch NothingOverwritten
PROPERTY TurnsCome
