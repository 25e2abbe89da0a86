SPECIFICATION Spec
CONSTANTS
  Capacity = 3
  Values = {v1}
  Raw = Raw
  SizeRange = 16
CHECK_DEADLOCK FALSE
INVARIANT SizeCountsWaiting
