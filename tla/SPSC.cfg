SPECIFICATION FairSpec
CONSTANTS
  Capacity = 4
  Values = {v1, v2}
  Raw = Raw
  SizeRange = 16
CHECK_DEADLOCK FALSE
INVARIANTS TypeOK ViewsInOrder ObjectsExact
PROPERTIES ImplementsFifo EveryObjectTaken
