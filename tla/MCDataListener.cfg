SPECIFICATION Spec
CONSTANTS
  len = 3
  MaxLag = 2
  MaxSeq = 9
INVARIANTS
  RingShape
PROPERTIES
  ReceivedInOrder
  ImplementsSampleQueue
CHECK_DEADLOCK FALSE
