SPECIFICATION MCSpec
CONSTANTS
  QueueSize = 3
  PostponeSize = 1
  MaxData = 4
  MaxAv = 2
  Bang = 1
  Half = 3
  N = 5
INVARIANTS
  AckAccounted
  AvInOrder
  Compacted
PROPERTIES
  IsReliable
CHECK_DEADLOCK FALSE
