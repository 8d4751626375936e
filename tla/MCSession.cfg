SPECIFICATION FairSpec
CONSTANTS
  MaxPins = 1
  MaxMessages = 1
  MaxExtra = 1
  Addresses = 1
INVARIANTS
  ReasonIsTrue
  ToldOnce
PROPERTIES
  StopEnds
  HeartbeatAnswered
CHECK_DEADLOCK FALSE
