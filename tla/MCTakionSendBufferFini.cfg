SPECIFICATION FairSpec
CONSTANTS
  Half = 4
  Size = 2
  TriesMax = 1
  Timeout = 1
  First = 6
  Messages = 3
  Main = {"stream"}
PROPERTY FiniJoins
CHECK_DEADLOCK FALSE
