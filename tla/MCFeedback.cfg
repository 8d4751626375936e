SPECIFICATION MCSpec
CONSTANTS
  Keys = {0}
  Levels = {0, 1}
  Sticks = {0, 1}
  Touches = {0}
  Ids = {0, 1}
  Pos = {0, 1}
  Idle = 0
  Size = 2
  Fingers = {"f1", "f2", "f3"}
  IdCount = 2
  MaxPresses = 4
  Paths = {"p1"}
  Usb = {"p1"}
  SlotCount = 2
  MaxTouches = 3
  MaxPlugs = 4
  MaxQueue = 3
INVARIANTS
  InputArrives
  
  TouchpadsFollow
PROPERTIES
  SticksSettle
CHECK_DEADLOCK FALSE
