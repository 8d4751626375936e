SPECIFICATION CongestionSpec
CONSTANTS
  Half = 3
  Wide = 36
  LossMax = 5
  VideoFrames = 2
  FrameUnits = 1
  Packets = 3
CHECK_DEADLOCK FALSE
INVARIANT DiffOverflows
