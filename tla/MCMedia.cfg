SPECIFICATION MCSpec
CONSTANTS
  Half = 4
  Source = 2
  Fec = 2
  RefMax = 2
  Switch = 4
  Last = 10
  Lag = 2
  AudioSource = 1
  AudioFec = 2
  LastFrame = 30
  Wide = 40
  LossMax = 5
  VideoFrames = 2
  FrameUnits = 1
  Packets = 3
INVARIANTS
  Covered
  DecoderFed
  AudioInOrder
  
CHECK_DEADLOCK FALSE
