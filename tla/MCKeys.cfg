SPECIFICATION MCSpec
CONSTANTS
  r1 = r1
  r2 = r2
  ChunkSize = 2
  Chunks = 3
  Readers = {r1, r2}
  PosMax = 13
  Half = 6
  MaxPos = 40
  Step = 5
  Senders = {"ack", "congestion"}
  Sizes = {1, 5}
  BlockSize = 4
  Refresh = 8
  SizeMax = 24
  MaxSent = 4
INVARIANTS
  ReadsRight
  NoneRejected
  SentUnderOwnKey
PROPERTIES
  GeneratorAnswers
CHECK_DEADLOCK FALSE
