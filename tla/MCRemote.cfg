SPECIFICATION Spec
CONSTANTS
  c1 = c1
  c2 = c2
  d1 = d1
  n1 = n1
  n2 = n2
  MaxRepeats = 1
  MaxCancels = 1
  Offered = {c1, c2}
  Strangers = {d1}
  Six = {c2}
  ExtraMax = 1
  Retries = 1
  MaxPackets = 4
  PortMax = 31
  Reserved = 4
  Dynamic = 20
  NatSteps <- NatStepsDef
  FirstPorts = {5, 26, 27, 28, 29, 30, 31}
  NatAddresses = {n1, n2}
  Servers = 6
  Guesses = 8
  RandomGuesses = 6
  Exchanges <- ExchangesDef
  Tries = 2
  BufferSize = 2
  ResendTries = 1
  MaxCtrlMessages = 2
INVARIANTS
  PunchedForPort
  SocketsKept
  CancelHeeded
  
  PortPredicted
  
PROPERTY
  HolepunchEnds
CHECK_DEADLOCK FALSE
