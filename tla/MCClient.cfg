SPECIFICATION MCSpec
CONSTANTS
  c1 = c1
  c2 = c2
  Failures = {"receivers", "takion", "congestion", "big", "feedback"}
  HostsMax = 1
  DropPings = 1
  Consoles = {c1, c2}
  Manual = c1
  MaxEvents = 1
  MaxStray = 2
  MinSize = 2
  MaxSize = 5
  MtuRetries = 2
  PingCount = 2
  MaxSessions = 3
  MaxConnects = 1
  MaxSleeps = 1
  ReconnectTries = 2
  MaxRefreshes = 2
INVARIANTS
  RunInOrder
  ToldIsKnown
  SuccessIsDeserved
  MtuIsRight
  SessionsInOrder
PROPERTIES
  Implements
  GoneIsNotShown
  CallsEnd
CHECK_DEADLOCK FALSE
