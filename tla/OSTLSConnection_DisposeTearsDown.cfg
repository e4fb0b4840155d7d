CONSTANTS
  MaxOpens = 3
  ConnectTimeout = 1
  HandshakeTimeout = 1
SPECIFICATION Spec
INVARIANT DisposeTearsDown
CHECK_DEADLOCK FALSE
