SPECIFICATION Spec
CONSTANTS
  Keys = {k1}
  Conns = {c1, c2}
  NoKey = NoKey
  NoConn = NoConn
  MaxId = 1
PROPERTIES ShutdownWaitsForHandlers
CHECK_DEADLOCK FALSE
