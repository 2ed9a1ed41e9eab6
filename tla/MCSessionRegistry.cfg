SPECIFICATION FairSpec
CONSTANTS
  Keys = {k1, k2}
  Conns = {c1, c2}
  NoKey = NoKey
  NoConn = NoConn
  MaxId = 3
INVARIANTS OneShellPerKey OnlyFailedSpawnsStray StoppedStaysEmpty
PROPERTIES EnsureSparesLive RetiresAlone ImplementsKeyedShells StopEndsDaemon
CHECK_DEADLOCK FALSE
