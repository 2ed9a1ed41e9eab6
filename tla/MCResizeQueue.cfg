SPECIFICATION FairSpec
CONSTANTS
  Panes = {p1}
  Sizes = {g1, g2}
  NoPane = NoPane
  NoSize = NoSize
  MaxSession = 2
  MaxQueue = 3
INVARIANTS OneFlush PendingIsCurrent SettledGeometry
PROPERTIES LastSizeArrives DropJoins
CHECK_DEADLOCK FALSE
