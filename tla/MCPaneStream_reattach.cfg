SPECIFICATION Spec
CONSTANTS
  Sessions = {s1}
  MaxOut = 3
  Quota <- MCQuota
  MaxAttach = 2
  ChanCap = 1
  WireCap = 1
  EventCap = 1
  Budget = 3
  ChunkLimit = 3
INVARIANTS ReattachExact
CHECK_DEADLOCK FALSE
