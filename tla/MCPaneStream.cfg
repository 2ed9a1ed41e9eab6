SPECIFICATION FairSpec
CONSTANTS
  Sessions = {s1, s2}
  MaxOut = 3
  Quota <- MCQuota
  MaxAttach = 1
  ChanCap = 1
  WireCap = 1
  EventCap = 1
  Budget = 2
  ChunkLimit = 1
INVARIANTS PendingAccounted ExactStream
PROPERTIES RequestAnswered ChunksArrive
CHECK_DEADLOCK FALSE
