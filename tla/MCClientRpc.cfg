SPECIFICATION FairSpec
CONSTANTS
  MaxId = 3
  MaxFrames = 3
  EventCap = 1
INVARIANTS NoSlotLeaks
PROPERTIES WatchedReturns
CHECK_DEADLOCK FALSE
