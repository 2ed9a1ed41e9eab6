SPECIFICATION FairSpec
CONSTANTS
  MaxId = 3
  MaxFrames = 3
  EventCap = 1
PROPERTIES EveryCallReturns
CHECK_DEADLOCK FALSE
