SPECIFICATION FairSpec
CONSTANTS
  MaxToken = 3
  MaxChunk = 3
  ChanCap = 2
INVARIANTS
  OneSurface
  NoSilentGap
  ClosedIsDetached
  NewestStaysConnected
PROPERTIES
  DeliverInOrder
  ImplementsTerminalStream
  ExitClosesOutput
  ClosedEndsForwarders
CHECK_DEADLOCK FALSE
