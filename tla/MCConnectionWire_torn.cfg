SPECIFICATION Spec
CONSTANTS
  Sessions = {s1}
  MaxAttach = 2
  MaxTotal = 2
  ChanCap = 1
  FrameSize = 2
  SockCap = 1
PROPERTIES FramesWhole
CHECK_DEADLOCK FALSE
