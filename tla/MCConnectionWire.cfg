SPECIFICATION FairSpec
CONSTANTS
  Sessions = {s1, s2}
  MaxAttach = 2
  MaxTotal = 3
  ChanCap = 1
  FrameSize = 2
  SockCap = 1
INVARIANTS CleanDisconnect
PROPERTIES TornOnlyByAbort NoLateOutput OthersStayAttached RequestsFinish ClosedIsCleaned
CHECK_DEADLOCK FALSE
