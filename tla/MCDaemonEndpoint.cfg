SPECIFICATION FairSpec
CONSTANTS
  l1 = l1
  l2 = l2
  res = res
  Launchers = {l1, l2}
  Resident = res
  None = none
  Attempts = 1
  Release <- MCRelease
INVARIANTS GuardHolds OneDaemonForAll
PROPERTIES StartEnds
CHECK_DEADLOCK FALSE
