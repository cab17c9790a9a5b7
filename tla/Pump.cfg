SPECIFICATION FairSpec
CONSTANTS
  PipeCap = 2
  MaxIn = 3
  MaxOut = 2
INVARIANTS FreedLast KickedOnce NothingIgnored SweepAfterOffline
PROPERTY Released
CHECK_DEADLOCK FALSE
