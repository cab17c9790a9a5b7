SPECIFICATION FairSpec
CONSTANTS
  Devices = {d1, d2}
  Names = {n1, n2}
  Clients = {c1}
  Smart = smart
  None = none
  Lines = 1
INVARIANTS ForwardsHooked TrackersTold
PROPERTIES NotTakenAway WaitReturns
CHECK_DEADLOCK FALSE
