SPECIFICATION FairSpec
CONSTANTS
  Shells = {s1, s2}
  Fds = {1, 2}
  MaxOut = 2
  MAX_PAYLOAD = 2
  None = none
INVARIANTS OutputWhole
PROPERTIES ShellCloses WaiterEnds
CHECK_DEADLOCK FALSE
