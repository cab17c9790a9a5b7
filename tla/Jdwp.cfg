SPECIFICATION FairSpec
CONSTANTS
  Procs = {p1, p2}
  Pids = {5}
  Clients = {c1}
  MAX_OUT_FDS = 2
  MaxConns = 3
  MaxPieces = 3
INVARIANTS OwnedOnce PassedInOrder TrackersAreCurrent
PROPERTIES QueuesDrain ListFollowsLife
CHECK_DEADLOCK FALSE
