SPECIFICATION Spec
CONSTANTS
  MaxId = 1
  HostBytes = 1
  DeviceBytes = 3
  MAX_PAYLOAD = 2
  FdCap = 1
  Openers = {"host"}
  Shuts = {"half", "full"}
  LinkMayFail = TRUE
INVARIANTS TypeOK FlowControl NeverFaults InOrder SweepIsQuiet SilentOnlyBySweep
PROPERTIES IsPipe
CHECK_DEADLOCK FALSE
