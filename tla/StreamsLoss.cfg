SPECIFICATION Spec
CONSTANTS
  MaxId = 1
  HostBytes = 3
  DeviceBytes = 1
  MAX_PAYLOAD = 2
  FdCap = 1
  Openers = {"host"}
  Shuts = {"half", "full"}
  LinkMayFail = FALSE
PROPERTIES ClosingIsDrained
CHECK_DEADLOCK FALSE
