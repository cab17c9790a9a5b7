SPECIFICATION Spec
CONSTANTS
  MaxId = 2
  HostBytes = 0
  DeviceBytes = 1
  MAX_PAYLOAD = 1
  FdCap = 1
  Openers = {"host", "device"}
  Shuts = {"full"}
  LinkMayFail = FALSE
INVARIANTS Paired
CHECK_DEADLOCK FALSE
