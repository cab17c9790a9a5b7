SPECIFICATION FairSpec
CONSTANTS
  MaxId = 1
  HostBytes = 1
  DeviceBytes = 3
  MAX_PAYLOAD = 1
  FdCap = 1
  Openers = {"host"}
  Shuts = {"full"}
  LinkMayFail = FALSE
PROPERTIES CloseReachesPeer ReadIsDelivered SmartIsAnswered WrittenIsRead
CHECK_DEADLOCK FALSE
