SPECIFICATION Spec
CONSTANTS
  Transports = {t1, t2, t3}
  Serials = {"a", "b"}
  Kinds = {"usb", "tcp"}
INVARIANTS ListsIntact SerialUnique
CHECK_DEADLOCK FALSE
