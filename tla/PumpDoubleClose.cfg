SPECIFICATION Spec
CONSTANTS
  PipeCap = 2
  MaxIn = 3
  MaxOut = 2
INVARIANTS ClosesItsOwn
CHECK_DEADLOCK FALSE
