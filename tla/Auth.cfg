SPECIFICATION FairSpec
CONSTANTS
  Keys = 3
  MaxTransports = 2
  MaxFrameworks = 2
  MaxRestarts = 2
INVARIANTS
  TypeOK
  RetryHasTransport
  ShownIsOnline
  NoNeedlessPrompt
PROPERTY ConnectedInTheEnd
CHECK_DEADLOCK FALSE
