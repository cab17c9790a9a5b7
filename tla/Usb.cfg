SPECIFICATION FairSpec
CONSTANT MaxQueue = 2
INVARIANTS FreedIsForgotten UrbsAreOurs
PROPERTIES WriteReturns UnpluggedIsClosed
CHECK_DEADLOCK FALSE
