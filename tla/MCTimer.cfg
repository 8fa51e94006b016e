CONSTANT MaxStops = 4
SPECIFICATION FairSpec
INVARIANTS NoCallbackAfterStop AtMostOneLateCallback
PROPERTY StopReturns
CHECK_DEADLOCK FALSE
