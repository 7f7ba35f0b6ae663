SPECIFICATION FairSpec
CONSTANTS
  Sockets = {1, 2, 3}
  Settings <- MCSettings
INVARIANTS InOrder ClosedWhenDone NothingLost ClientsCounted NoFault
PROPERTIES EveryRequestAnswered ClosedAfterRequests
CHECK_DEADLOCK FALSE
