SPECIFICATION FairSpec
CONSTANTS
  Sockets = {1}
  Settings <- MCHalf
PROPERTIES ClosedAfterClient
CHECK_DEADLOCK FALSE
