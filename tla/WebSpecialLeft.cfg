SPECIFICATION FairSpec
CONSTANTS
  Sockets = {1}
  Settings <- MCSpecialLeft
PROPERTIES ClosedAfterClient
CHECK_DEADLOCK FALSE
