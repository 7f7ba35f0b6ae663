SPECIFICATION FairSpec
CONSTANTS
  Sockets = {1}
  Settings <- MCSpecialFirst
PROPERTIES FilesAnswered
CHECK_DEADLOCK FALSE
