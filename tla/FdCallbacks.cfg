SPECIFICATION FairSpec
CONSTANTS
  NThreads = 2
  Fds = {1, 2}
  Colors = {1}
  FdColor <- MCFdColor
  Settings <- MCSettings
INVARIANTS PostedOnce CallsRegistered Watched OneSet NoPanic
PROPERTIES CheckEnds
CHECK_DEADLOCK FALSE
