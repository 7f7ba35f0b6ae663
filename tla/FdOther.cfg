SPECIFICATION Spec
CONSTANTS
  NThreads = 2
  Fds = {1, 2}
  Colors = {1}
  FdColor <- MCFdColor
  Settings <- MCOthers
INVARIANTS PostedOnce
CHECK_DEADLOCK FALSE
