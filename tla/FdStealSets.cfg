SPECIFICATION Spec
CONSTANTS
  NThreads = 2
  Fds = {1, 2}
  Colors = {1}
  FdColor <- MCFdColor
  Settings <- MCStolenWrites
INVARIANTS OneSet
CHECK_DEADLOCK FALSE
