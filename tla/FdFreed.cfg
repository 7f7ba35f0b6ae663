SPECIFICATION Spec
CONSTANTS
  NThreads = 2
  Fds = {1, 2}
  Colors = {1}
  FdColor <- MCFdColor
  Settings <- MCRemoves
INVARIANTS CallsRegistered
CHECK_DEADLOCK FALSE
