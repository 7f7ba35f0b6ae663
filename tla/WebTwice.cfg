SPECIFICATION Spec
CONSTANTS
  Sockets = {1}
  Settings <- MCLeaving404
INVARIANTS ClosedOnce
CHECK_DEADLOCK FALSE
