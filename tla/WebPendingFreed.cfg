SPECIFICATION Spec
CONSTANTS
  Sockets = {1}
  Settings <- MCLeaving
INVARIANTS PendingExists
CHECK_DEADLOCK FALSE
