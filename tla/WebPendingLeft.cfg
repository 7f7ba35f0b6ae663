SPECIFICATION Spec
CONSTANTS
  Sockets = {1}
  Settings <- MCFailingPipelined
INVARIANTS PendingEmpty
CHECK_DEADLOCK FALSE
