SPECIFICATION Spec
CONSTANTS
  Sockets = {1}
  Settings <- MCLong
INVARIANTS LongKicked
CHECK_DEADLOCK FALSE
