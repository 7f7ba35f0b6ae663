SPECIFICATION Spec
CONSTANTS
  Sockets = {1}
  Settings <- MCImpatient
INVARIANTS RequestAlone
CHECK_DEADLOCK FALSE
