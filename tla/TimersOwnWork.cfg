SPECIFICATION Spec
CONSTANTS
  NThreads = 2
  Colors = {0}
  Timers = {1, 2}
  ColorOf <- MCColor
  Dates = {0, 1, 3}
  Second = 2
  MaxClock = 3
  Programs <- MCOneTimer
INVARIANTS WaitsAlone
CHECK_DEADLOCK FALSE
