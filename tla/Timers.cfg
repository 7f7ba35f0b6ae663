SPECIFICATION FairSpec
CONSTANTS
  NThreads = 2
  Colors = {0}
  Timers = {1, 2}
  ColorOf <- MCColor
  Dates = {0, 1, 3}
  Second = 2
  MaxClock = 3
  Programs <- MCPrograms
INVARIANTS OnePlace NoTimerIgnored NoOversleep
PROPERTIES RunInOrder EveryTimerEnds
CHECK_DEADLOCK FALSE
