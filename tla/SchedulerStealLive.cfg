SPECIFICATION FairSpec
CONSTANTS
  NThreads = 2
  MaxColors = 5
  Stealing = TRUE
  BatchThreshold = 1
  IdlePrio <- MinusTwo
  Callbacks = {"a", "b", "c"}
  BootProgram <- LiveBoot
  ColorOf <- LiveColor
  PrioOf <- LivePrio
  AtTail = {"a", "b", "c"}
PROPERTIES EveryTaskRuns
CHECK_DEADLOCK FALSE
