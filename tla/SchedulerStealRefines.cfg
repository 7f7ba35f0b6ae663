SPECIFICATION Spec
CONSTANTS
  NThreads = 2
  MaxColors = 5
  Stealing = TRUE
  BatchThreshold = 1
  IdlePrio <- MinusTwo
  Callbacks = {"a", "b", "c", "d"}
  BootProgram <- StealBoot
  ColorOf <- FourColor
  PrioOf <- FourPrio
  AtTail = {"a", "b", "c", "d"}
PROPERTIES ImplementsColoredTasks
CHECK_DEADLOCK FALSE
