SPECIFICATION Spec
CONSTANTS
  NThreads = 2
  MaxColors = 2
  Stealing = FALSE
  BatchThreshold = 1
  IdlePrio <- MinusTwo
  Callbacks = {"a", "b", "c", "d"}
  BootProgram <- PlainBoot
  ColorOf <- PlainColor
  PrioOf <- PlainPrio
  AtTail = {"a", "b", "d"}
INVARIANTS TypeOK PollingTaskOnce
PROPERTIES NeverSleepsOnWork ImplementsColoredTasks
CHECK_DEADLOCK FALSE
