SPECIFICATION Spec
CONSTANTS
  NThreads = 2
  MaxColors = 7
  Stealing = TRUE
  BatchThreshold = 2
  IdlePrio <- MinusTwo
  Callbacks = {"a", "b", "c", "d", "e"}
  BootProgram <- FiveBoot
  ColorOf <- FiveColor
  PrioOf <- FivePrio
  AtTail = {"a", "b", "c", "d"}
INVARIANTS ColorExclusion OneHome NoStrandedTask CountersExact StealListExact NoPanic
CHECK_DEADLOCK FALSE
