SPECIFICATION Spec
CONSTANTS
  NThreads = 2
  MaxColors = 3
  Stealing = FALSE
  BatchThreshold = 1
  IdlePrio <- MinusTwo
  Callbacks = {"a", "b"}
  BootProgram <- ModuloBoot
  ColorOf <- ModuloColor
  PrioOf <- ModuloPrio
  AtTail = {"a", "b"}
INVARIANTS ColorExclusion
CHECK_DEADLOCK FALSE
