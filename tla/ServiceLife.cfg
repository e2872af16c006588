\* The three commands that sync, two web requests at a time.
SPECIFICATION Spec
CONSTANTS
  MaxWork = 2
  MaxHandlers = 2
INVARIANTS TypeOK NoUseAfterClose
PROPERTIES CyclesRecur StopEnds
CHECK_DEADLOCK FALSE
