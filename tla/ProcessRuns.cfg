CONSTANTS
  PipeCap = 1
  Limit = 1
  MaxInput = 2
SPECIFICATION Spec
INVARIANTS
  TypeOK
  OutputIsKept
  TimeoutLeavesNobody
PROPERTIES
  TimedRunEnds
  PipesAreServed
CHECK_DEADLOCK FALSE
