SPECIFICATION Spec
CONSTANTS
  Sources <- MCSources
  IdleTicks = 3
  MaxFailures = 1
INVARIANT IdleEnds
CHECK_DEADLOCK FALSE
