SPECIFICATION Spec
CONSTANTS
  Sources <- MCSources
  IdleTicks = 1
  MaxFailures = 5
INVARIANTS
  TypeOK
  RoundRobin
  GivesUpAfterAll
PROPERTIES
  ImplementsAttempts
CHECK_DEADLOCK FALSE
