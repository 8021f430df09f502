SPECIFICATION Spec
CONSTANTS
  MaxUp = 1
  MaxDown = 3
  LineLimit = 1
  Window = 2
INVARIANTS
  TypeOK
  CleanStream
  FailureExplained
PROPERTIES
  TornDown
CHECK_DEADLOCK FALSE
