SPECIFICATION Spec
CONSTANTS
  Conn = {c1, c2, c3}
  MaxAcceptErrors = 2
INVARIANTS
  TypeOK
  ErrorsAccounted
PROPERTIES
  Served
  NodeStops
CHECK_DEADLOCK FALSE
