SPECIFICATION Spec
CONSTANTS
  Inputs = {1, 2}
  MaxLines = 7
CHECK_DEADLOCK FALSE
INVARIANTS TypeOK NoDouble
PROPERTY Implements
