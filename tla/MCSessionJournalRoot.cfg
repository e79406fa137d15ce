SPECIFICATION Spec
CONSTANTS
  Inputs = {1, 2}
  MaxLines = 6
CHECK_DEADLOCK FALSE
INVARIANT RootSurvives
