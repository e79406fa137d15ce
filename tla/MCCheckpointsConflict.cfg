SPECIFICATION Spec
CONSTANTS
  Paths = {f1}
  Texts = {c1, c2}
  Saved = saved
  MaxTurns = 1
  MaxManifests = 1
  MaxOthers = 1
  MaxFaults = 0
PROPERTIES RefusalTouchesNothing
CHECK_DEADLOCK FALSE
