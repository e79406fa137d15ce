SPECIFICATION Spec
CONSTANTS
  Paths = {f1, f2}
  Texts = {c1, c2}
  Saved = saved
  MaxTurns = 2
  MaxManifests = 2
  MaxOthers = 1
  MaxFaults = 1
SYMMETRY Symmetry
INVARIANTS TypeOK TurnUndone AllOrNothing ChainHolds NoLateTool ForeignKept
CHECK_DEADLOCK FALSE
