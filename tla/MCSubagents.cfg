SPECIFICATION Spec
CONSTANTS
  MaxSubs = 2
  MaxActs = 3
  MaxRunning = 2
  Prefetch = 2
  MaxTurns = 2
  MaxTroubles = 1
CHECK_DEADLOCK FALSE
INVARIANTS
  TypeOK
  SlotsCounted
  OpenIsRunning
  DeliveredIsTold
  TurnWaits
  StopReaches
PROPERTIES
  ToldOnce
  WaitEnds
