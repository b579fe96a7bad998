SPECIFICATION Spec
CONSTANTS
  MaxTurns = 2
  MaxDesks = 2
  MaxRounds = 2
  MaxActs = 1
CHECK_DEADLOCK FALSE
INVARIANT ThreadSound
PROPERTY HandoffMeans
PROPERTY TurnsEnd
