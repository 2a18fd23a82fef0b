CONSTANTS
  DevK = 4
  MinN = 2
  OneIn = 2
  ResetWindow = 1
  RingSize = 5
  MinPoints = 2
  MaxHeat = 1
  SIGNALS <- Busy
  Levels <- BusyLevels
SPECIFICATION Spec
INVARIANT SteadyIsSilent
