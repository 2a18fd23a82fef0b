CONSTANTS
  DevK = 4
  MinN = 2
  OneIn = 2
  ResetWindow = 1
  RingSize = 3
  MinPoints = 1
  MaxHeat = 1
  SIGNALS <- TwoSignals
  Levels <- CalmAndStormy
SPECIFICATION Spec
INVARIANTS TypeOK QuietIsSilent
PROPERTIES ServedSpec BandKept StormEnds
