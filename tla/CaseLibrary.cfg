CONSTANTS
  Workloads = {1, 2, 3, 4}
  Graphs <- DiskGraphs
  OldCases <- OldLibrary
  TauMerge = 5100
  TauFamily = 3600
  MaxCases = 3
  MaxOccurrences = 2
SPECIFICATION Spec
INVARIANTS FamilyRooted LedgerAgrees NoNearDuplicate RecognisedAgain WitnessIsCoupling
