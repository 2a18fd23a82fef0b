CONSTANTS
  Pods = {1, 2, 3, 4}
  Signals = {"psi_io", "psi_cpu"}
  EdgeLists <- Lists
  FindingSets <- MCFindings
  Onset <- MCOnset
  NoSignal = "none"
SPECIFICATION Spec
INVARIANTS ImpactIsBest BlastIsOneRoute RootAccountable
CHECK_DEADLOCK FALSE
