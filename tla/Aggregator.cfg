CONSTANTS
  p1 = p1
  p2 = p2
  Pods = {p1, p2}
  Pack <- TwoSignals
  Vectors <- VectorsOf
  Ruled = {"psi_io"}
  Cap = 2
  MaxRecent = 2
  MaxPolls = 3
SPECIFICATION Spec
INVARIANTS WindowSlides EventsInOrder EventsBacked
CHECK_DEADLOCK FALSE
