CONSTANTS
  Warmup = 3
  Window = 3
  Inputs <- SmallInputs
  PairProfiles <- SmallPairProfiles
  SourceProfiles <- SmallSourceProfiles
SPECIFICATION Spec
INVARIANTS DetectorExact OneEvent EdgesFitMemory SourcesLead
CHECK_DEADLOCK FALSE
