CONSTANTS
  Threads = {t1, t2}
  Verdicts <- ThreeVerdicts
SPECIFICATION Spec
INVARIANT AlwaysAnswered
