CONSTANTS
  Threads = {t1, t2}
  Verdicts <- ThreeVerdicts
SPECIFICATION FairSpec
INVARIANTS AnswersOwnShape CacheBounded
PROPERTY EveryRequestEnds
