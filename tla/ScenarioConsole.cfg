CONSTANTS
  Threads = {t1, t2}
  MaxRounds = 2
SPECIFICATION ConsoleSpec
INVARIANT ConflictNeedsRival
PROPERTIES RequestsEnd ArmedRuns
