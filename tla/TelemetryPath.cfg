CONSTANTS
  MaxReadings = 2
  MaxArrivals = 3
  QueueMax = 2
  BatchMax = 2
  Polls = {p1, p2}
  Low = 2
  MaxTries = 2
SPECIFICATION Spec
INVARIANTS TypeOK WrittenOnceInOrder CountedIsWritten
PROPERTIES StallIsTold
