CONSTANTS
  p1 = p1
  p2 = p2
  Workloads = {1, 2}
  Pods = {p1, p2}
  WorkloadOf <- OneEachOfTwo
  Storage = {1, 2}
  SameNode = FALSE
  OldTables <- SomeOldTables
  MaxHits = 2
  Scale = 10
  Alpha = 4
  Decay = 1
  Show = 6
  Hide = 3
  Prior = 2
  FloorFrac = 4
SPECIFICATION FairSpec
INVARIANTS TypeOK HysteresisSound ServedAtFloor NoGhostNoDouble BackboneServed
PROPERTIES AbsentRowHeld FloorNeverFalls QuietSettles
