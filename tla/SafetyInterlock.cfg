CONSTANT Limit = 6
SPECIFICATION FairSpec
PROPERTIES LossTrips BeatsRearm
