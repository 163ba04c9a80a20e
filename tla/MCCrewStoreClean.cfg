SPECIFICATION FairSpec
CONSTANTS
  Crews = {c1, c2}
  Tasks = {k1}
  CanFail = FALSE
  MaxCrashes = 2
INVARIANTS
  ListingRepairable
PROPERTIES
  InflightEnds
CHECK_DEADLOCK FALSE
