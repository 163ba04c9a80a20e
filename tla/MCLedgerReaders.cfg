SPECIFICATION FairSpec
CONSTANTS
  Workers = {w1}
  Collector = col
  Crews = {c1, c2, c3, c4}
  Rings = {r1, r2}
  MaxSize = 1
  LowWater = 0
  EvictMax = 1
  NoRing = NoRing
  NoThread = NoThread
INVARIANTS
  NoUseAfterRelease
  RingOwnership
PROPERTIES
  EvictedGivenBack
