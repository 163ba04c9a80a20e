SPECIFICATION Spec
CONSTANTS
  Threads = {t1, t2}
  RingSize = 2
  NoThread = NoThread
  MaxHashes = 5
  MaxOpens = 3
  MaxAltered = 2
INVARIANTS
  HonestTrail
  RingTrue
PROPERTIES
  AlterationFound
CHECK_DEADLOCK FALSE
