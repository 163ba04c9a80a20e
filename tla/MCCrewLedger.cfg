SPECIFICATION Spec
CONSTANTS
  Submitter = s
  Pollers = {p}
  Collector = col
  NoThread = NoThread
  CanFail = TRUE
  CanEvict = TRUE
  EngineEvicts = TRUE
  EngineErrs = TRUE
INVARIANTS
  TypeOK
  PlaceBackOnce
  FeedWhole
  DurableTrue
  NothingForgotten
  CancelTruthful
PROPERTIES
  NeverBack
CHECK_DEADLOCK FALSE
