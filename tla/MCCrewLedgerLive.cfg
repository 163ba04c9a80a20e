SPECIFICATION FairSpec
CONSTANTS
  Submitter = s
  Pollers = {p}
  Collector = col
  NoThread = NoThread
  CanFail = FALSE
  CanEvict = FALSE
  EngineEvicts = FALSE
  EngineErrs = FALSE
PROPERTIES
  FinishedStored
CHECK_DEADLOCK FALSE
