SPECIFICATION FairSpec
CONSTANTS
  Workers = {w1, w2}
  Collector = Collector
  Main = Main
  Kinds = {forbidden}
  NoKind = NoKind
  Burst = 1
  Window = 2
  MaxClock = 5
  MaxRefusals = 5
  MaxBack = 1
INVARIANTS
  RefusalsTold
  BudgetShared
PROPERTIES
  HeldTold
CHECK_DEADLOCK FALSE
