SPECIFICATION Spec
CONSTANTS
  Crews = {c1, c2}
  Tasks = {k1}
  CanFail = TRUE
  MaxCrashes = 2
SYMMETRY Symmetry
INVARIANTS
  InterruptedHonest
PROPERTIES
  PromiseKept
CHECK_DEADLOCK FALSE
