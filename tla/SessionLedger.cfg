SPECIFICATION Spec
CONSTANTS
  Fills = {f1, f2, f3}
  DayLength = 3
  LastTime = 8
  SweepMax = 2
  CoarseClock = FALSE
SYMMETRY FillSymmetry
INVARIANTS
  ReplayIsBook
  CarryIsDurable
  CountedOnce
  AlwaysBootable
CHECK_DEADLOCK FALSE
