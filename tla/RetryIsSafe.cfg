SPECIFICATION Spec
CONSTANTS
  Traced = TRUE
  MaxPresses = 2
  MaxBurst = 1
  MaxActs = 0
  MaxClicks = 2
  MaxEvents = 1
INVARIANTS
  RetryIsSafe
