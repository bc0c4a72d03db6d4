SPECIFICATION FairSpec
CONSTANTS
  Traced = FALSE
  MaxPresses = 2
  MaxBurst = 2
  MaxActs = 2
  MaxClicks = 3
  MaxEvents = 1
INVARIANTS
  AcceptedOnce
  DoubtIsShown
  LossIsSaid
PROPERTIES
  PanelCatchesUp
