SPECIFICATION PageFairSpec
CONSTANTS
  Surfaces = {book, cockpit}
  Audited = {cockpit}
  Streak = 2
  MaxChanges = 1
  MaxDisturbances = 1
INVARIANTS
  LoopsStayAlive
PROPERTIES
  NeverBackwards
  DeskCatchesUp
  StreamReturns
CHECK_DEADLOCK FALSE
