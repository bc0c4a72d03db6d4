SPECIFICATION FairSpec
CONSTANTS
  Orders = {o1, o2}
  Requests = {a, b}
  MaxHalts = 1
INVARIANTS
  RowsAccounted
  HaltIsTold
PROPERTIES
  QueueIsDrained
CHECK_DEADLOCK FALSE
