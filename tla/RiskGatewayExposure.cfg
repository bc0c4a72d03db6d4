SPECIFICATION Spec
CONSTANTS
  Symbols = {btc}
  Orders = {o1, o2, o3}
  MaxQty = 2
  Marks = {1, 2}
  LowMark = 1
  MaxFillDrift = 1
  MaxOrderNotional = 3
  MaxSymbolNotional = 3
  MaxGross = 3
  MaxWorkingOrders = 2
  LastDay = 0
SYMMETRY DeskSymmetry
INVARIANTS
  ConcentrationHolds
  ReplaceNeverDoubles
  HaltedDeskRestsNothing
