SPECIFICATION Spec
CONSTANTS
  Symbols = {btc, eth}
  Orders = {o1, o2}
  MaxQty = 1
  Marks = {1}
  LowMark = 1
  MaxFillDrift = 0
  MaxOrderNotional = 1
  MaxSymbolNotional = 1
  MaxGross = 1
  MaxWorkingOrders = 2
  LastDay = 0
INVARIANTS
  GrossCapHolds
