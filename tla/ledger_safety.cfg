CONSTANTS
  b = b
  s = s
  t = t
  w1 = w1
  w2 = w2
  NoOrder = NoOrder
  Orders = {b, s, t}
  Workers = {w1, w2}
  Qty <- BuyAndSellsQty
  Side <- BuyAndSellsSide
  InitPosition = 1
  MaxCrashes = 0
SYMMETRY WorkerAndSellSymmetry
SPECIFICATION Spec
INVARIANTS
  TypeOK
  FillAccounting
  UnbookedFillsStayImportable
  LedgerBalance
PROPERTY PromiseKept
CHECK_DEADLOCK FALSE
