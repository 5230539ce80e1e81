CONSTANTS
  b = b
  s = s
  t = t
  w1 = w1
  w2 = w2
  NoOrder = NoOrder
  Orders = {b}
  Workers = {w1, w2}
  Qty <- BuyQty
  Side <- BuySide
  InitPosition = 0
  MaxCrashes = 1
SPECIFICATION Spec
INVARIANT RejectedNeverLive
CHECK_DEADLOCK FALSE
