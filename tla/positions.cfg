SPECIFICATION Spec
CONSTANTS
  A = A
  Z = Z
  buy = buy
  lotSell = lotSell
  sell = sell
  NoLot = NoLot
  Orders = {buy, lotSell, sell}
  Symbols = {A, Z}
  SymbolOf <- TheSymbols
  KindOf <- TheKinds
  BuyQty <- TheQuantities
  Prices = {1, 2}
  MaxOutside = 1
  MaxCrashes = 1
  MaxReconciles = 1
INVARIANTS
  TypeOK
  AccountsAgree
  LotsAgree
  StuckOnlyForAReason
CHECK_DEADLOCK FALSE
