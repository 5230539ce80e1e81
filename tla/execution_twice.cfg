SPECIFICATION Spec
CONSTANTS
  p1 = p1
  p2 = p2
  A = A
  B = B
  C = C
  morning = morning
  range = range
  timing1 = timing1
  timing2 = timing2
  profit = profit
  stop = stop
  exit = exit
  NoSignal = NoSignal
  Executors = {p1, p2}
  Signals = {morning, range, timing1, timing2, profit, stop, exit}
  Symbols = {A, B, C}
  SymbolOf <- DaySymbolOf
  StrategyOf <- DayStrategyOf
  LotOf <- DayLotOf
  Days <- DayDays
  Periods <- DayPeriods
  SignalLimit = 10
  MaxSignalAge = TRUE
  Price <- DayPrice
  InitCash = 3
  InitPosition <- DayPosition
  InitLots <- DayLots
  Budget = 2
  MaxHoldings = 2
  MaxDailyOrders = 2
  MaxMishaps = 0
INVARIANTS
  SignalOrderedOnce
CHECK_DEADLOCK FALSE
