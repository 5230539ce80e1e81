SPECIFICATION Spec
CONSTANTS
  Scanners = {loop}
  symA = symA
  symB = symB
  Setup <- TwoSymbols
  MaxSymbols = 2
  Quotes <- CloseMoves
  NoPrice = 0
  BarTicks = 2
  LastTick = 8
  MinSamples = 2
  MorningEnd = 6
  RangeStart = 6
  MaxFaults = 1
INVARIANTS
  TypeOK
  TransitionsJustified
PROPERTY BarsAreFinal
CHECK_DEADLOCK FALSE
