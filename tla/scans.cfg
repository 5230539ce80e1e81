SPECIFICATION Spec
CONSTANTS
  Scanners = {loop}
  symA = symA
  symB = symB
  Universe <- TwoSymbols
  Held = {symA}
  Days = 3
  MaySetUp <- FollowedBy
  MayConverge <- LateBars
  Slots = 2
  CompletedAt <- SlotsDone
  MinBars = 2
  Truncated = {"bar_refresh", "timing1_convergence"}
  Schedule <- DayPlan
INVARIANTS
  TypeOK
  StagesInOrder
CHECK_DEADLOCK FALSE
