------------------------- MODULE MCSignalExecution -------------------------
(***************************************************************************)
(* Instances of SignalExecution for TLC.                                   *)
(***************************************************************************)
EXTENDS SignalExecution, TLC

CONSTANTS p1, p2, A, B, C, morning, range, timing1, timing2, profit, stop, exit

\* Symbol A is held in one lot of two shares of the morning slot.  It can be
\* bought in either slot, and sold by lot or as a position.  B and C can be
\* bought.
DaySymbolOf ==
  (morning :> A) @@ (range :> A) @@ (timing1 :> B) @@ (timing2 :> C)
  @@ (profit :> A) @@ (stop :> A) @@ (exit :> A)
DayStrategyOf ==
  (morning :> "timing2_morning") @@ (range :> "timing2_range")
  @@ (timing1 :> "timing1") @@ (timing2 :> "timing2")
  @@ (profit :> "lot_take_profit") @@ (stop :> "lot_stop_loss")
  @@ (exit :> "sell_stop_loss")
DayLotOf == [s \in Signals |-> IF s \in {profit, stop} THEN 1 ELSE 0]
DayDays == {{range, timing1}, {timing1, timing2}, {morning, range}, {range, stop},
            {profit, stop}, {exit, stop}}
DayPrice == [x \in Symbols |-> 1]
DayPosition == [x \in Symbols |-> IF x = A THEN 2 ELSE 0]
DayLots == <<Lot(A, "timing2_morning", 2, 2, 0)>>
DayPeriods == <<"morning", "afternoon">>
=============================================================================
