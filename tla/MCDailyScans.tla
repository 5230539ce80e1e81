---------------------------- MODULE MCDailyScans ----------------------------
(***************************************************************************)
(* Three days: two evenings on which the convergence may be found, and the *)
(* two mornings after them.  Symbol symA is followed by timing 1 and held, *)
(* symbol symB by timing 2 on the first day.                               *)
(***************************************************************************)
EXTENDS DailyScans

CONSTANTS symA, symB

TwoSymbols == <<symA, symB>>
FollowedBy == [k \in Setups |-> IF k = "timing1_setup" THEN {symA} ELSE {symB}]
LateBars == {<<1, 2>>, <<2, 1>>, <<2, 2>>}
SlotsDone ==
  [part \in ToSet(Parts) |->
     CASE part = "preopen" -> 0 [] part \in {"morning", "afternoon"} -> 1 [] OTHER -> 2]
DayPlan ==
  [k \in Kinds |->
     CASE k = "timing1_setup" -> {<<1, "preopen">>, <<2, "preopen">>}
       [] k = "timing2_setup" -> {<<1, "preopen">>}
       [] k = "timing1_convergence" -> {<<1, "afternoon">>, <<1, "closed">>, <<2, "closed">>}
       [] k = "timing1_intraday" -> {2, 3} \X {"preopen", "morning", "afternoon"}
       [] k = "timing2_intraday" -> {<<1, "morning">>, <<1, "afternoon">>}
       [] k = "bar_refresh" -> {1, 2} \X {"morning", "afternoon", "closed"}
       [] k = "sell_macd" -> {<<2, "morning">>, <<2, "afternoon">>}]
=============================================================================
