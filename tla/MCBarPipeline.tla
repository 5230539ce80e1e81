---------------------------- MODULE MCBarPipeline ----------------------------
(***************************************************************************)
(* Two symbols over four bars of two ticks: two in the morning window, the *)
(* one that ends at 10:00, and one in the range phase.                     *)
(***************************************************************************)
EXTENDS BarPipeline

CONSTANTS symA, symB

TwoSymbols == <<symA, symB>>

\* Of a bar only the close matters, so its first tick has one price, that of the
\* open of the session.  The closes lie below (1), at (2) or above (3) it: a dip
\* in the first bar or not, anything in the second, and after the morning a close
\* that may or may not exceed the others.
\* The second symbol dips in the first bar and has no quotes after it.
Closes == <<{1, 2}, {1, 2, 3}, {1, 3}, {2, 3}>>
CloseMoves ==
  [s \in {symA, symB} |->
     [t \in 0..7 |->
        CASE s = symA -> IF t % 2 = 0 THEN {2} ELSE Closes[(t + 1) \div 2]
          [] s = symB -> IF t > 1 THEN {} ELSE {2 - t}]]
=============================================================================
