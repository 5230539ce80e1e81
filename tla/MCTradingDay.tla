----------------------------- MODULE MCTradingDay -----------------------------
(***************************************************************************)
(* Instances of TradingDay for TLC.                                        *)
(***************************************************************************)
EXTENDS TradingDay

CONSTANTS session, other

\* A session or a one-shot script, and a process of any other kind beside it.
TheKinds == [p \in Procs |-> IF p = session THEN {"session", "cycle"}
                                          ELSE Kinds \ {"session"}]

Line(execute, reuse, strategy, setups) ==
  [execute |-> execute, reuse |-> reuse, strategy |-> strategy,
   scan |-> setups, write |-> setups]

\* Timing2 after a full preparation, a reused universe, a preview, and timing2
\* without setups, which the session refuses; loops and single cycles that act
\* and that do not; maintenance and import passes that act.
TheArguments == [kind \in Kinds |->
  CASE kind = "session" ->
         {Line(TRUE, FALSE, "timing2", TRUE), Line(TRUE, TRUE, "default", FALSE),
          Line(FALSE, FALSE, "timing1", FALSE), Line(TRUE, FALSE, "timing2", FALSE)}
    [] kind \in {"polling", "cycle", "after_close"} ->
         {Line(TRUE, FALSE, "default", FALSE), Line(FALSE, FALSE, "timing2", FALSE)}
    [] OTHER -> {Line(TRUE, FALSE, "default", FALSE)}]
=============================================================================
