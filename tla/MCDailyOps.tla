----------------------------- MODULE MCDailyOps -----------------------------
(***************************************************************************)
(* Instances of DailyOps for TLC.                                          *)
(***************************************************************************)
EXTENDS DailyOps

CONSTANTS changer, reader, checker

\* One process changes the switch, another reads it.
TheSetters == [t \in Setters |-> IF t = changer THEN {"enable", "disable"} ELSE {"status"}]

\* The files of every kind of script; those that preview a step come with the
\* files of the step only where the report treats them apart.
TheScripts ==
  {"startup_check", "trading_session_execute", "execute_buy_signals_execute",
   "execute_sell_signals_execute", "after_close_write", "order_maintenance_preview",
   "order_maintenance_execute",
   "execution_recovery_review", "execution_recovery_import_execute", "rehearsal"}

Command(send, dispatch, force, level) ==
  [send |-> send, dispatch |-> dispatch, force |-> force, level |-> level]

\* Checks that send from WARNING up, with and without regard to what was sent, one
\* that only says what is CRITICAL, and the sender started by hand.
TheCommands ==
  {Command(FALSE, TRUE, FALSE, "WARNING"), Command(FALSE, TRUE, TRUE, "WARNING"),
   Command(FALSE, FALSE, FALSE, "CRITICAL"), Command(TRUE, TRUE, FALSE, "READY")}
==============================================================================
