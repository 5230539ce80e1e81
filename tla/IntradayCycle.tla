---------------------------- MODULE IntradayCycle ----------------------------
(***************************************************************************)
(* One intraday trading cycle: eleven steps in a fixed order, each of      *)
(* which completes, fails (it raised) or is skipped because of what the    *)
(* steps before it came to.  IntradayTradingCycleService.run_cycle returns *)
(* the outcome of every step; a failure never ends a cycle by itself.      *)
(*                                                                         *)
(* What the steps do to orders and signals is the subject of the modules   *)
(* OrderLedger, PositionLedger and SignalExecution; here a cycle is the    *)
(* function of its outcomes, and the question is which steps may run.      *)
(***************************************************************************)
EXTENDS Integers, FiniteSets

CONSTANTS
  MaxFaults       \* bound on the steps of one cycle that raise

ASSUME FaultsAssumption == MaxFaults \in Nat

Steps == {"maintenance", "intraday_bar_refresh", "timing2_price_sample_capture",
          "timing2_30s_bar_build", "sell_exit_scan", "sell_macd_scan",
          "timing2_lot_exit_scan", "sell_execution", "timing2_30s_trigger_scan",
          "buy_trigger_scan", "buy_execution"}

SellScans == {"sell_exit_scan", "sell_macd_scan", "timing2_lot_exit_scan"}

Outcomes == {"COMPLETED", "FAILED", "SKIPPED"}

\* What a cycle is asked for, and whether setup signals of timing2 exist.
Requests == [execute : BOOLEAN, timing1 : BOOLEAN, timing2 : BOOLEAN,
             setups : BOOLEAN]

Attempted == {"COMPLETED", "FAILED"}

-----------------------------------------------------------------------------
(* The outcomes each step may have in a cycle r that answers request req   *)

MaintenanceOutcomes == Attempted

BarRefreshOutcomes == Attempted

\* MissingTiming2SetupSignalsError skips a timing2 step, another error fails it.
WithSetups(req) == IF req.setups THEN Attempted ELSE {"SKIPPED", "FAILED"}

CaptureOutcomes(req) == IF req.timing2 THEN WithSetups(req) ELSE {"SKIPPED"}

BarBuildOutcomes(req, r) ==
  IF ~req.timing2 \/ r.timing2_price_sample_capture = "FAILED"
  THEN {"SKIPPED"}
  ELSE WithSetups(req)

SellExitScanOutcomes == Attempted

\* Without fresh 15-minute bars the scan counts as failed, not as skipped.
MacdScanOutcomes(r) ==
  IF r.intraday_bar_refresh = "FAILED" THEN {"FAILED"} ELSE Attempted

LotExitScanOutcomes == Attempted

SellExecutionSkipped(req, r) ==
  \/ req.execute /\ r.maintenance = "FAILED"
  \/ \A s \in SellScans : r[s] = "FAILED"
  \/ /\ r.sell_exit_scan = "FAILED"
     /\ "COMPLETED" \notin {r.timing2_lot_exit_scan, r.sell_macd_scan}
  \/ /\ r.timing2_lot_exit_scan = "FAILED"
     /\ "COMPLETED" \notin {r.sell_exit_scan, r.sell_macd_scan}

SellExecutionOutcomes(req, r) ==
  IF SellExecutionSkipped(req, r) THEN {"SKIPPED"} ELSE Attempted

\* Only timing1 is scanned here, and skipped when no convergence signal exists.
BuyTriggerOutcomes(req) == IF req.timing1 THEN Outcomes ELSE {"SKIPPED"}

TriggerScanOutcomes(req, r) ==
  IF ~req.timing2 \/ r.timing2_30s_bar_build = "FAILED"
  THEN {"SKIPPED"}
  ELSE WithSetups(req)

\* Mutant of BuyExecutionSkipped: a failed sell scan does not keep buys back.
BuyExecutionSkippedNotBySells(req, r) ==
  \/ /\ req.execute
     /\ \/ \E s \in {"maintenance", "timing2_price_sample_capture",
                     "timing2_30s_bar_build", "sell_execution"} :
             r[s] = "FAILED"
        \/ /\ r.timing2_30s_trigger_scan = "FAILED"
           /\ r.buy_trigger_scan # "COMPLETED"
  \/ /\ r.buy_trigger_scan = "FAILED"
     /\ r.timing2_30s_trigger_scan # "COMPLETED"

BuyExecutionSkipped(req, r) ==
  \/ /\ req.execute
     /\ \/ \E s \in {"maintenance", "sell_exit_scan", "sell_macd_scan",
                     "timing2_lot_exit_scan", "timing2_price_sample_capture",
                     "timing2_30s_bar_build", "sell_execution"} :
             r[s] = "FAILED"
        \/ /\ r.timing2_30s_trigger_scan = "FAILED"
           /\ r.buy_trigger_scan # "COMPLETED"
  \/ /\ r.buy_trigger_scan = "FAILED"
     /\ r.timing2_30s_trigger_scan # "COMPLETED"

BuyExecutionOutcomes(req, r) ==
  IF BuyExecutionSkipped(req, r) THEN {"SKIPPED"} ELSE Attempted

-----------------------------------------------------------------------------
(* Whole cycles                                                            *)

Failed(r) == {s \in Steps : r[s] = "FAILED"}

\* The steps that raised: a MACD scan without bars failed for another's fault.
Faults(r) ==
  IF r.intraday_bar_refresh = "FAILED"
  THEN Failed(r) \ {"sell_macd_scan"}
  ELSE Failed(r)

\* run_cycle: the steps in the order in which they run.
Cycle(req) ==
  {r \in [Steps -> Outcomes] :
    /\ r.maintenance \in MaintenanceOutcomes
    /\ r.intraday_bar_refresh \in BarRefreshOutcomes
    /\ r.timing2_price_sample_capture \in CaptureOutcomes(req)
    /\ r.timing2_30s_bar_build \in BarBuildOutcomes(req, r)
    /\ r.sell_exit_scan \in SellExitScanOutcomes
    /\ r.sell_macd_scan \in MacdScanOutcomes(r)
    /\ r.timing2_lot_exit_scan \in LotExitScanOutcomes
    /\ r.sell_execution \in SellExecutionOutcomes(req, r)
    /\ r.buy_trigger_scan \in BuyTriggerOutcomes(req)
    /\ r.timing2_30s_trigger_scan \in TriggerScanOutcomes(req, r)
    /\ r.buy_execution \in BuyExecutionOutcomes(req, r)
    /\ Cardinality(Faults(r)) <= MaxFaults}

\* _cycle_failed and _has_failed_step.
CycleFailed(r) == Failed(r) # {}

=============================================================================
