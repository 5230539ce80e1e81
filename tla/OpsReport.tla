------------------------------ MODULE OpsReport ------------------------------
(***************************************************************************)
(* The daily operations report as operators: scripts leave one JSON file   *)
(* per label in the directory of the day; the report reads them all, turns *)
(* what it finds into attention flags, weighs them, and words an alert.    *)
(* The notification and the dispatch record are made from the report, and  *)
(* the dashboard shows it.  A directory of files is a function from labels *)
(* to what the JSON holds, its domain the files that exist.                *)
(***************************************************************************)
EXTENDS Integers, FiniteSets, SequencesExt

SessionLabels == {"trading_session_preview", "trading_session_execute"}
BuyLabels == {"execute_buy_signals_preview", "execute_buy_signals_execute"}
SellLabels == {"execute_sell_signals_preview", "execute_sell_signals_execute"}
AfterCloseLabels == {"after_close_preview", "after_close_write"}
MaintenanceLabels == {"order_maintenance_preview", "order_maintenance_execute"}
ImportLabels == {"execution_recovery_import_preview",
                 "execution_recovery_import_execute"}
SwitchLabels == {"kill_switch_status", "kill_switch_enable", "kill_switch_disable"}

\* KNOWN_ARTIFACT_FILES, and the summary of the latest rehearsal.
KnownLabels ==
  SessionLabels \union BuyLabels \union SellLabels \union AfterCloseLabels \union
  MaintenanceLabels \union ImportLabels \union SwitchLabels \union
  {"startup_check", "stale_signal_cleanup_review", "execution_recovery_review",
   "execution_recovery_draft", "rehearsal"}

Having(files, labels) == labels \intersect DOMAIN files

\* A count a file may lack is -1.
SumOptional(a, b) == IF a = -1 THEN b ELSE IF b = -1 THEN a ELSE a + b

-----------------------------------------------------------------------------
(* Flags                                                                   *)

\* A flag is the label of its file and the trouble; two are not a file's own.
Flag(label, trouble) == <<label, trouble>>
SwitchFlag == Flag("kill_switch", "ENABLED")
ManualFlag == Flag("order_maintenance", "MANUAL_RECOVERY_REQUIRED")
StaleFlag == Flag("order_maintenance", "STALE_SIGNAL_CLEANUP_BLOCKED_ITEMS")

\* _latest_kill_switch_state: the file of the latest change, the label breaking
\* ties; a switch never set has stamp 0.
SwitchRank(label) ==
  CASE label = "kill_switch_disable" -> 1
    [] label = "kill_switch_enable"  -> 2
    [] label = "kill_switch_status"  -> 3

\* Mutant of LatestSwitch: the order in which the labels are listed decides.
LatestSwitchByLabel(files) ==
  CHOOSE l \in Having(files, SwitchLabels) :
    \A k \in Having(files, SwitchLabels) \ {l} : SwitchRank(k) < SwitchRank(l)

LatestSwitch(files) ==
  CHOOSE l \in Having(files, SwitchLabels) :
    \A k \in Having(files, SwitchLabels) \ {l} :
      \/ files[k].stamp < files[l].stamp
      \/ files[k].stamp = files[l].stamp /\ SwitchRank(k) < SwitchRank(l)

SwitchShown(files) ==
  Having(files, SwitchLabels) # {} /\ files[LatestSwitch(files)].enabled

StartupFlags(files) ==
  {Flag("startup_check", IF files[l].reconcile = "OPEN_ENTRY_LOT_POSITION_MISMATCH"
                         THEN "OPEN_ENTRY_LOT_POSITION_MISMATCH" ELSE "NOT_READY") :
    l \in {k \in Having(files, {"startup_check"}) : files[k].outcome # "READY"}}

\* The failures of every cycle that refreshed bars.
RefreshFailures(cycles) == FoldLeft(LAMBDA sum, n : sum + n, 0, cycles)

SessionTrouble(body) ==
  CASE body.outcome \in {"PREOPEN_BLOCKED", "POLLING_BLOCKED", "POLLING_LOCK_BUSY"}
         -> {"BLOCKED"}
    [] body.outcome = "COMPLETED" -> {}
    [] OTHER -> {"FAILED"}

SessionFlags(files) ==
  UNION {{Flag(l, t) : t \in
    SessionTrouble(files[l]) \union
    (IF files[l].setups = "not_ready" THEN {"TIMING2_SETUP_NOT_READY"} ELSE {}) \union
    (IF RefreshFailures(files[l].refresh) > 0
     THEN {"INTRADAY_BAR_REFRESH_PARTIAL_FAILURE"} ELSE {})} :
    l \in Having(files, SessionLabels)}

\* A buy pass that was stopped is blocked, one that broke off has failed.
BuyTrouble(body) ==
  IF body.error \/ body.stop = "FAILED" THEN {"FAILED"}
  ELSE IF body.stop # "none" THEN {"BLOCKED"} ELSE {}

\* Mutant of SellTrouble: only a pass that broke off has failed.
SellTroubleOfErrors(body) ==
  IF body.error THEN {"FAILED"}
  ELSE IF body.stop = "LOCK_BUSY" THEN {"BLOCKED"} ELSE {}

\* A sell pass has failed even if only one of its orders did.
SellTrouble(body) ==
  IF body.error \/ body.stop \notin {"none", "LOCK_BUSY"} THEN {"FAILED"}
  ELSE IF body.stop = "LOCK_BUSY" THEN {"BLOCKED"} ELSE {}

ExecutionFlags(files) ==
  (UNION {{Flag(l, t) : t \in BuyTrouble(files[l])} : l \in Having(files, BuyLabels)})
  \union
  (UNION {{Flag(l, t) : t \in SellTrouble(files[l])} : l \in Having(files, SellLabels)})

AfterCloseTrouble(body) ==
  CASE body.outcome = "LOCK_BUSY" -> {"BLOCKED"}
    [] body.outcome = "COMPLETED" -> {}
    [] OTHER -> {"FAILED"}

AfterCloseFlags(files) ==
  UNION {{Flag(l, t) : t \in AfterCloseTrouble(files[l])} :
    l \in Having(files, AfterCloseLabels)}

\* _summarize_order_maintenance adds up the two clean-ups of stale signals.
StaleBlocked(body) == SumOptional(body.stale_buys, body.stale_sells)

MaintenanceFlags(files) ==
  UNION {
    (IF files[l].error THEN {Flag(l, "FAILED")} ELSE {}) \union
    (IF files[l].manual > 0 THEN {ManualFlag} ELSE {}) \union
    (IF StaleBlocked(files[l]) > 0 THEN {StaleFlag} ELSE {}) :
    l \in Having(files, MaintenanceLabels)}

RecoveryFlags(files) ==
  {Flag(l, "HAS_MANUAL_ITEMS") : l \in
    {k \in Having(files, {"execution_recovery_review"}) : files[k].manual > 0}}
  \union
  UNION {
    (IF files[l].error THEN {Flag(l, "FAILED")} ELSE {}) \union
    (IF files[l].blocked > 0 THEN {Flag(l, "HAS_BLOCKED_ITEMS")} ELSE {}) :
    l \in Having(files, ImportLabels)}

\* _rehearsal_timing2_30s_verified: a rehearsal that asked for timing2 counts only
\* if its first cycle has results of the three steps.
RehearsalVerified(body) == body.pipeline \in {"not_asked", "run"}

RehearsalTrouble(body) ==
  CASE body.outcome \in {"STARTUP_FAILED", "TRADING_SESSION_FAILED",
                         "AFTER_CLOSE_FAILED"} -> {"FAILED"}
    [] body.outcome \in {"STARTUP_BLOCKED", "TRADING_SESSION_BLOCKED",
                         "AFTER_CLOSE_BLOCKED"} -> {"BLOCKED"}
    [] body.outcome = "COMPLETED" /\ ~RehearsalVerified(body)
         -> {"TIMING2_30S_NOT_VERIFIED"}
    [] OTHER -> {}

RehearsalFlags(files) ==
  UNION {{Flag(l, t) : t \in RehearsalTrouble(files[l])} :
    l \in Having(files, {"rehearsal"})}

AttentionFlags(files) ==
  (IF SwitchShown(files) THEN {SwitchFlag} ELSE {}) \union StartupFlags(files) \union
  SessionFlags(files) \union ExecutionFlags(files) \union AfterCloseFlags(files) \union
  MaintenanceFlags(files) \union RecoveryFlags(files) \union RehearsalFlags(files)

-----------------------------------------------------------------------------
(* Outcome, severity, alert                                                *)

Failed(flag) == flag[2] = "FAILED"

ReportOutcome(files, flags) ==
  IF DOMAIN files = {} THEN "NO_ARTIFACTS"
  ELSE IF \E f \in flags : Failed(f) THEN "FAILED"
  ELSE IF flags # {} THEN "ATTENTION" ELSE "READY"

\* CRITICAL_ATTENTION_FLAGS
CriticalFlags ==
  {SwitchFlag, Flag("execution_recovery_import_execute", "HAS_BLOCKED_ITEMS")} \union
  {Flag(l, "FAILED") : l \in
    {"trading_session_execute", "execute_buy_signals_execute",
     "execute_sell_signals_execute", "after_close_write",
     "order_maintenance_execute", "execution_recovery_import_execute"}}

Health(files, flags) ==
  IF DOMAIN files = {} THEN "NO_ARTIFACTS"
  ELSE IF flags \intersect CriticalFlags # {} THEN "CRITICAL"
  ELSE IF flags # {} THEN "WARNING" ELSE "READY"

\* The row a flag is shown at: for the two flags that either mode can raise,
\* the file of the executing run whenever there is one; for stale signals, a
\* review that lists blocked ones, or the run that counted them.
SummaryKey(files, flag) ==
  CASE flag = SwitchFlag -> LatestSwitch(files)
    [] flag = ManualFlag ->
         IF "order_maintenance_execute" \in DOMAIN files
         THEN "order_maintenance_execute" ELSE "order_maintenance_preview"
    [] flag = StaleFlag ->
         IF \E l \in Having(files, {"stale_signal_cleanup_review"}) : files[l].blocked > 0
         THEN "stale_signal_cleanup_review"
         ELSE IF \E l \in Having(files, {"order_maintenance_execute"}) :
                   StaleBlocked(files[l]) > 0
         THEN "order_maintenance_execute" ELSE "order_maintenance_preview"
    [] OTHER -> flag[1]

\* _resolve_row_status_level: how a row is coloured.
RowLevel(files, flags, label) ==
  LET own == {f \in flags : SummaryKey(files, f) = label} IN
  IF own \intersect CriticalFlags # {} THEN "CRITICAL"
  ELSE IF own # {} THEN "WARNING" ELSE "READY"

\* _resolve_reference_path_for_flag: the file an action points to.  A failed
\* preview of the maintenance points to the executing run if there was one.
ReferenceKey(files, flag) ==
  IF flag[1] \in MaintenanceLabels THEN SummaryKey(files, ManualFlag)
  ELSE SummaryKey(files, flag)

\* _build_attention_message: the file the detail of a flag is taken from.
MessageKey(files, flag) ==
  IF flag = ManualFlag
  THEN IF \E l \in Having(files, {"order_maintenance_execute"}) : files[l].manual > 0
       THEN "order_maintenance_execute" ELSE "order_maintenance_preview"
  ELSE SummaryKey(files, flag)

\* The order in which flags are collected, and with them the action items.
LabelOrder ==
  <<"kill_switch", "startup_check", "trading_session_preview",
    "trading_session_execute", "execute_buy_signals_preview",
    "execute_buy_signals_execute", "execute_sell_signals_preview",
    "execute_sell_signals_execute", "after_close_preview", "after_close_write",
    "order_maintenance_preview", "order_maintenance", "order_maintenance_execute",
    "execution_recovery_review", "execution_recovery_import_preview",
    "execution_recovery_import_execute", "rehearsal">>

TroubleOrder ==
  <<"ENABLED", "OPEN_ENTRY_LOT_POSITION_MISMATCH", "NOT_READY", "BLOCKED", "FAILED",
    "TIMING2_SETUP_NOT_READY", "INTRADAY_BAR_REFRESH_PARTIAL_FAILURE",
    "MANUAL_RECOVERY_REQUIRED", "STALE_SIGNAL_CLEANUP_BLOCKED_ITEMS",
    "HAS_MANUAL_ITEMS", "HAS_BLOCKED_ITEMS", "TIMING2_30S_NOT_VERIFIED">>

Place(list, item) == CHOOSE i \in DOMAIN list : list[i] = item
FlagPlace(flag) == 20 * Place(LabelOrder, flag[1]) + Place(TroubleOrder, flag[2])

FlagSeq(flags) == SetToSortSeq(flags, LAMBDA f, g : FlagPlace(f) < FlagPlace(g))

\* _build_action_item_for_flag: what the operator is told to do.
ActionCode(flag) ==
  CASE flag[1] \in AfterCloseLabels  -> "RERUN_AFTER_CLOSE_PREVIEW"
    [] flag[1] \in MaintenanceLabels -> "RERUN_ORDER_MAINTENANCE_PREVIEW"
    [] flag[2] = "TIMING2_30S_NOT_VERIFIED" -> "RERUN_TIMING2_REHEARSAL"
    [] flag[2] = "TIMING2_SETUP_NOT_READY" ->
         "RERUN_TRADING_SESSION_WITH_TIMING2_SETUP"
    [] flag[1] \in BuyLabels ->
         IF Failed(flag) THEN "REVIEW_BUY_EXECUTION_FAILURE" ELSE "REVIEW_BUY_EXECUTION_BLOCK"
    [] flag = ManualFlag \/ flag[1] = "execution_recovery_review" ->
         "REVIEW_EXECUTION_RECOVERY"
    [] flag[2] = "INTRADAY_BAR_REFRESH_PARTIAL_FAILURE" ->
         "REVIEW_INTRADAY_BAR_REFRESH_FAILURE"
    [] flag = SwitchFlag -> "REVIEW_KILL_SWITCH"
    [] flag[1] \in ImportLabels -> "REVIEW_MANUAL_IMPORT"
    [] flag[2] = "OPEN_ENTRY_LOT_POSITION_MISMATCH" ->
         "REVIEW_OPEN_ENTRY_LOT_RECONCILE_BLOCK"
    [] flag[1] = "rehearsal" -> "REVIEW_REHEARSAL"
    [] flag[1] \in SellLabels ->
         IF Failed(flag) THEN "REVIEW_SELL_EXECUTION_FAILURE" ELSE "REVIEW_SELL_EXECUTION_BLOCK"
    [] flag = StaleFlag -> "REVIEW_STALE_SIGNAL_CLEANUP"
    [] flag[2] = "NOT_READY" -> "REVIEW_STARTUP_CHECK"
    [] OTHER ->
         IF Failed(flag) THEN "REVIEW_TRADING_SESSION_FAILURE" ELSE "REVIEW_TRADING_SESSION_BLOCK"

\* _build_action_items: what to do, and where to look.
Actions(files, flags) ==
  {[code |-> ActionCode(f), reference |-> ReferenceKey(files, f)] : f \in flags}

\* The codes as sorted() puts them.
CodeOrder ==
  <<"RERUN_AFTER_CLOSE_PREVIEW", "RERUN_ORDER_MAINTENANCE_PREVIEW",
    "RERUN_TIMING2_REHEARSAL", "RERUN_TRADING_SESSION_WITH_TIMING2_SETUP",
    "REVIEW_BUY_EXECUTION_BLOCK", "REVIEW_BUY_EXECUTION_FAILURE",
    "REVIEW_EXECUTION_RECOVERY", "REVIEW_INTRADAY_BAR_REFRESH_FAILURE",
    "REVIEW_KILL_SWITCH", "REVIEW_MANUAL_IMPORT",
    "REVIEW_OPEN_ENTRY_LOT_RECONCILE_BLOCK", "REVIEW_REHEARSAL",
    "REVIEW_SELL_EXECUTION_BLOCK", "REVIEW_SELL_EXECUTION_FAILURE",
    "REVIEW_STALE_SIGNAL_CLEANUP", "REVIEW_STARTUP_CHECK",
    "REVIEW_TRADING_SESSION_BLOCK", "REVIEW_TRADING_SESSION_FAILURE">>

AlertPlace(flag) ==
  <<IF flag \in CriticalFlags THEN 0 ELSE 1, Place(CodeOrder, ActionCode(flag)),
    FlagPlace(flag)>>

Sooner(p, q) ==
  \/ p[1] < q[1]
  \/ p[1] = q[1] /\ p[2] < q[2]
  \/ p[1] = q[1] /\ p[2] = q[2] /\ p[3] < q[3]

AtMost(n, list) == SubSeq(list, 1, IF Len(list) < n THEN Len(list) ELSE n)

\* _build_alert_payload: the counts, and the three most pressing actions with
\* the detail of their files; what else the report found does not show.
AlertLimit == 3
AlertText(files, flags) ==
  [health   |-> Health(files, flags),
   critical |-> Cardinality(flags \intersect CriticalFlags),
   warning  |-> Cardinality(flags \ CriticalFlags),
   counted  |-> IF flags = {} THEN Cardinality(DOMAIN files) ELSE -1,
   lines    |-> LET pressing == SetToSortSeq(flags, LAMBDA f, g :
                                  Sooner(AlertPlace(f), AlertPlace(g)))
                IN [i \in DOMAIN AtMost(AlertLimit, pressing) |->
                     <<pressing[i], files[MessageKey(files, pressing[i])]>>]]

-----------------------------------------------------------------------------
(* Notification, dispatch, check                                           *)

\* Mutant of Eligible: the level names the one outcome that is told.
EligibleExactly(level) == {level}

\* MIN_LEVEL_TO_OUTCOMES
Eligible(level) ==
  CASE level = "READY"        -> {"READY", "WARNING", "CRITICAL", "NO_ARTIFACTS"}
    [] level = "WARNING"      -> {"WARNING", "CRITICAL", "NO_ARTIFACTS"}
    [] level = "CRITICAL"     -> {"CRITICAL", "NO_ARTIFACTS"}
    [] level = "NO_ARTIFACTS" -> {"NO_ARTIFACTS"}

\* A startup stopped by lots that do not match is worded anew.
Reworded(flags) ==
  /\ flags # {}
  /\ FlagSeq(flags)[1] = Flag("startup_check", "OPEN_ENTRY_LOT_POSITION_MISMATCH")

Notification(report, level) ==
  [exists |-> TRUE,
   health |-> report.health,
   flags  |-> report.flags,
   should |-> report.health \in Eligible(level),
   text   |-> [alert    |-> IF Reworded(report.flags)
                            THEN [startup |-> report.health] ELSE report.alert,
               actions  |-> LET first == AtMost(3, FlagSeq(report.flags))
                            IN [i \in DOMAIN first |-> ActionCode(first[i])]]]

\* _build_dispatch_key hashes health, title, summary, text and actions.
DispatchKey(note) == note.text

DispatchedOutcomes == {"DISPATCHED", "FORCED_DISPATCHED"}

\* The record before was of the same notification and says it was sent.
IsDuplicate(record, note, force) ==
  ~force /\ record.key = DispatchKey(note) /\ record.outcome \in DispatchedOutcomes

\* Mutant of DispatchOutcome: the sender answers in the words of the check.
DispatchOutcomeOfCheck(record, note, force) ==
  IF ~note.should THEN "READY"
  ELSE IF IsDuplicate(record, note, force) THEN "DUPLICATE_SKIPPED"
  ELSE IF force THEN "FORCED_DISPATCHED" ELSE "DISPATCHED"

DispatchOutcome(record, note, force) ==
  IF ~note.should THEN "NO_NOTIFICATION"
  ELSE IF IsDuplicate(record, note, force) THEN "DUPLICATE_SKIPPED"
  ELSE IF force THEN "FORCED_DISPATCHED" ELSE "DISPATCHED"

\* How a check ends that got as far as the record.
CheckOutcome(outcome) ==
  CASE outcome \in DispatchedOutcomes  -> "NOTIFICATION_DISPATCHED"
    [] outcome = "DUPLICATE_SKIPPED"   -> "NOTIFICATION_DUPLICATE_SKIPPED"
    [] OTHER                           -> "READY"

CheckExit(outcome) ==
  CASE outcome \in {"READY", "NOTIFICATION_DUPLICATE_SKIPPED"} -> 0
    [] outcome \in {"NOTIFICATION_REQUIRED", "NOTIFICATION_DISPATCHED"} -> 4
    [] OTHER -> 5

-----------------------------------------------------------------------------
(* The dashboard                                                           *)

StatusLevel(health) ==
  IF health \in {"READY", "WARNING", "CRITICAL"} THEN health ELSE "NO_DATA"

\* The overview is that of the report, the headline that of the last check, if
\* there was one that left a summary, and of the report otherwise.
Overview(report) == IF report.exists THEN StatusLevel(report.health) ELSE "NO_DATA"

\* Mutant of Headline: a check that ended well counts as ready, a skipped alert too.
HeadlineOfExit(report, check) ==
  IF check.exists
  THEN IF CheckExit(check.outcome) = 0 THEN "READY" ELSE StatusLevel(check.health)
  ELSE IF report.exists THEN StatusLevel(report.health) ELSE "MISSING"

Headline(report, check) ==
  IF check.exists
  THEN IF StatusLevel(check.health) # "NO_DATA" THEN StatusLevel(check.health)
       ELSE IF check.flagged THEN "WARNING" ELSE "MISSING"
  ELSE IF report.exists THEN StatusLevel(report.health) ELSE "MISSING"

=============================================================================
