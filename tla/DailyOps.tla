------------------------------- MODULE DailyOps -------------------------------
(***************************************************************************)
(* A day of operations: scripts run and leave their files, the kill switch *)
(* is set and read, and checks run beside them, each building the report,  *)
(* preparing a notification from it and sending it, in three child         *)
(* processes that hand files to one another.  No lock guards the files:    *)
(* two checks write the same report, notification, record and summary.     *)
(***************************************************************************)
EXTENDS OpsReport

CONSTANTS
  Labels,        \* the files the scripts of the day leave
  Setters,       \* runs of set_kill_switch and requests to the dashboard
  SettersOf,     \* SettersOf[t]: what setter t may do
  Checks,        \* processes that run the daily check, or the sender alone
  Commands,      \* the command lines they are given
  MaxEvents,     \* bound on the events checks may report: scripts that run,
                 \* switches set or read
  MaxChecks,     \* bound on the runs of checks and senders
  MaxFaults      \* bound on the processes that die

ASSUME OpsAssumption ==
  /\ Labels \subseteq KnownLabels \ SwitchLabels
  /\ SettersOf \in [Setters -> SUBSET {"enable", "disable", "status"}]
  /\ Commands \subseteq [send : BOOLEAN, dispatch : BOOLEAN, force : BOOLEAN,
                         level : {"READY", "WARNING", "CRITICAL", "NO_ARTIFACTS"}]
  /\ {MaxEvents, MaxChecks, MaxFaults} \subseteq Nat

VARIABLES
  files,         \* the JSON files of the day by label
  torn,          \* labels whose file was cut off while it was written
  ran,           \* history: how the last run behind each label ended
  events,        \* how many scripts and setters there were
  switch,        \* the row of the kill switch, and the stamps given out
  setter,        \* the processes that set or read it
  report,        \* daily_ops_report.json
  note,          \* daily_ops_notification.json
  record,        \* daily_ops_dispatch.json
  summary,       \* daily_ops_check.json
  check,         \* the runs of the daily check
  checked,       \* how many checks have started
  sent,          \* history: the alerts sent, in order
  faults,        \* how many processes have died
  overlapped     \* history: two checks have been under way at once

vars == <<files, torn, ran, events, switch, setter, report, note, record, summary, check,
          checked, sent, faults, overlapped>>
scripts == <<files, torn, ran, events>>
switches == <<switch, setter>>
alerts == <<report, note, record, summary, check, checked, sent>>

NoReport == [exists |-> FALSE]
NoNote == [exists |-> FALSE]
NoKey == [none |-> TRUE]
NoRecord == [exists |-> FALSE, outcome |-> "none", key |-> NoKey]
NoSummary == [exists |-> FALSE]
NoCommand == [send |-> FALSE, dispatch |-> FALSE, force |-> FALSE, level |-> "READY"]
NotChecking == [pc |-> "off", args |-> NoCommand, note |-> NoNote, outcome |-> "none",
                key |-> NoKey]

Init ==
  /\ files = <<>>
  /\ torn = {}
  /\ ran = <<>>
  /\ events = 0
  /\ switch = [set |-> FALSE, enabled |-> FALSE, stamp |-> 0, given |-> 0]
  /\ setter = [t \in Setters |-> [pc |-> "off", action |-> "none", row |-> [none |-> TRUE]]]
  /\ report = NoReport
  /\ note = NoNote
  /\ record = NoRecord
  /\ summary = NoSummary
  /\ check = [c \in Checks |-> NotChecking]
  /\ checked = 0
  /\ sent = <<>>
  /\ faults = 0
  /\ overlapped = FALSE

-----------------------------------------------------------------------------
(* How the scripts end: the exit code and the file, if one is left.  The   *)
(* body of a file is what the report's summary of it holds.                *)

End(exit, body) == [exit |-> exit, left |-> TRUE, body |-> body]
Silent(exit) == [exit |-> exit, left |-> FALSE, body |-> [none |-> TRUE]]

StartupEnds ==
  {Silent(5), End(0, [outcome |-> "READY", reconcile |-> "none"]),
   End(4, [outcome |-> "BLOCKED", reconcile |-> "none"]),
   End(4, [outcome |-> "BLOCKED", reconcile |-> "OPEN_ENTRY_LOT_POSITION_MISMATCH"])}

\* The cycles of a session tell how many bars they could not refresh; the first
\* one tells of the timing2 pipeline, if it was configured.
Session(outcome, setups, refresh, pipeline) ==
  [outcome |-> outcome, setups |-> setups, refresh |-> refresh, pipeline |-> pipeline]

SessionEnds ==
  {Silent(5), End(130, Session("POLLING_INTERRUPTED", "ready", <<0>>, "run"))} \union
  {End(0, Session("COMPLETED", "ready", cycles, "run")) : cycles \in {<<>>, <<0, 1>>}}
  \union
  {End(4, Session(o, "unknown", <<>>, "missing")) :
    o \in {"PREOPEN_BLOCKED", "POLLING_LOCK_BUSY"}} \union
  {End(4, Session("POLLING_BLOCKED", "not_ready", <<>>, "missing"))} \union
  {End(5, Session(o, "unknown", <<>>, "missing")) :
    o \in {"PREOPEN_FAILED", "POLLING_FAILED", "LOCK_PRECHECK_FAILED"}}

\* A session rehearsed with one cycle, timing2 off, off in the cycle, or on.
RehearsedSessionEnds ==
  SessionEnds \union
  {End(0, Session("COMPLETED", "ready", <<0>>, pipeline)) : pipeline \in {"missing", "null"}}

\* A buy pass ends with 4 when the loss of the day stops it; orders that failed
\* or are unknown do not show in how it ends.
BuyEnds(label) ==
  {Silent(5), End(0, [error |-> FALSE, stop |-> "none"]),
   End(4, [error |-> FALSE, stop |-> "MAX_DAILY_LOSS_REACHED"]),
   End(5, [error |-> TRUE, stop |-> "FAILED"])} \union
  (IF label = "execute_buy_signals_execute"
   THEN {End(4, [error |-> TRUE, stop |-> "LOCK_BUSY"])} ELSE {})

\* A sell pass ends with 5 when an order failed, was rejected, or is unknown.
SellEnds(label) ==
  {Silent(5), End(0, [error |-> FALSE, stop |-> "none"]),
   End(5, [error |-> TRUE, stop |-> "FAILED"])} \union
  (IF label = "execute_sell_signals_execute"
   THEN {End(5, [error |-> FALSE, stop |-> "SELL_ORDER_REJECTED"]),
         End(4, [error |-> TRUE, stop |-> "LOCK_BUSY"])} ELSE {})

AfterCloseEnds(label) ==
  {Silent(5), End(0, [outcome |-> "COMPLETED"]), End(5, [outcome |-> "SESSION_FAILED"])}
  \union (IF label = "after_close_write" THEN {End(4, [outcome |-> "LOCK_BUSY"])} ELSE {})

Maintenance(error, manual, buys, sells) ==
  [error |-> error, manual |-> manual, stale_buys |-> buys, stale_sells |-> sells]

\* A pass that broke off, or found the lock taken, counts nothing; one that does
\* not clean up the signals of a side counts none of them.
MaintenanceEnds(label) ==
  {Silent(5), End(5, Maintenance(TRUE, -1, -1, -1))} \union
  {End(0, Maintenance(FALSE, n[1], n[2], n[3])) :
    n \in {<<0, -1, -1>>, <<1, -1, 0>>, <<0, 0, 1>>, <<1, -1, 1>>}} \union
  (IF label = "order_maintenance_execute"
   THEN {End(4, Maintenance(TRUE, -1, -1, -1))} ELSE {})

ImportEnds(label) ==
  {Silent(5), End(5, [error |-> TRUE, blocked |-> -1])} \union
  {End(0, [error |-> FALSE, blocked |-> n]) : n \in {0, 1}} \union
  (IF label = "execution_recovery_import_execute"
   THEN {End(4, [error |-> TRUE, blocked |-> -1])} ELSE {})

ReviewEnds == {Silent(5)} \union {End(0, [manual |-> n]) : n \in {0, 1}}

\* _startup_step_outcome and _session_step_outcome: what a rehearsal makes of its
\* children; timing2 asks for the keys of the three steps in the first cycle.
StartupStep(end) ==
  CASE ~end.left -> "FAILED"
    [] end.left /\ end.exit = 0 -> "READY"
    [] OTHER -> "BLOCKED"

SessionStep(end, timing2) ==
  CASE ~end.left -> "FAILED"
    [] end.left /\ end.exit = 0 ->
         IF timing2 /\ (end.body.pipeline = "missing" \/ end.body.refresh = <<>>) THEN "FAILED" ELSE "COMPLETED"
    [] end.left /\ end.exit = 4 -> "BLOCKED"
    [] OTHER -> "FAILED"

AfterCloseStep(end) ==
  CASE ~end.left -> "FAILED"
    [] end.left /\ end.exit = 0 -> "COMPLETED"
    [] end.left /\ end.exit = 4 -> "BLOCKED"
    [] OTHER -> "FAILED"

\* A rehearsal stops at the first step that does not end as it should.
RehearsalOutcome(startup, session, close, timing2, closing) ==
  LET first  == StartupStep(startup)
      second == SessionStep(session, timing2)
      third  == IF closing THEN AfterCloseStep(close) ELSE "COMPLETED"
  IN CASE first = "FAILED"   -> "STARTUP_FAILED"
       [] first = "BLOCKED"  -> "STARTUP_BLOCKED"
       [] first = "READY" /\ second = "FAILED"  -> "TRADING_SESSION_FAILED"
       [] first = "READY" /\ second = "BLOCKED" -> "TRADING_SESSION_BLOCKED"
       [] first = "READY" /\ second = "COMPLETED" /\ third = "FAILED"  -> "AFTER_CLOSE_FAILED"
       [] first = "READY" /\ second = "COMPLETED" /\ third = "BLOCKED" -> "AFTER_CLOSE_BLOCKED"
       [] OTHER -> "COMPLETED"

RehearsalExit(outcome) ==
  CASE outcome = "COMPLETED" -> 0
    [] outcome \in {"STARTUP_BLOCKED", "TRADING_SESSION_BLOCKED", "AFTER_CLOSE_BLOCKED"} -> 4
    [] OTHER -> 5

\* The report looks at the pipeline of a completed rehearsal once more.
RehearsalEnds ==
  {Silent(5)} \union
  {LET outcome == RehearsalOutcome(startup, session, close, timing2, closing)
   IN End(RehearsalExit(outcome),
          [outcome  |-> outcome,
           pipeline |-> IF outcome # "COMPLETED" \/ ~timing2 THEN "not_asked"
                        ELSE session.body.pipeline]) :
    startup \in StartupEnds, session \in RehearsedSessionEnds,
    close \in AfterCloseEnds("after_close_preview"),
    timing2 \in BOOLEAN, closing \in BOOLEAN}

Ends(label) ==
  CASE label \in SessionLabels     -> SessionEnds
    [] label \in BuyLabels         -> BuyEnds(label)
    [] label \in SellLabels        -> SellEnds(label)
    [] label \in AfterCloseLabels  -> AfterCloseEnds(label)
    [] label \in MaintenanceLabels -> MaintenanceEnds(label)
    [] label \in ImportLabels      -> ImportEnds(label)
    [] label = "startup_check"     -> StartupEnds
    [] label = "execution_recovery_review" -> ReviewEnds
    [] label = "rehearsal"         -> RehearsalEnds
    [] OTHER -> {}

AllEnds == UNION {{<<l, e>> : e \in Ends(l)} : l \in Labels}

Written(dir, label, body) ==
  [l \in DOMAIN dir \union {label} |-> IF l = label THEN body ELSE dir[l]]

\* A script runs from start to end; one that ends silently leaves the file of
\* the run before in its place.
ScriptRuns ==
  /\ events < MaxEvents
  /\ events' = events + 1
  /\ \E run \in AllEnds :
       /\ files' = IF run[2].left THEN Written(files, run[1], run[2].body) ELSE files
       /\ torn' = IF run[2].left THEN torn \ {run[1]} ELSE torn
       /\ ran' = Written(ran, run[1], [exit |-> run[2].exit, left |-> run[2].left])
  /\ UNCHANGED <<switches, alerts, faults>>

\* A script dies in the middle of json.dump: what it leaves is no JSON.
ScriptDiesWriting ==
  /\ events < MaxEvents
  /\ faults < MaxFaults
  /\ events' = events + 1
  /\ faults' = faults + 1
  /\ \E l \in Labels :
       /\ torn' = torn \union {l}
       /\ ran' = Written(ran, l, [exit |-> -1, left |-> FALSE])
  /\ UNCHANGED <<files, switches, alerts>>

-----------------------------------------------------------------------------
(* The kill switch                                                         *)

\* now_text is taken before the transaction that writes it; a status run has none.
SetterStarts(t) ==
  /\ setter[t].pc = "off"
  /\ events < MaxEvents
  /\ events' = events + 1
  /\ \E action \in SettersOf[t] :
       /\ setter' = [setter EXCEPT ![t].pc = "commit", ![t].action = action,
                                   ![t].row = [stamp |-> switch.given + 1]]
       /\ switch' = IF action = "status" THEN switch
                    ELSE [switch EXCEPT !.given = @ + 1]
  /\ UNCHANGED <<files, torn, ran, alerts, faults>>

\* The row is written, or only read, and the process goes on with what it holds.
SetterCommits(t) ==
  /\ setter[t].pc = "commit"
  /\ LET row == IF setter[t].action = "status"
                THEN [enabled |-> switch.enabled, stamp |-> switch.stamp]
                ELSE [enabled |-> setter[t].action = "enable",
                      stamp   |-> setter[t].row.stamp]
     IN /\ switch' = IF setter[t].action = "status" THEN switch
                     ELSE [switch EXCEPT !.set = TRUE, !.enabled = row.enabled,
                                         !.stamp = row.stamp]
        /\ setter' = [setter EXCEPT ![t].pc = "file", ![t].row = row]
  /\ UNCHANGED <<scripts, alerts, faults>>

\* The file is named after the action.
SwitchLabel(action) ==
  CASE action = "enable"  -> "kill_switch_enable"
    [] action = "disable" -> "kill_switch_disable"
    [] action = "status"  -> "kill_switch_status"

SetterWrites(t) ==
  /\ setter[t].pc = "file"
  /\ files' = Written(files, SwitchLabel(setter[t].action), setter[t].row)
  /\ setter' = [setter EXCEPT ![t].pc = "off", ![t].action = "none",
                              ![t].row = [none |-> TRUE]]
  /\ UNCHANGED <<torn, ran, events, switch, alerts, faults>>

\* A setter that dies, or was not told to write a file.
SetterLeavesNoFile(t) ==
  /\ setter[t].pc = "file"
  /\ faults < MaxFaults
  /\ faults' = faults + 1
  /\ setter' = [setter EXCEPT ![t].pc = "off", ![t].action = "none",
                              ![t].row = [none |-> TRUE]]
  /\ UNCHANGED <<scripts, switch, alerts>>

-----------------------------------------------------------------------------
(* The daily check and its children                                        *)

CheckAt(c, pc) == check[c].pc = pc
CheckGoes(c, pc) == check' = [check EXCEPT ![c].pc = pc]
CheckEnds(c, outcome) == check' = [check EXCEPT ![c].pc = "sum", ![c].outcome = outcome]

\* The sender can also be started by hand, on whatever notification there is.
CheckStarts(c) ==
  /\ check[c].pc \in {"off", "done"}
  /\ checked < MaxChecks
  /\ checked' = checked + 1
  /\ \E args \in Commands :
       /\ args.send => note.exists
       /\ check' = [check EXCEPT ![c] = [NotChecking EXCEPT !.args = args,
                       !.pc = IF args.send THEN "dispatch" ELSE "report"]]
  /\ UNCHANGED <<scripts, switches, report, note, record, summary, sent, faults>>

\* show_daily_ops_report reads every file; one that is no JSON makes it fail.
\* The report keeps, as a history, how the runs behind the files ended.
BuiltReport ==
  LET flags == AttentionFlags(files) IN
  [exists  |-> TRUE,
   flags   |-> flags,
   outcome |-> ReportOutcome(files, flags),
   health  |-> Health(files, flags),
   rows    |-> [l \in DOMAIN files |-> RowLevel(files, flags, l)],
   actions |-> Actions(files, flags),
   alert   |-> AlertText(files, flags),
   ran     |-> ran]

BuildReport(c) ==
  /\ CheckAt(c, "report")
  /\ torn = {}
  /\ report' = BuiltReport
  /\ CheckGoes(c, "notify")
  /\ UNCHANGED <<scripts, switches, checked, note, record, summary, sent, faults>>

\* _report_step_outcome: exit code 5 is as good as 0, and the report of an
\* earlier check is as good as one of its own.
ReportFails(c) ==
  /\ CheckAt(c, "report")
  /\ torn # {}
  /\ IF report.exists THEN CheckGoes(c, "notify") ELSE CheckEnds(c, "REPORT_FAILED")
  /\ UNCHANGED <<scripts, switches, checked, report, note, record, summary, sent, faults>>

PrepareNotification(c) ==
  /\ CheckAt(c, "notify")
  /\ note' = Notification(report, check[c].args.level)
  /\ CheckGoes(c, "read_note")
  /\ UNCHANGED <<scripts, switches, checked, report, record, summary, sent, faults>>

\* The check reads the notification that is there when its child has ended.
ReadNotification(c) ==
  /\ CheckAt(c, "read_note")
  /\ check' = [check EXCEPT
       ![c].note = note,
       ![c].pc = IF note.should /\ check[c].args.dispatch THEN "dispatch" ELSE "sum",
       ![c].outcome = CASE ~note.should -> "READY"
                        [] note.should /\ ~check[c].args.dispatch -> "NOTIFICATION_REQUIRED"
                        [] OTHER -> @]
  /\ UNCHANGED <<scripts, switches, checked, report, note, record, summary, sent, faults>>

\* The sender reads notification and record, prints and saves the text ...
SendText(c) ==
  /\ CheckAt(c, "dispatch")
  /\ LET outcome == DispatchOutcome(record, note, check[c].args.force)
         key == DispatchKey(note) IN
       /\ sent' = IF outcome \in DispatchedOutcomes THEN Append(sent, [key |-> key,
                       force |-> check[c].args.force]) ELSE sent
       /\ check' = [check EXCEPT ![c].pc = "record", ![c].outcome = outcome,
                                 ![c].key = key]
  /\ UNCHANGED <<scripts, switches, checked, report, note, record, summary, faults>>

\* ... and then overwrites the record, whatever the outcome was.
SaveRecord(c) ==
  /\ CheckAt(c, "record")
  /\ record' = [exists |-> TRUE, outcome |-> check[c].outcome, key |-> check[c].key]
  /\ CheckGoes(c, IF check[c].args.send THEN "done" ELSE "read_record")
  /\ UNCHANGED <<scripts, switches, checked, report, note, summary, sent, faults>>

ReadRecord(c) ==
  /\ CheckAt(c, "read_record")
  /\ CheckEnds(c, CheckOutcome(record.outcome))
  /\ UNCHANGED <<scripts, switches, checked, report, note, record, summary, sent, faults>>

\* A child dies: the check ends there, with what files there are.
ChildDies(c) ==
  /\ check[c].pc \in {"report", "notify", "dispatch", "record"}
  /\ ~check[c].args.send
  /\ faults < MaxFaults
  /\ faults' = faults + 1
  /\ check' = [check EXCEPT
       ![c].pc = "sum",
       ![c].note = IF CheckAt(c, "notify") THEN note ELSE @,
       ![c].outcome = CASE CheckAt(c, "report") -> "REPORT_FAILED"
                        [] CheckAt(c, "notify") -> "NOTIFICATION_FAILED"
                        [] OTHER -> "DISPATCH_FAILED"]
  /\ UNCHANGED <<scripts, switches, checked, report, note, record, summary, sent>>

Summarise(c) ==
  /\ CheckAt(c, "sum")
  /\ LET seen == check[c].note IN
       summary' = [exists  |-> TRUE,
                   outcome |-> check[c].outcome,
                   health  |-> IF seen.exists THEN seen.health ELSE "none",
                   flagged |-> seen.exists /\ seen.flags # {},
                   of      |-> seen]
  /\ CheckGoes(c, "done")
  /\ UNCHANGED <<scripts, switches, checked, report, note, record, sent, faults>>

-----------------------------------------------------------------------------

Step ==
  \/ ScriptRuns \/ ScriptDiesWriting
  \/ \E t \in Setters :
       SetterStarts(t) \/ SetterCommits(t) \/ SetterWrites(t) \/ SetterLeavesNoFile(t)
  \/ \E c \in Checks :
       \/ CheckStarts(c) \/ BuildReport(c) \/ ReportFails(c) \/ PrepareNotification(c)
       \/ ReadNotification(c) \/ SendText(c) \/ SaveRecord(c) \/ ReadRecord(c)
       \/ ChildDies(c) \/ Summarise(c)

UnderWay(c) == check[c].pc \notin {"off", "done"}
Overlap == \E c, d \in Checks : c # d /\ UnderWay(c) /\ UnderWay(d)

Next == Step /\ overlapped' = (overlapped \/ Overlap')

Spec == Init /\ [][Next]_vars

-----------------------------------------------------------------------------
(* Properties                                                              *)

TypeOK ==
  /\ DOMAIN files \subseteq Labels \union SwitchLabels
  /\ torn \subseteq Labels
  /\ \A l \in DOMAIN files \ SwitchLabels : \E e \in Ends(l) : e.left /\ e.body = files[l]
  /\ switch \in [set : BOOLEAN, enabled : BOOLEAN, stamp : 0..MaxEvents,
                  given : 0..MaxEvents]
  /\ record.outcome \in DispatchedOutcomes \union {"none", "DUPLICATE_SKIPPED",
                                                   "NO_NOTIFICATION"}
  /\ \A c \in Checks : check[c].pc \in
       {"off", "report", "notify", "read_note", "dispatch", "record", "read_record",
        "sum", "done"}
  /\ Len(sent) <= MaxChecks
  /\ overlapped \in BOOLEAN

\* The scripts that write to the broker or the database.
ExecutingLabels ==
  {"trading_session_execute", "execute_buy_signals_execute",
   "execute_sell_signals_execute", "after_close_write", "order_maintenance_execute",
   "execution_recovery_import_execute"}

\* The flags of the report and the exit codes of the scripts are computed apart:
\* no run that ended with an error and left its file is reported as READY, as a
\* whole or in its row, and none of an executing script that failed is less than
\* CRITICAL; every action leads to a file that is there.
FailuresReported ==
  report.exists =>
    /\ \A l \in DOMAIN report.ran :
         LET end == report.ran[l] IN
         /\ end.left /\ end.exit # 0 =>
              report.outcome # "READY" /\ report.health # "READY" /\ report.rows[l] # "READY"
         /\ end.left /\ end.exit \in {5, 130} /\ l \in ExecutingLabels =>
              report.health = "CRITICAL"
    /\ \A action \in report.actions :
         action.reference \in DOMAIN report.rows

\* Once a file tells of the switch as it is in the database, the report shows that
\* state: no status read earlier and saved later, and no older file, outranks it.
KillSwitchShown ==
  switch.set /\ (\E l \in Having(files, SwitchLabels) : files[l].stamp = switch.stamp)
    => SwitchShown(files) = switch.enabled

Milder(health, level) ==
  LET rank == [h \in {"READY", "WARNING", "CRITICAL", "NO_ARTIFACTS"} |->
                CASE h = "READY" -> 0 [] h = "WARNING" -> 1 [] h = "CRITICAL" -> 2
                  [] h = "NO_ARTIFACTS" -> 3]
  IN rank[health] < rank[level]

WasSent(key) == \E i \in DOMAIN sent : sent[i].key = key

\* The record never tells of an alert that was not sent, across crashes of the
\* sender between the alert and the record and whatever checks overwrite it.  And
\* until two checks overlap, one that ends with exit code 0 had nothing to tell at its
\* level or knows that the very alert went out.  (Two that overlap read and replace
\* each other's notification and record, and one may then end well for the other.)
ChecksTellTruth ==
  /\ record.outcome \in DispatchedOutcomes \union {"DUPLICATE_SKIPPED"} =>
       WasSent(record.key)
  /\ \/ overlapped
     \/ \A c \in Checks : CheckAt(c, "done") /\ ~check[c].args.send =>
          /\ check[c].outcome = "READY" =>
               Milder(check[c].note.health, check[c].args.level)
          /\ check[c].outcome \in {"NOTIFICATION_DISPATCHED",
                                   "NOTIFICATION_DUPLICATE_SKIPPED"}
               => WasSent(DispatchKey(check[c].note))

\* As long as the last check is about the report that is there, the headline of the
\* dashboard, which goes by the check, and its overview, which goes by the report,
\* name the same level.
DashboardAgrees ==
  (/\ summary.exists /\ report.exists
   /\ summary.of.exists
   /\ summary.of.flags = report.flags
   /\ summary.of.health = report.health
   /\ report.health # "NO_ARTIFACTS")
  => Headline(report, summary) = Overview(report)

=============================================================================
