------------------------------ MODULE TradingDay ------------------------------
(***************************************************************************)
(* The processes of a trading day.  The session script prechecks the       *)
(* polling lock, runs the preopen preparation as a child process and, if   *)
(* that ended READY, the polling loop as another; the loop runs trading    *)
(* cycles until something stops it.  One-shot scripts (a single cycle, the *)
(* after-close session, order maintenance, the import of executions) run   *)
(* beside it, each under a lock of its own.  Every script ends with an     *)
(* exit code and usually leaves a JSON file that says what happened; an    *)
(* operator, or the daily operations report, goes by these two.            *)
(***************************************************************************)
EXTENDS IntradayCycle

CONSTANTS
  Procs,          \* the processes the operator launches in a day
  KindsOf,        \* KindsOf[p]: the scripts process p may be a run of
  NoOwner,        \* the owner of a free lock
  ArgumentsOf,    \* ArgumentsOf[kind]: the command lines such a script is given
  MaxFailures,    \* max_consecutive_failures
  MaxCycles,      \* max_cycles, 0 for no limit
  MaxMishaps      \* bound on the processes killed and the leases run out

Tools == {"cycle", "after_close", "maintenance", "import"}
Kinds == {"session", "polling"} \union Tools

\* A command line: execute (or --write), whether the universe of an earlier run
\* is reused, the strategy chosen, and whether setups are scanned and written.
Arguments == [execute : BOOLEAN, reuse : BOOLEAN,
              strategy : {"default", "timing1", "timing2"},
              scan : BOOLEAN, write : BOOLEAN]

ASSUME DayAssumption ==
  /\ KindsOf \in [Procs -> SUBSET Kinds]
  /\ NoOwner \notin Procs
  /\ ArgumentsOf \in [Kinds -> SUBSET Arguments]
  /\ MaxFailures \in Nat \ {0}
  /\ {MaxCycles, MaxMishaps} \subseteq Nat

VARIABLES
  clock,          \* before, within or after the trading window
  day,            \* what the database holds for the day
  locks,          \* the runtime_locks rows by name
  proc,           \* the processes
  mishaps         \* how many processes were killed or lost their lease

vars == <<clock, day, locks, proc, mishaps>>

NoCycle == [none |-> TRUE]
NoArguments == [execute |-> FALSE, reuse |-> FALSE, strategy |-> "default",
                scan |-> FALSE, write |-> FALSE]

\* A process: where it stands, what its preparation came to, its cycles, and
\* the exit code and the file it leaves; row, a history, counts the failed cycles
\* since the last good one.  A session and the child it waits for
\* are one process here; orphan says that the session died and the child not.
NotLaunched ==
  [kind |-> "none", args |-> NoArguments, pc |-> "off", orphan |-> FALSE,
   ready |-> FALSE, scanned |-> FALSE, count |-> 0, streak |-> 0,
   last |-> NoCycle, row |-> 0, step |-> "none", stop |-> "none", exit |-> -1,
   file |-> "none"]

Init ==
  /\ clock = "early"
  /\ day = [universe |-> FALSE, setups |-> FALSE, loss |-> FALSE]
  /\ locks = [n \in Kinds |-> [owner |-> NoOwner, live |-> FALSE]]
  /\ proc = [p \in Procs |-> NotLaunched]
  /\ mishaps = 0

At(p, pc) == proc[p].pc = pc
Set(p, record) == proc' = [proc EXCEPT ![p] = record]

\* The lock a process uses: sessions and polling scripts the same one.
LockOf(p) == IF proc[p].kind = "session" THEN "polling" ELSE proc[p].kind

\* The polling script takes its lock in every mode, the others to act.
Locked(p) == proc[p].kind \in {"session", "polling"} \/ proc[p].args.execute

Owns(p) == locks[LockOf(p)].owner = p

Takeable(p) ==
  \/ locks[LockOf(p)].owner \in {NoOwner, p}
  \/ ~locks[LockOf(p)].live

Acquired(p) == locks' = [locks EXCEPT ![LockOf(p)] = [owner |-> p, live |-> TRUE]]

\* A heartbeat renews the lease of the owner, even one that has expired.
Renewed(p) ==
  IF Locked(p)
  THEN Owns(p) /\ locks' = [locks EXCEPT ![LockOf(p)].live = TRUE]
  ELSE UNCHANGED locks

Lost(p) == Locked(p) /\ ~Owns(p)

\* release deletes the row of its owner only.
LocksWithout(p) ==
  IF proc[p].kind # "none" /\ Owns(p)
  THEN [locks EXCEPT ![LockOf(p)] = [owner |-> NoOwner, live |-> FALSE]]
  ELSE locks

\* A release may also fail, and then the row stays.
Released(p) == locks' = LocksWithout(p) \/ UNCHANGED locks

\* An end that writes the file, and one that leaves what was there before.
Ended(p, exit, file) ==
  [NotLaunched EXCEPT !.kind = proc[p].kind, !.pc = "ended", !.exit = exit,
                      !.file = file, !.orphan = proc[p].orphan]
EndedSilently(p, exit) == Ended(p, exit, "none")

-----------------------------------------------------------------------------
(* The session: arguments, precheck, preopen                               *)

Launch(p) ==
  /\ At(p, "off")
  /\ \E kind \in KindsOf[p] : \E args \in ArgumentsOf[kind] :
       Set(p, [NotLaunched EXCEPT !.kind = kind, !.args = args, !.pc = "start"])
  /\ UNCHANGED <<clock, day, locks, mishaps>>

\* _check_timing2_preopen_setup_args
SetupArgumentsOk(args) ==
  /\ args.write => args.scan
  /\ args.strategy = "timing2" => args.scan /\ args.write

\* _check_preopen_reuse_args
ReuseArgumentsOk(args) == args.reuse => ~args.scan /\ ~args.write

\* A session ends with 5, and without a file, for arguments it cannot take and
\* for any error before it knows where to write.
SessionRejects(p) ==
  /\ At(p, "start")
  /\ proc[p].kind = "session"
  /\ Set(p, EndedSilently(p, 5))
  /\ UNCHANGED <<clock, day, locks, mishaps>>

SessionStarts(p) ==
  /\ At(p, "start")
  /\ proc[p].kind = "session"
  /\ SetupArgumentsOk(proc[p].args)
  /\ ReuseArgumentsOk(proc[p].args)
  /\ Set(p, [proc[p] EXCEPT !.pc = "precheck"])
  /\ UNCHANGED <<clock, day, locks, mishaps>>

\* _precheck_polling_lock takes the lock and gives it back: a lock that is free
\* (or whose lease is over) leaves no row, and a preview does not look.
Precheck(p) ==
  /\ At(p, "precheck")
  /\ proc[p].args.execute => Takeable(p)
  /\ locks' = IF proc[p].args.execute
              THEN [locks EXCEPT !["polling"] = [owner |-> NoOwner, live |-> FALSE]]
              ELSE locks
  /\ Set(p, [proc[p] EXCEPT
       !.pc = IF proc[p].args.reuse THEN "startup_check" ELSE "preopen"])
  /\ UNCHANGED <<clock, day, mishaps>>

PrecheckBusy(p) ==
  /\ At(p, "precheck")
  /\ proc[p].args.execute
  /\ ~Takeable(p)
  /\ Set(p, Ended(p, 4, "POLLING_LOCK_BUSY"))
  /\ UNCHANGED <<clock, day, locks, mishaps>>

\* An error of the precheck; when it is the release, the row stays.
PrecheckFails(p) ==
  /\ At(p, "precheck")
  /\ proc[p].args.execute
  /\ Set(p, Ended(p, 5, "LOCK_PRECHECK_FAILED"))
  /\ UNCHANGED locks \/ (Takeable(p) /\ Acquired(p))
  /\ UNCHANGED <<clock, day, mishaps>>

\* The end of a session whose preopen child left with this exit code: 4 is a
\* refusal, everything else that is not a READY is a failure.
PreopenRefused(p, childExit) ==
  IF childExit = 4 THEN Ended(p, 4, "PREOPEN_BLOCKED")
                   ELSE Ended(p, 5, "PREOPEN_FAILED")

PreopenEnds(p, codes) ==
  /\ At(p, "preopen")
  /\ \E code \in codes : Set(p, PreopenRefused(p, code))
  /\ UNCHANGED <<clock, day, locks, mishaps>>

\* Settings that cannot be loaded (5), arguments that do not go together (2).
PreopenRejects(p) == PreopenEnds(p, {2, 5})

\* A market master file that is missing or of an unknown format.
PreopenMasterRejected(p) == PreopenEnds(p, {2})

\* No stored market master or an unreadable one (5); a master that fails its
\* validation (4).
PreopenUnprepared(p) == PreopenEnds(p, {4, 5})

\* prepare raises after whatever it has stored so far.
PreopenFails(p) == PreopenEnds(p, {5})

\* prepare: the universe is saved, or found empty and not saved (exit 4).
PreopenBuilds(p) ==
  /\ At(p, "preopen")
  /\ \/ /\ Set(p, [proc[p] EXCEPT !.pc = "startup_check"])
        /\ day' = [day EXCEPT !.universe = TRUE]
     \/ /\ Set(p, PreopenRefused(p, 4))
        /\ UNCHANGED day
  /\ UNCHANGED <<clock, locks, mishaps>>

\* Mutant of StartupReady: the universe of the day is not looked for.
StartupReadyAnyDay(p) == At(p, "startup_check")

\* The universe of the day exists, and the positions could be reconciled.
StartupReady(p) == At(p, "startup_check") /\ day.universe

\* READY goes on to the setup scans, or to the loop when the universe is reused.
StartupCheck(p) ==
  /\ StartupReady(p)
  /\ Set(p, [proc[p] EXCEPT !.ready = TRUE,
       !.pc = IF proc[p].args.scan THEN "setup_scan" ELSE "poll"])
  /\ UNCHANGED <<clock, day, locks, mishaps>>

\* No universe or no reconciliation is BLOCKED (4), which does not keep the
\* setup scans from recording what they find; the startup script ends with 5
\* without a database, and any other error escapes it (1).
StartupBlocked(p) ==
  /\ At(p, "startup_check")
  /\ \E code \in {1, 4, 5}, found \in BOOLEAN :
       /\ found => code = 4 /\ proc[p].args.write
       /\ Set(p, PreopenRefused(p, code))
       /\ day' = [day EXCEPT !.setups = @ \/ found]
  /\ UNCHANGED <<clock, locks, mishaps>>

\* _run_timing2_setup_scan: a universe saved empty skips the scan, and exits 4
\* although the readiness was READY; what a scan finds it records.
SetupScan(p) ==
  /\ At(p, "setup_scan")
  /\ \/ \E found \in BOOLEAN :
          /\ Set(p, [proc[p] EXCEPT !.scanned = TRUE, !.pc = "poll"])
          /\ day' = [day EXCEPT !.setups = @ \/ (found /\ proc[p].args.write)]
     \/ /\ \E code \in {4, 5} : Set(p, PreopenRefused(p, code))
        /\ UNCHANGED day
  /\ UNCHANGED <<clock, locks, mishaps>>

-----------------------------------------------------------------------------
(* The polling loop                                                        *)

\* A process whose session is still there reports to it at the end.
HasSession(p) == proc[p].kind = "session" /\ ~proc[p].orphan

\* Mutant of SessionOutcome: an interrupted loop counts as a completed one.
SessionOutcomeOfStop(childExit) ==
  CASE childExit \in {0, 130} -> <<"COMPLETED", 0>>
    [] childExit = 4 -> <<"POLLING_BLOCKED", 4>>
    [] OTHER -> <<"POLLING_FAILED", 5>>

\* What a session makes of the exit code of its polling child.
SessionOutcome(childExit) ==
  CASE childExit = 0 -> <<"COMPLETED", 0>>
    [] childExit = 130 -> <<"POLLING_INTERRUPTED", 130>>
    [] childExit = 4 -> <<"POLLING_BLOCKED", 4>>
    [] OTHER -> <<"POLLING_FAILED", 5>>

\* The loop process ends with its stop reason in its file (or without a file,
\* file = "none"); its session, if there is one, writes the outcome into its own.
LoopEnded(p, exit, stop, file) ==
  [(IF HasSession(p)
    THEN Ended(p, SessionOutcome(exit)[2], SessionOutcome(exit)[1])
    ELSE Ended(p, exit, file))
   EXCEPT !.stop = stop]

PollingLaunched(p) == At(p, "start") /\ proc[p].kind = "polling"

\* Arguments, settings or the database fail: 5, and no file of the loop.
PollingRejects(p) ==
  /\ PollingLaunched(p) \/ At(p, "poll")
  /\ Set(p, LoopEnded(p, 5, "none", "none"))
  /\ UNCHANGED <<clock, day, locks, mishaps>>

PollingAcquires(p) ==
  /\ PollingLaunched(p) \/ At(p, "poll")
  /\ Takeable(p)
  /\ Acquired(p)
  /\ Set(p, [proc[p] EXCEPT !.pc = "open"])
  /\ UNCHANGED <<clock, day, mishaps>>

\* The broker and the services of the cycle are set up.
PollingOpens(p) ==
  /\ At(p, "open")
  /\ Set(p, [proc[p] EXCEPT !.pc = "top"])
  /\ UNCHANGED <<clock, day, locks, mishaps>>

PollingBusy(p) ==
  /\ PollingLaunched(p) \/ At(p, "poll")
  /\ ~Takeable(p)
  /\ Set(p, LoopEnded(p, 4, "LOCK_BUSY", "LOCK_BUSY"))
  /\ UNCHANGED <<clock, day, locks, mishaps>>

\* The broker cannot be reached to begin with, a heartbeat finds the lock lost
\* or the database locked: the file says FAILED, and the lock is released.  The
\* loop swallows an error of its release.
PollingFails(p) ==
  /\ proc[p].pc \in {"open", "top", "judge"}
  /\ Released(p)
  /\ Set(p, LoopEnded(p, 5, "FAILED", "FAILED"))
  /\ UNCHANGED <<clock, day, mishaps>>

\* The heartbeat at the top; the loop waits for the window only while it has
\* not run a cycle yet.
LoopTop(p) ==
  /\ At(p, "top")
  /\ clock = "early" => proc[p].count > 0
  /\ Renewed(p)
  /\ Set(p, [proc[p] EXCEPT !.pc = "cycle"])
  /\ UNCHANGED <<clock, day, mishaps>>

\* The strategies of a command line; no choice means both.
RequestOf(p) ==
  [execute |-> proc[p].args.execute,
   timing1 |-> proc[p].args.strategy # "timing2",
   timing2 |-> proc[p].args.strategy # "timing1",
   setups |-> day.setups]

\* What the rest of the day, and the properties, want to know of a cycle: it
\* failed, it tried to buy, a buy pass was completed, what is held was fully
\* looked after before, sells could have been executed, and were.
Summary(r) ==
  LET completed == {s \in Steps : r[s] = "COMPLETED"}
      maintained == "maintenance" \in completed
  IN [failed |-> CycleFailed(r),
      buys |-> r.buy_execution,
      protected |-> maintained /\ SellScans \union {"sell_execution"} \subseteq completed,
      sellable |-> maintained /\ SellScans \intersect completed # {},
      sells |-> r.sell_execution # "SKIPPED"]

\* The cycles that may answer a request, by their summaries.
CycleTable ==
  UNION {{<<req, Summary(r)>> : r \in Cycle(req)} : req \in Requests}

CyclesOf(p) == {c \in CycleTable : c[1] = RequestOf(p)}

CycleRuns(p) ==
  /\ At(p, "cycle")
  /\ \E entry \in CyclesOf(p) : LET c == entry[2] IN
       Set(p, [proc[p] EXCEPT !.pc = "judge", !.last = c,
                 !.row = IF c.failed THEN @ + 1 ELSE 0,
                 !.count = IF MaxCycles = 0 THEN 1 ELSE @ + 1])
  /\ UNCHANGED <<clock, day, locks, mishaps>>

\* _resolve_buy_execution_terminal_stop_reason: a buy candidate may have met the
\* loss limit.
MayHaveMetLossLimit(c) == day.loss /\ c.buys = "COMPLETED"

\* Mutant of Streak: a cycle that went well does not end the streak.
StreakForever(p) ==
  proc[p].streak + (IF proc[p].last.failed THEN 1 ELSE 0)

Streak(p) == IF proc[p].last.failed THEN proc[p].streak + 1 ELSE 0

\* Mutant of StopReasons: one more failure than max_consecutive_failures.
StopReasonsOneMore(p) ==
  IF Streak(p) > MaxFailures THEN {"MAX_CONSECUTIVE_FAILURES"} ELSE {"none"}

\* Mutant of StopReasons: the cutoff time does not end the loop.
StopReasonsNoCutoff(p) ==
  IF Streak(p) >= MaxFailures THEN {"MAX_CONSECUTIVE_FAILURES"} ELSE {"none"}

\* Why the loop stops after a cycle, in the order of the checks.
StopReasons(p) ==
  LET after == IF Streak(p) >= MaxFailures THEN "MAX_CONSECUTIVE_FAILURES"
               ELSE IF MaxCycles > 0 /\ proc[p].count >= MaxCycles
                    THEN "MAX_CYCLES_REACHED"
               ELSE IF clock = "late" THEN "CUTOFF_REACHED" ELSE "none"
  IN {after} \union (IF MayHaveMetLossLimit(proc[p].last)
                     THEN {"MAX_DAILY_LOSS_REACHED"} ELSE {})

ExitOfStop(stop) ==
  CASE stop = "INTERRUPTED" -> 130
    [] stop = "MAX_DAILY_LOSS_REACHED" -> 4
    [] stop = "MAX_CONSECUTIVE_FAILURES" -> 5
    [] OTHER -> 0

\* The heartbeat after the cycle, and the loop goes on.
LoopGoesOn(p) ==
  /\ At(p, "judge")
  /\ Renewed(p)
  /\ "none" \in StopReasons(p)
  /\ Set(p, [proc[p] EXCEPT !.pc = "top", !.streak = Streak(p), !.last = NoCycle])
  /\ UNCHANGED <<clock, day, mishaps>>

\* The loop stops: the lock is released, then the file is written.
LoopStops(p) ==
  /\ At(p, "judge")
  /\ ~Lost(p)
  /\ \E stop \in StopReasons(p) \ {"none"} :
       Set(p, LoopEnded(p, ExitOfStop(stop), stop, stop))
  /\ Released(p)
  /\ UNCHANGED <<clock, day, mishaps>>

Looping(p) ==
  /\ proc[p].kind \in {"session", "polling"}
  /\ proc[p].pc \in {"open", "top", "cycle", "judge"}

\* SIGINT to the loop alone: it stops as if by itself, with 130.
Interrupt(p) ==
  /\ Looping(p)
  /\ mishaps < MaxMishaps
  /\ mishaps' = mishaps + 1
  /\ Set(p, LoopEnded(p, 130, "INTERRUPTED", "INTERRUPTED"))
  /\ Released(p)
  /\ UNCHANGED <<clock, day>>

-----------------------------------------------------------------------------
(* The one-shot scripts                                                    *)

Starting(p, kind) == At(p, "start") /\ proc[p].kind = kind

\* An error before the work begins: exit 5, and one of these files.
Rejects(p, kind, files) ==
  /\ Starting(p, kind)
  /\ \E file \in files : Set(p, Ended(p, 5, file))
  /\ UNCHANGED <<clock, day, locks, mishaps>>

\* Arguments leave no file, a database that cannot be opened does.
CycleRejects(p) == Rejects(p, "cycle", {"none", "FAILED"})
MaintenanceRejects(p) == Rejects(p, "maintenance", {"none", "FAILED"})
ImportRejects(p) == Rejects(p, "import", {"none", "FAILED"})

\* LOCK_FAILED is only printed.
AfterCloseRejects(p) == Rejects(p, "after_close", {"none"})

\* The lock is taken for a run that acts, a preview does without.
Begins(p, kind) ==
  /\ Starting(p, kind)
  /\ IF Locked(p) THEN Takeable(p) /\ Acquired(p) ELSE UNCHANGED locks
  /\ Set(p, [proc[p] EXCEPT !.pc = "work", !.step = "refresh"])
  /\ UNCHANGED <<clock, day, mishaps>>

CycleBegins(p) == Begins(p, "cycle")
MaintenanceBegins(p) == Begins(p, "maintenance")
ImportBegins(p) == Begins(p, "import")
AfterCloseBegins(p) == Begins(p, "after_close")

Busy(p, kind) ==
  /\ Starting(p, kind)
  /\ Locked(p)
  /\ ~Takeable(p)
  /\ Set(p, Ended(p, 4, "LOCK_BUSY"))
  /\ UNCHANGED <<clock, day, locks, mishaps>>

ToolBusy(p) == \E kind \in Tools : Busy(p, kind)

\* A release that raises ends the script with 1, without a file.
Breaks(p) == Set(p, EndedSilently(p, 1)) /\ UNCHANGED locks

\* The end of a one-shot script: the release, then the file.  When the release
\* fails it is tried again for the file that says FAILED, and once more without.
Finishes(p, exit, file) ==
  \/ Set(p, Ended(p, exit, file)) /\ locks' = LocksWithout(p)
  \/ /\ Locked(p)
     /\ \/ Set(p, Ended(p, 5, "FAILED")) /\ locks' = LocksWithout(p)
        \/ Set(p, EndedSilently(p, 1)) /\ locks' = LocksWithout(p)
        \/ Breaks(p)

\* The cycle script: 4 for the loss limit, 5 for a failed step or an error.
CycleScriptRuns(p) ==
  /\ At(p, "work")
  /\ proc[p].kind = "cycle"
  /\ \/ \E entry \in CyclesOf(p) : LET c == entry[2] IN
          \/ MayHaveMetLossLimit(c) /\ Finishes(p, 4, "MAX_DAILY_LOSS_REACHED")
          \/ Finishes(p, IF c.failed THEN 5 ELSE 0, "COMPLETED")
     \/ Finishes(p, 5, "FAILED")
  /\ UNCHANGED <<clock, day, mishaps>>

PassRuns(p, kind) ==
  /\ At(p, "work")
  /\ proc[p].kind = kind
  /\ Finishes(p, 0, "COMPLETED") \/ Finishes(p, 5, "FAILED")
  /\ UNCHANGED <<clock, day, mishaps>>

MaintenanceRuns(p) == PassRuns(p, "maintenance")
ImportRuns(p) == PassRuns(p, "import")

\* The after-close session: bars are refreshed, then two scans run; the MACD
\* scan only looks at refreshed bars when it writes.  A heartbeat follows every
\* child; the streak says whether a step failed.
AfterCloseNext == [refresh |-> "convergence", convergence |-> "macd"]

AfterCloseStep(p) ==
  /\ At(p, "work")
  /\ proc[p].kind = "after_close"
  /\ proc[p].step \in DOMAIN AfterCloseNext
  /\ ~Lost(p)
  /\ Renewed(p)
  /\ \E failed \in {0, 1} :
       Set(p, [proc[p] EXCEPT !.step = AfterCloseNext[@],
            !.streak = IF failed = 1 THEN 1 ELSE @,
            !.ready = IF proc[p].step = "refresh" THEN failed = 0 ELSE @])
  /\ UNCHANGED <<clock, day, mishaps>>

\* The after-close session tries its release once.
ClosesWith(p, exit, file) ==
  \/ Set(p, Ended(p, exit, file)) /\ locks' = LocksWithout(p)
  \/ Locked(p) /\ Breaks(p)

\* The last step; it is skipped in write mode when the bars are not fresh.
AfterCloseEnds(p) ==
  /\ At(p, "work")
  /\ proc[p].kind = "after_close"
  /\ proc[p].step = "macd"
  /\ \E failed \in IF proc[p].args.execute /\ ~proc[p].ready THEN {0} ELSE {0, 1} :
       IF proc[p].streak + failed = 0
       THEN ClosesWith(p, 0, "COMPLETED")
       ELSE ClosesWith(p, 5, "FAILED")
  /\ UNCHANGED <<clock, day, mishaps>>

\* The lock was lost, or a child could not be started.
AfterCloseFails(p) ==
  /\ At(p, "work")
  /\ proc[p].kind = "after_close"
  /\ ClosesWith(p, 5, "SESSION_FAILED")
  /\ UNCHANGED <<clock, day, mishaps>>

-----------------------------------------------------------------------------
(* The environment                                                         *)

Tick ==
  /\ clock # "late"
  /\ clock' = IF clock = "early" THEN "open" ELSE "late"
  /\ UNCHANGED <<day, locks, proc, mishaps>>

\* The realised loss of the day reaches max_daily_loss.
LossReached ==
  /\ ~day.loss
  /\ day' = [day EXCEPT !.loss = TRUE]
  /\ UNCHANGED <<clock, locks, proc, mishaps>>

\* A lease runs out: its process is dead, or has been away for too long.
Expire(name) ==
  /\ locks[name].live
  /\ mishaps < MaxMishaps
  /\ mishaps' = mishaps + 1
  /\ locks' = [locks EXCEPT ![name].live = FALSE]
  /\ UNCHANGED <<clock, day, proc>>

Running(p) == proc[p].pc \notin {"off", "ended", "dead"}

\* The process is killed, and nothing is released or written.  Ctrl-C at a
\* session's terminal does the same: the session dies, and kills its child.
Kill(p) ==
  /\ Running(p)
  /\ mishaps < MaxMishaps
  /\ mishaps' = mishaps + 1
  /\ Set(p, [NotLaunched EXCEPT !.kind = proc[p].kind, !.pc = "dead"])
  /\ UNCHANGED <<clock, day, locks>>

\* Only the session is killed: the loop it started goes on without it.
KillSession(p) ==
  /\ Looping(p)
  /\ HasSession(p)
  /\ mishaps < MaxMishaps
  /\ mishaps' = mishaps + 1
  /\ Set(p, [proc[p] EXCEPT !.orphan = TRUE])
  /\ UNCHANGED <<clock, day, locks>>

\* Only the child is killed: its session sees a return code no script ends with.
KILLED == -9

KillChild(p) ==
  /\ HasSession(p)
  /\ mishaps < MaxMishaps
  /\ mishaps' = mishaps + 1
  /\ \/ /\ proc[p].pc \in {"preopen", "startup_check", "setup_scan"}
        /\ Set(p, PreopenRefused(p, KILLED))
     \/ /\ At(p, "poll") \/ Looping(p)
        /\ Set(p, LoopEnded(p, KILLED, "none", "none"))
  /\ UNCHANGED <<clock, day, locks>>

-----------------------------------------------------------------------------
SessionSteps(p) ==
  \/ SessionRejects(p) \/ SessionStarts(p)
  \/ Precheck(p) \/ PrecheckBusy(p) \/ PrecheckFails(p)
  \/ PreopenRejects(p) \/ PreopenMasterRejected(p) \/ PreopenUnprepared(p)
  \/ PreopenFails(p) \/ PreopenBuilds(p)
  \/ StartupBlocked(p) \/ StartupCheck(p) \/ SetupScan(p)

LoopSteps(p) ==
  \/ PollingRejects(p) \/ PollingAcquires(p) \/ PollingBusy(p) \/ PollingOpens(p)
  \/ PollingFails(p) \/ LoopTop(p) \/ CycleRuns(p)
  \/ LoopGoesOn(p) \/ LoopStops(p)

ToolSteps(p) ==
  \/ ToolBusy(p)
  \/ CycleRejects(p) \/ CycleBegins(p) \/ CycleScriptRuns(p)
  \/ MaintenanceRejects(p) \/ MaintenanceBegins(p) \/ MaintenanceRuns(p)
  \/ ImportRejects(p) \/ ImportBegins(p) \/ ImportRuns(p)
  \/ AfterCloseRejects(p) \/ AfterCloseBegins(p)
  \/ AfterCloseStep(p) \/ AfterCloseEnds(p) \/ AfterCloseFails(p)

ProcessSteps(p) == SessionSteps(p) \/ LoopSteps(p) \/ ToolSteps(p)

Environment ==
  \/ Tick
  \/ LossReached
  \/ \E name \in Kinds : Expire(name)
  \/ \E p \in Procs : Launch(p) \/ Interrupt(p) \/ Kill(p)
                        \/ KillSession(p) \/ KillChild(p)

Next == Environment \/ \E p \in Procs : ProcessSteps(p)

Spec == Init /\ [][Next]_vars

\* Time passes, and as long as a launched process can go on, one of them does: of
\* the operating system's scheduling no more is needed.
FairSpec ==
  Spec /\ WF_vars(Tick) /\ WF_vars(\E p \in Procs : ProcessSteps(p))

-----------------------------------------------------------------------------
(* Properties                                                              *)

TypeOK ==
  /\ clock \in {"early", "open", "late"}
  /\ day \in [universe : BOOLEAN, setups : BOOLEAN, loss : BOOLEAN]
  /\ locks \in [Kinds -> [owner : Procs \union {NoOwner}, live : BOOLEAN]]
  /\ \A n \in Kinds : locks[n].live => locks[n].owner # NoOwner
  /\ \A p \in Procs :
       /\ proc[p].count <= MaxCycles + 1
       /\ proc[p].last # NoCycle => proc[p].pc = "judge"
       /\ proc[p].kind \in {"session", "polling"} => proc[p].streak < MaxFailures
       /\ proc[p].pc = "ended" <=> proc[p].exit # -1

\* In a cycle that trades, buy orders are looked at only behind a full
\* protection of what is held: maintenance and every sell scan went well, and
\* the sell signals have just been executed.  Nothing that goes wrong on the buy
\* side, and no single sell scan, keeps the sell signals from being executed:
\* one sell scan that completed is enough.
SellsFirst ==
  \A p \in Procs : proc[p].last # NoCycle =>
    /\ proc[p].args.execute /\ proc[p].last.buys # "SKIPPED" => proc[p].last.protected
    /\ proc[p].last.sellable => proc[p].last.sells

\* A session trades only after a preparation of its own that found the universe
\* of the day and reconciled the positions; one that was told to trade timing2,
\* only after the setups were scanned and written.
TradesOnlyPrepared ==
  \A p \in Procs :
    proc[p].kind = "session" /\ Looping(p) =>
      /\ proc[p].ready
      /\ day.universe
      /\ proc[p].args.strategy = "timing2" => proc[p].scanned /\ proc[p].args.write

\* A script that ended, short of being killed, has told the truth: the session's
\* file and exit code tell how its loop really ended, killed or not; an exit with
\* 0 or 4 is in a file of this very run (only after an exit with 1 or 5 may the
\* file in the output path be of an earlier one); and a one-shot script that left
\* its lock behind has said so with an exit of 1.
EndsCleanly ==
  /\ \A p \in Procs :
       proc[p].kind = "session" /\ At(p, "ended") /\ ~proc[p].orphan =>
         /\ proc[p].exit = 0 <=>
              proc[p].stop \in {"MAX_CYCLES_REACHED", "CUTOFF_REACHED"}
         /\ proc[p].exit = 0 <=> proc[p].file = "COMPLETED"
         /\ proc[p].file = "POLLING_INTERRUPTED" <=> proc[p].stop = "INTERRUPTED"
         /\ proc[p].file = "POLLING_BLOCKED" <=>
              proc[p].stop \in {"LOCK_BUSY", "MAX_DAILY_LOSS_REACHED"}
  /\ \A p \in Procs : proc[p].exit \in {0, 4} => proc[p].file # "none"
  /\ \A n \in Tools : locks[n].owner # NoOwner /\ At(locks[n].owner, "ended") =>
       proc[locks[n].owner].exit = 1

\* A loop gives up for failures after exactly MaxFailures failed cycles in a row:
\* none that has had them goes on, and no other gives up.
GivesUpForARow ==
  [][\A p \in Procs : At(p, "judge") =>
       /\ proc'[p].stop = "MAX_CONSECUTIVE_FAILURES" => proc[p].row = MaxFailures
       /\ proc'[p].pc = "top" => proc[p].row < MaxFailures]_vars

\* Every script that was launched comes to an end.
ScriptsEnd ==
  \A p \in Procs : At(p, "start") ~> (At(p, "ended") \/ At(p, "dead"))

===============================================================================
