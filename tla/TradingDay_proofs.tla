--------------------------- MODULE TradingDay_proofs ---------------------------
(***************************************************************************)
(* Proofs about TradingDay and about RuntimeLock, the lock its processes   *)
(* share, and that both keep what LeasePromise says of a lock.             *)
(*                                                                         *)
(* TradingDay: for every set of processes, every choice of scripts and     *)
(* command lines, and every bound on cycles, failures and mishaps.  The    *)
(* inductive invariant is local: what a process record may be (Sound),     *)
(* what the universe of the day owes to it (Prepared), and which locks it  *)
(* may own where it stands (LocksOK).  Every action sets the record of one *)
(* process, so each of them is checked by one lemma, StepKeeps, from what  *)
(* its new record and its locks are.                                       *)
(***************************************************************************)
EXTENDS TradingDay, RuntimeLock, TLAPS

Looped == {"open", "top", "cycle", "judge"}
Loops == {"session", "polling"}
Prepares == {"precheck", "preopen", "startup_check", "setup_scan"}

\* Where a process may own its lock, and where a session knows the universe.
Holds == Looped \union {"work", "dead", "ended"}
Knows == Looped \union {"setup_scan", "poll"}

Places == {"off", "start", "precheck", "preopen", "startup_check"}
            \union Holds \union Knows

Summaries == [failed : BOOLEAN, buys : Outcomes, protected : BOOLEAN,
              sellable : BOOLEAN, sells : BOOLEAN]

Phases == {"none", "refresh", "convergence", "macd"}

Stops == {"none", "FAILED", "LOCK_BUSY", "INTERRUPTED", "MAX_CYCLES_REACHED",
          "CUTOFF_REACHED", "MAX_CONSECUTIVE_FAILURES", "MAX_DAILY_LOSS_REACHED"}

Files ==
  Stops \union {"COMPLETED", "SESSION_FAILED", "POLLING_LOCK_BUSY",
    "LOCK_PRECHECK_FAILED", "PREOPEN_BLOCKED", "PREOPEN_FAILED",
    "POLLING_INTERRUPTED", "POLLING_BLOCKED", "POLLING_FAILED"}

Process ==
  [kind : Kinds \union {"none"}, args : Arguments, pc : Places, orphan : BOOLEAN,
   ready : BOOLEAN, scanned : BOOLEAN, count : Nat, streak : Nat,
   last : Summaries \union {NoCycle}, row : Nat, step : Phases, stop : Stops,
   exit : Int, file : Files]

\* A summary of a cycle that was run with or without execute.
SafeSummary(execute, c) ==
  /\ c \in Summaries
  /\ execute /\ c.buys # "SKIPPED" => c.protected
  /\ c.sellable => c.sells

\* Only a loop is in the places of a loop; its cycles are counted below the
\* limit, and it is judged by the last one.
LoopSound(x) ==
  /\ x.pc \in Looped \union {"poll"} => x.kind \in Loops
  /\ x.count <= MaxCycles \/ (MaxCycles = 0 /\ x.count = 1)
  /\ x.pc # "judge" => MaxCycles = 0 \/ x.count < MaxCycles
  /\ x.last # NoCycle => x.pc = "judge"
  /\ x.pc = "judge" => SafeSummary(x.args.execute, x.last)

\* The streak is the row of failed cycles, brought up to date when judged.
RowSound(x) ==
  x.kind \in Loops =>
    /\ x.streak < MaxFailures
    /\ x.row = IF x.pc = "judge"
               THEN IF x.last.failed THEN x.streak + 1 ELSE 0
               ELSE x.streak

\* Only a session is in the places of a preparation, and what it has behind it
\* where it stands.
SessionSound(x) ==
  /\ x.pc \in Prepares => x.kind = "session"
  /\ x.kind = "session" =>
    /\ x.pc \in Prepares \union Knows => SetupArgumentsOk(x.args)
    /\ x.pc \in Knows => x.ready
    /\ x.pc = "setup_scan" => x.args.scan
    /\ x.pc \in Knows \ {"setup_scan"} /\ x.args.strategy = "timing2" => x.scanned

\* How a process ends, and what it says of it.
EndSound(x) ==
  /\ x.pc = "ended" <=> x.exit # -1
  /\ x.pc # "ended" => x.stop = "none"
  /\ x.kind = "session" /\ x.pc = "ended" /\ ~x.orphan =>
       /\ x.exit = 0 <=> x.stop \in {"MAX_CYCLES_REACHED", "CUTOFF_REACHED"}
       /\ x.exit = 0 <=> x.file = "COMPLETED"
       /\ x.file = "POLLING_INTERRUPTED" <=> x.stop = "INTERRUPTED"
       /\ x.file = "POLLING_BLOCKED" <=>
            x.stop \in {"LOCK_BUSY", "MAX_DAILY_LOSS_REACHED"}
  /\ x.exit \in {0, 4} => x.file # "none"

Sound(x) ==
  /\ x \in Process
  /\ LoopSound(x)
  /\ RowSound(x)
  /\ SessionSound(x)
  /\ EndSound(x)

Prepared(x, universe) == x.kind = "session" /\ x.pc \in Knows => universe

Days == [universe : BOOLEAN, setups : BOOLEAN, loss : BOOLEAN]

LockTable ==
  {table \in [Kinds -> [owner : Procs \union {NoOwner}, live : BOOLEAN]] :
     \A n \in Kinds : table[n].live => table[n].owner # NoOwner}

LockFor(x) == IF x.kind = "session" THEN "polling" ELSE x.kind

\* Where it may own its lock; a one-shot script that ended, only if it said so.
MayOwn(x) ==
  x.pc \in Holds /\ (x.pc = "ended" /\ x.kind \in Tools => x.exit = 1)

LocksOK ==
  \A p \in Procs, n \in Kinds : locks[n].owner = p =>
    n = LockFor(proc[p]) /\ MayOwn(proc[p])

IInv ==
  /\ clock \in {"early", "open", "late"}
  /\ day \in Days
  /\ locks \in LockTable
  /\ proc \in [Procs -> Process]
  /\ \A p \in Procs : Sound(proc[p]) /\ Prepared(proc[p], day.universe)
  /\ LocksOK

-----------------------------------------------------------------------------
(* The cycles                                                              *)

\* Buys are attempted in a cycle that trades only behind completed maintenance,
\* sell scans and sell execution, and sells are skipped only if no sell scan
\* completed or maintenance did not: for every outcome of every step.
LEMMA CycleSafe ==
  ASSUME NEW req \in Requests, NEW r \in Cycle(req)
  PROVE  SafeSummary(req.execute, Summary(r))
<1>1. /\ r \in [Steps -> Outcomes]
      /\ r.maintenance \in Attempted
      /\ r.sell_exit_scan \in Attempted
      /\ r.sell_macd_scan \in Attempted
      /\ r.timing2_lot_exit_scan \in Attempted
      /\ r.sell_execution \in SellExecutionOutcomes(req, r)
      /\ r.buy_execution \in BuyExecutionOutcomes(req, r)
  BY DEF Cycle, MaintenanceOutcomes, SellExitScanOutcomes, MacdScanOutcomes,
         LotExitScanOutcomes, Attempted
<1>2. Summary(r) \in Summaries
  BY <1>1 DEF Summary, Summaries, CycleFailed, Steps
<1>3. ASSUME req.execute, r.buy_execution # "SKIPPED"
      PROVE  Summary(r).protected
  <2>1. ~BuyExecutionSkipped(req, r)
    BY <1>1, <1>3 DEF BuyExecutionOutcomes
  <2>2. /\ r.maintenance = "COMPLETED" /\ r.sell_exit_scan = "COMPLETED"
        /\ r.sell_macd_scan = "COMPLETED" /\ r.timing2_lot_exit_scan = "COMPLETED"
        /\ r.sell_execution # "FAILED"
    BY <1>1, <1>3, <2>1 DEF BuyExecutionSkipped, Attempted
  <2>3. ~SellExecutionSkipped(req, r)
    BY <2>2 DEF SellExecutionSkipped, SellScans
  <2>4. r.sell_execution = "COMPLETED"
    BY <1>1, <2>2, <2>3 DEF SellExecutionOutcomes, Attempted
  <2>. QED  BY <2>2, <2>4 DEF Summary, SellScans, Steps
<1>4. ASSUME Summary(r).sellable PROVE Summary(r).sells
  <2>1. r.maintenance = "COMPLETED" /\ \E s \in SellScans : r[s] = "COMPLETED"
    BY <1>4 DEF Summary, SellScans, Steps
  <2>2. ~SellExecutionSkipped(req, r)
    BY <1>1, <2>1 DEF SellExecutionSkipped, SellScans, Attempted
  <2>. QED  BY <1>1, <2>2 DEF SellExecutionOutcomes, Attempted, Summary
<1>. QED  BY <1>2, <1>3, <1>4 DEF SafeSummary, Summary

-----------------------------------------------------------------------------
(* One process at a time                                                   *)

\* A step that sets the record of one process keeps the invariant if the record
\* is sound and no lock is given to a process that is not where it may own it.
LEMMA StepKeeps ==
  ASSUME IInv, NEW p \in Procs, NEW x, Set(p, x), Sound(x),
         UNCHANGED clock, day' \in Days,
         day.universe => day'.universe, Prepared(x, day'.universe),
         locks' \in LockTable,
         \A n \in Kinds : /\ locks'[n].owner \in {locks[n].owner, NoOwner, p}
                          /\ locks'[n].owner = p => n = LockFor(x) /\ MayOwn(x)
  PROVE  IInv'
<1>1. NoOwner \notin Procs
  BY DayAssumption
<1>2. proc' \in [Procs -> Process] /\ proc'[p] = x
  BY DEF IInv, Set, Sound
<1>3. \A q \in Procs : q # p => proc'[q] = proc[q]
  BY DEF IInv, Set
<1>4. \A q \in Procs : Sound(proc'[q]) /\ Prepared(proc'[q], day'.universe)
  BY <1>2, <1>3 DEF IInv, Prepared
<1>5. LocksOK'
  <2>. SUFFICES ASSUME NEW q \in Procs, NEW n \in Kinds, locks'[n].owner = q
                PROVE  n = LockFor(proc'[q]) /\ MayOwn(proc'[q])
    BY DEF LocksOK, MayOwn
  <2>1. CASE q = p
    BY <1>2, <2>1
  <2>2. CASE q # p
    BY <1>1, <1>3, <2>2 DEF IInv, LocksOK
  <2>. QED  BY <2>1, <2>2
<1>. QED  BY <1>2, <1>4, <1>5 DEF IInv

\* The same when the locks are left alone, and the process stays where it may
\* own its lock or owned none.
LEMMA MoveKeeps ==
  ASSUME IInv, NEW p \in Procs, NEW x, Set(p, x), Sound(x),
         UNCHANGED <<clock, locks>>, day' \in Days,
         day.universe => day'.universe, Prepared(x, day'.universe),
         proc[p].pc \in Holds => x.kind = proc[p].kind /\ MayOwn(x)
  PROVE  IInv'
<1>1. \A n \in Kinds : locks[n].owner = p => n = LockFor(x) /\ MayOwn(x)
  <2>. SUFFICES ASSUME NEW n \in Kinds, locks[n].owner = p
                PROVE  n = LockFor(x) /\ MayOwn(x)
    OBVIOUS
  <2>1. n = LockFor(proc[p]) /\ proc[p].pc \in Holds
    BY DEF IInv, LocksOK, MayOwn
  <2>. QED  BY <2>1 DEF LockFor
<1>2. locks \in LockTable
  BY DEF IInv
<1>. QED  BY <1>1, <1>2, StepKeeps

\* The same when the process gives its lock back.
LEMMA ReleaseKeeps ==
  ASSUME IInv, NEW p \in Procs, NEW x, Set(p, x), Sound(x), x.pc = "ended",
         UNCHANGED <<clock, day>>, locks' = LocksWithout(p)
  PROVE  IInv'
<1>1. /\ locks \in LockTable /\ day \in Days /\ NoOwner # p
      /\ \A n \in Kinds : locks[n].owner = p => n = LockOf(p)
      /\ proc[p].kind \in Kinds \union {"none"}
  BY DayAssumption DEF IInv, LocksOK, LockFor, LockOf, Process
<1>2. locks' \in LockTable
  BY <1>1 DEF LocksWithout, LockTable
<1>3. \A n \in Kinds : locks'[n].owner \in {locks[n].owner, NoOwner} /\ locks'[n].owner # p
  BY <1>1 DEF LocksWithout, LockTable, Owns, LockOf, Kinds, Tools
<1>4. Prepared(x, day'.universe)
  BY DEF Prepared, Knows, Looped
<1>. QED  BY <1>1, <1>2, <1>3, <1>4, StepKeeps

\* The same when the process takes its lock.
LEMMA AcquireKeeps ==
  ASSUME IInv, NEW p \in Procs, NEW x, Set(p, x), Sound(x),
         UNCHANGED <<clock, day>>, Prepared(x, day.universe), Acquired(p),
         x.kind = proc[p].kind, MayOwn(x), LockOf(p) \in Kinds
  PROVE  IInv'
<1>1. /\ locks \in LockTable /\ day \in Days /\ NoOwner # p
      /\ LockFor(x) = LockOf(p)
      /\ \A n \in Kinds : locks[n].owner = p => n = LockOf(p)
  BY DayAssumption DEF IInv, LocksOK, LockFor, LockOf
<1>2. locks' \in LockTable
  BY <1>1 DEF Acquired, LockTable
<1>3. \A n \in Kinds : /\ locks'[n].owner \in {locks[n].owner, p}
                       /\ locks'[n].owner = p => n = LockFor(x)
  BY <1>1 DEF Acquired, LockTable
<1>. QED  BY <1>1, <1>2, <1>3, StepKeeps

\* The same when a heartbeat renews the lock.
LEMMA RenewKeeps ==
  ASSUME IInv, NEW p \in Procs, NEW x, Set(p, x), Sound(x),
         UNCHANGED <<clock, day>>, Prepared(x, day.universe), Renewed(p),
         x.kind = proc[p].kind, MayOwn(x)
  PROVE  IInv'
<1>1. /\ locks \in LockTable /\ day \in Days /\ NoOwner # p
      /\ LockFor(x) = LockOf(p)
      /\ \A n \in Kinds : locks[n].owner = p => n = LockOf(p)
  BY DayAssumption DEF IInv, LocksOK, LockFor, LockOf
<1>2. locks' \in LockTable
  BY <1>1 DEF Renewed, LockTable, Owns
<1>3. \A n \in Kinds : locks'[n].owner = locks[n].owner
  BY <1>1 DEF Renewed, LockTable
<1>. QED  BY <1>1, <1>2, <1>3, StepKeeps

-----------------------------------------------------------------------------
(* Sound ends                                                              *)

\* The record of an ended process, and its fields.
LEMMA EndedFields ==
  ASSUME NEW p \in Procs, Sound(proc[p]), NEW exit \in Int, NEW file \in Files
  PROVE  LET x == Ended(p, exit, file) IN
         /\ x \in Process /\ x.kind = proc[p].kind /\ x.args = NoArguments
         /\ x.pc = "ended" /\ x.orphan = proc[p].orphan /\ x.count = 0
         /\ x.streak = 0 /\ x.last = NoCycle /\ x.row = 0 /\ x.stop = "none"
         /\ x.exit = exit /\ x.file = file
<1>1. /\ proc[p].kind \in Kinds \union {"none"} /\ proc[p].orphan \in BOOLEAN
      /\ NoArguments \in Arguments
  BY DEF Sound, Process, NoArguments, Arguments
<1>. DEFINE x == Ended(p, exit, file)
<1>2. x \in Process
  BY <1>1 DEF Ended, NotLaunched, Process, Places, Holds, Phases, Stops
<1>3. /\ x.kind = proc[p].kind /\ x.args = NoArguments /\ x.pc = "ended"
      /\ x.orphan = proc[p].orphan /\ x.count = 0 /\ x.streak = 0
      /\ x.last = NoCycle /\ x.row = 0 /\ x.stop = "none" /\ x.exit = exit
      /\ x.file = file
  BY DEF Ended, NotLaunched
<1>. QED  BY <1>2, <1>3

\* A process that is not in a loop ends soundly with any exit code that is
\* none of a session's completed or interrupted loop.
LEMMA EndedSound ==
  ASSUME NEW p \in Procs, Sound(proc[p]),
         NEW exit \in {0, 1, 4, 5, 130}, NEW file \in Files,
         exit \in {0, 4} => file # "none",
         proc[p].kind = "session" =>
           /\ exit \notin {0, 130}
           /\ file \notin {"COMPLETED", "POLLING_INTERRUPTED", "POLLING_BLOCKED"}
  PROVE  Sound(Ended(p, exit, file))
<1>. DEFINE x == Ended(p, exit, file)
<1>1. MaxFailures \in Nat \ {0} /\ MaxCycles \in Nat
  BY DayAssumption
<1>2. /\ x \in Process /\ x.kind = proc[p].kind /\ x.args = NoArguments
      /\ x.pc = "ended" /\ x.orphan = proc[p].orphan /\ x.count = 0
      /\ x.streak = 0 /\ x.last = NoCycle /\ x.row = 0 /\ x.stop = "none"
      /\ x.exit = exit /\ x.file = file
  BY EndedFields
<1>. HIDE DEF x
<1>4. LoopSound(x) /\ RowSound(x) /\ SessionSound(x)
  BY <1>1, <1>2 DEF LoopSound, RowSound, SessionSound, Looped, Knows, Prepares
<1>5. EndSound(x)
  BY <1>2 DEF EndSound
<1>. QED  BY <1>2, <1>4, <1>5 DEF Sound, x

\* The stop reasons of a loop and their exit codes; none and FAILED are those of
\* a loop that ends with an error.
ExitFits(exit, stop) ==
  \/ exit = 0 /\ stop \in {"MAX_CYCLES_REACHED", "CUTOFF_REACHED"}
  \/ exit = 130 /\ stop = "INTERRUPTED"
  \/ exit = 4 /\ stop \in {"LOCK_BUSY", "MAX_DAILY_LOSS_REACHED"}
  \/ exit \in {5, KILLED} /\ stop \in {"none", "FAILED", "MAX_CONSECUTIVE_FAILURES"}

\* What a session makes of the exit codes of its loop.
LEMMA SessionOutcomes ==
  /\ SessionOutcome(0)[1] = "COMPLETED" /\ SessionOutcome(0)[2] = 0
  /\ SessionOutcome(130)[1] = "POLLING_INTERRUPTED" /\ SessionOutcome(130)[2] = 130
  /\ SessionOutcome(4)[1] = "POLLING_BLOCKED" /\ SessionOutcome(4)[2] = 4
  /\ SessionOutcome(5)[1] = "POLLING_FAILED" /\ SessionOutcome(5)[2] = 5
  /\ SessionOutcome(KILLED)[1] = "POLLING_FAILED" /\ SessionOutcome(KILLED)[2] = 5
BY DEF SessionOutcome, KILLED

\* A loop ends soundly, with or without a session that waits for it.
LEMMA LoopEndedSound ==
  ASSUME NEW p \in Procs, Sound(proc[p]), proc[p].kind \in Loops,
         NEW exit, NEW stop, ExitFits(exit, stop)
  PROVE  /\ Sound(LoopEnded(p, exit, stop, stop))
         /\ LoopEnded(p, exit, stop, stop).stop = stop
         /\ LoopEnded(p, exit, stop, stop).pc = "ended"
         /\ LoopEnded(p, exit, stop, stop).kind = proc[p].kind
<1>. DEFINE x == LoopEnded(p, exit, stop, stop)
            e == IF HasSession(p) THEN SessionOutcome(exit)[2] ELSE exit
            f == IF HasSession(p) THEN SessionOutcome(exit)[1] ELSE stop
<1>1. MaxFailures \in Nat \ {0} /\ MaxCycles \in Nat
  BY DayAssumption
<1>2. x = [Ended(p, e, f) EXCEPT !.stop = stop]
  BY DEF LoopEnded
<1>3. ASSUME HasSession(p)
      PROVE  \/ e = 0 /\ f = "COMPLETED" /\ exit = 0
             \/ e = 130 /\ f = "POLLING_INTERRUPTED" /\ exit = 130
             \/ e = 4 /\ f = "POLLING_BLOCKED" /\ exit = 4
             \/ e = 5 /\ f = "POLLING_FAILED" /\ exit \in {5, KILLED}
  <2>1. e = SessionOutcome(exit)[2] /\ f = SessionOutcome(exit)[1]
    BY <1>3
  <2>. HIDE DEF e, f
  <2>. QED  BY <2>1, SessionOutcomes DEF ExitFits
<1>4. ~HasSession(p) => e = exit /\ f = stop
  OBVIOUS
<1>. HIDE DEF x, e, f
<1>5. e \in Int /\ f \in Files /\ stop \in Stops
  BY <1>3, <1>4 DEF ExitFits, Files, Stops, KILLED
<1>6. /\ x \in Process /\ x.kind = proc[p].kind /\ x.args = NoArguments
      /\ x.pc = "ended" /\ x.orphan = proc[p].orphan /\ x.count = 0
      /\ x.streak = 0 /\ x.last = NoCycle /\ x.row = 0 /\ x.stop = stop
      /\ x.exit = e /\ x.file = f
  BY <1>2, <1>5, EndedFields DEF Process
<1>7. LoopSound(x) /\ RowSound(x) /\ SessionSound(x)
  BY <1>1, <1>6 DEF LoopSound, RowSound, SessionSound, Looped, Knows, Prepares
<1>8. EndSound(x)
  BY <1>3, <1>4, <1>6 DEF EndSound, ExitFits, HasSession, KILLED
<1>. QED  BY <1>6, <1>7, <1>8 DEF Sound, x

-----------------------------------------------------------------------------
(* The steps of a session                                                  *)

\* A process that owns no lock where it stands ends without touching the locks.
LEMMA EndKeeps ==
  ASSUME IInv, NEW p \in Procs, proc[p].pc \notin Holds,
         NEW exit \in {0, 4, 5, 130}, NEW file \in Files,
         exit \in {0, 4} => file # "none",
         proc[p].kind = "session" =>
           /\ exit \notin {0, 130}
           /\ file \notin {"COMPLETED", "POLLING_INTERRUPTED", "POLLING_BLOCKED"},
         Set(p, Ended(p, exit, file)), UNCHANGED <<clock, locks>>,
         day' \in Days, day.universe => day'.universe
  PROVE  IInv'
<1>1. Sound(proc[p])
  BY DEF IInv
<1>2. Sound(Ended(p, exit, file)) /\ Ended(p, exit, file).pc = "ended"
  BY <1>1, EndedSound, EndedFields
<1>. DEFINE x == Ended(p, exit, file)
<1>. HIDE DEF x
<1>3. Prepared(x, day'.universe)
  BY <1>2 DEF Prepared, Knows, Looped, x
<1>. QED  BY <1>2, <1>3, MoveKeeps DEF x

\* A refused or failed preparation ends a session.
LEMMA PreopenKeeps ==
  ASSUME IInv, NEW p \in Procs, proc[p].pc \notin Holds, NEW code,
         Set(p, PreopenRefused(p, code)), UNCHANGED <<clock, locks>>,
         day' \in Days, day.universe => day'.universe
  PROVE  IInv'
<1>1. CASE code = 4
  BY <1>1, EndKeeps DEF PreopenRefused, Files
<1>2. CASE code # 4
  BY <1>2, EndKeeps DEF PreopenRefused, Files
<1>. QED  BY <1>1, <1>2

\* The record x is y, in another place.
Moved(y, place, x) ==
  /\ x \in Process /\ x.pc = place
  /\ x.kind = y.kind /\ x.args = y.args /\ x.orphan = y.orphan /\ x.ready = y.ready
  /\ x.scanned = y.scanned /\ x.count = y.count /\ x.streak = y.streak
  /\ x.last = y.last /\ x.row = y.row /\ x.stop = y.stop /\ x.exit = y.exit
  /\ x.file = y.file

LEMMA MovedFields ==
  ASSUME NEW y \in Process, NEW place \in Places
  PROVE  Moved(y, place, [y EXCEPT !.pc = place])
BY DEF Moved, Process

LEMMA NotLaunchedTyped == NotLaunched \in Process
<1>1. NoArguments \in Arguments
  BY DEF NoArguments, Arguments
<1>. QED  BY <1>1 DEF NotLaunched, Process, Places, Phases, Stops, Files

LEMMA LaunchKeeps ==
  ASSUME IInv, NEW p \in Procs, Launch(p)
  PROVE  IInv'
<1>1. PICK kind \in KindsOf[p] : \E args \in ArgumentsOf[kind] :
         Set(p, [NotLaunched EXCEPT !.kind = kind, !.args = args, !.pc = "start"])
  BY DEF Launch
<1>2. PICK args \in ArgumentsOf[kind] :
         Set(p, [NotLaunched EXCEPT !.kind = kind, !.args = args, !.pc = "start"])
  BY <1>1
<1>3. kind \in Kinds /\ args \in Arguments /\ MaxFailures \in Nat \ {0} /\ MaxCycles \in Nat
  BY DayAssumption
<1>. DEFINE x == [NotLaunched EXCEPT !.kind = kind, !.args = args, !.pc = "start"]
<1>4. x \in Process
  BY <1>3, NotLaunchedTyped DEF Process, Places
<1>5. /\ x.pc = "start" /\ x.kind = kind /\ x.count = 0 /\ x.last = NoCycle
      /\ x.streak = 0 /\ x.row = 0 /\ x.exit = -1 /\ x.stop = "none"
  BY DEF NotLaunched
<1>6. Set(p, x) /\ proc[p].pc \notin Holds /\ day \in Days
  BY <1>2 DEF Launch, At, Holds, Looped, IInv
<1>. HIDE DEF x
<1>7. Sound(x) /\ Prepared(x, day.universe)
  BY <1>3, <1>4, <1>5 DEF Sound, LoopSound, RowSound, SessionSound, EndSound,
                          Prepared, Looped, Knows, Prepares
<1>. QED  BY <1>6, <1>7, MoveKeeps DEF Launch

LEMMA StartKeeps ==
  ASSUME IInv, NEW p \in Procs,
         SessionRejects(p) \/ SessionStarts(p) \/ PrecheckBusy(p) \/ PrecheckFails(p)
  PROVE  IInv'
<1>1. CASE SessionRejects(p)
  BY <1>1, EndKeeps DEF SessionRejects, EndedSilently, At, Holds, Looped, Files,
                        Stops, IInv
<1>2. CASE PrecheckBusy(p)
  BY <1>2, EndKeeps DEF PrecheckBusy, At, Holds, Looped, Files, IInv
<1>3. CASE PrecheckFails(p)
  <2>. DEFINE x == Ended(p, 5, "LOCK_PRECHECK_FAILED")
  <2>1. CASE UNCHANGED locks
    BY <1>3, <2>1, EndKeeps DEF PrecheckFails, At, Holds, Looped, Files, IInv
  <2>2. CASE Acquired(p)
    <3>1. /\ Sound(proc[p]) /\ proc[p].kind = "session" /\ Set(p, x)
          /\ UNCHANGED <<clock, day>>
      BY <1>3 DEF PrecheckFails, At, IInv, Sound, SessionSound, Prepares
    <3>2. Sound(x) /\ x.pc = "ended" /\ x.kind = proc[p].kind
      BY <3>1, EndedSound, EndedFields DEF Files
    <3>. HIDE DEF x
    <3>3. Prepared(x, day.universe) /\ MayOwn(x) /\ LockOf(p) \in Kinds
      BY <3>1, <3>2 DEF Prepared, Knows, Looped, MayOwn, Holds, Tools, LockOf, Kinds
    <3>. QED  BY <2>2, <3>1, <3>2, <3>3, AcquireKeeps
  <2>. QED  BY <1>3, <2>1, <2>2 DEF PrecheckFails
<1>4. CASE SessionStarts(p)
  <2>. DEFINE x == [proc[p] EXCEPT !.pc = "precheck"]
  <2>1. Sound(proc[p]) /\ proc[p].pc = "start" /\ proc[p].kind = "session" /\ day \in Days
    BY <1>4 DEF SessionStarts, At, IInv
  <2>2. Moved(proc[p], "precheck", x)
    BY <2>1, MovedFields DEF Sound, Places
  <2>3. Set(p, x) /\ SetupArgumentsOk(x.args)
    BY <1>4, <2>2 DEF SessionStarts, Moved
  <2>. HIDE DEF x
  <2>4. Sound(x) /\ Prepared(x, day.universe)
    BY <2>1, <2>2, <2>3 DEF Sound, Moved, LoopSound, RowSound, SessionSound, EndSound,
                            Prepared, Looped, Knows, Prepares
  <2>. QED  BY <1>4, <2>1, <2>3, <2>4, MoveKeeps DEF SessionStarts, Holds, Looped, x
<1>. QED  BY <1>1, <1>2, <1>3, <1>4

LEMMA PrecheckKeeps ==
  ASSUME IInv, NEW p \in Procs, Precheck(p)
  PROVE  IInv'
<1>. DEFINE place == IF proc[p].args.reuse THEN "startup_check" ELSE "preopen"
            x == [proc[p] EXCEPT !.pc = place]
<1>1. /\ Sound(proc[p]) /\ proc[p].pc = "precheck" /\ day \in Days
      /\ locks \in LockTable /\ Set(p, x) /\ NoOwner # p
      /\ day' = day /\ clock' = clock
  BY DayAssumption DEF Precheck, At, IInv
<1>2. Moved(proc[p], place, x)
  BY <1>1, MovedFields DEF Sound, Places
<1>. HIDE DEF x
<1>3. Sound(x) /\ Prepared(x, day.universe)
  BY <1>1, <1>2 DEF Sound, Moved, LoopSound, RowSound, SessionSound, EndSound,
                    Prepared, Looped, Knows, Prepares
<1>4. locks' \in LockTable /\ \A n \in Kinds : locks'[n].owner \in {locks[n].owner, NoOwner}
  BY <1>1 DEF Precheck, LockTable, Kinds
<1>5. \A n \in Kinds : locks[n].owner # p
  BY <1>1 DEF IInv, LocksOK, MayOwn, Holds, Looped
<1>6. \A n \in Kinds : /\ locks'[n].owner \in {locks[n].owner, NoOwner, p}
                       /\ locks'[n].owner = p => n = LockFor(x) /\ MayOwn(x)
  BY <1>1, <1>4, <1>5
<1>. QED  BY <1>1, <1>3, <1>4, <1>6, StepKeeps

LEMMA BuildKeeps ==
  ASSUME IInv, NEW p \in Procs, PreopenBuilds(p)
  PROVE  IInv'
<1>1. /\ Sound(proc[p]) /\ proc[p].pc = "preopen" /\ day \in Days
      /\ proc[p].pc \notin Holds
  BY DEF PreopenBuilds, At, IInv, Holds, Looped
<1>2. CASE Set(p, PreopenRefused(p, 4)) /\ UNCHANGED day
  BY <1>1, <1>2, PreopenKeeps DEF PreopenBuilds
<1>3. CASE /\ Set(p, [proc[p] EXCEPT !.pc = "startup_check"])
           /\ day' = [day EXCEPT !.universe = TRUE]
  <2>. DEFINE x == [proc[p] EXCEPT !.pc = "startup_check"]
  <2>1. Moved(proc[p], "startup_check", x)
    BY <1>1, MovedFields DEF Sound, Places
  <2>2. Set(p, x) /\ day' \in Days /\ day'.universe
    BY <1>1, <1>3 DEF Days
  <2>. HIDE DEF x
  <2>3. Sound(x)
    BY <1>1, <2>1 DEF Sound, Moved, LoopSound, RowSound, SessionSound, EndSound,
                      Looped, Knows, Prepares
  <2>. QED  BY <1>1, <2>2, <2>3, MoveKeeps DEF PreopenBuilds, Prepared
<1>. QED  BY <1>2, <1>3 DEF PreopenBuilds

LEMMA StartupKeeps ==
  ASSUME IInv, NEW p \in Procs, StartupCheck(p) \/ StartupBlocked(p)
  PROVE  IInv'
<1>1. /\ Sound(proc[p]) /\ proc[p].pc = "startup_check" /\ day \in Days
      /\ proc[p].pc \notin Holds
  BY DEF StartupCheck, StartupReady, StartupBlocked, At, IInv, Holds, Looped
<1>2. CASE StartupBlocked(p)
  <2>1. PICK code \in {1, 4, 5} : \E found \in BOOLEAN :
          Set(p, PreopenRefused(p, code)) /\ day' = [day EXCEPT !.setups = @ \/ found]
    BY <1>2 DEF StartupBlocked
  <2>2. day' \in Days /\ day'.universe = day.universe
    BY <1>1, <2>1 DEF Days
  <2>. QED  BY <1>1, <1>2, <2>1, <2>2, PreopenKeeps DEF StartupBlocked
<1>3. CASE StartupCheck(p)
  <2>. DEFINE place == IF proc[p].args.scan THEN "setup_scan" ELSE "poll"
              y == [proc[p] EXCEPT !.ready = TRUE]
              x == [proc[p] EXCEPT !.ready = TRUE, !.pc = place]
  <2>1. /\ y \in Process /\ y.ready /\ x = [y EXCEPT !.pc = place]
        /\ y.kind = proc[p].kind /\ y.args = proc[p].args /\ y.pc = proc[p].pc
        /\ y.count = proc[p].count /\ y.streak = proc[p].streak
        /\ y.last = proc[p].last /\ y.row = proc[p].row /\ y.stop = proc[p].stop
        /\ y.exit = proc[p].exit
    BY <1>1 DEF Sound, Process
  <2>2. Moved(y, place, x)
    BY <2>1, MovedFields DEF Places, Knows
  <2>3. /\ Set(p, x) /\ day.universe /\ proc[p].kind = "session"
    BY <1>1, <1>3 DEF StartupCheck, StartupReady, Sound, SessionSound, Prepares
  <2>. HIDE DEF x, y
  <2>4. Sound(x)
    BY <1>1, <2>1, <2>2, <2>3
       DEF Sound, Moved, LoopSound, RowSound, SessionSound, EndSound, Looped, Knows, Prepares,
           SetupArgumentsOk, Loops
  <2>. QED  BY <1>1, <1>3, <2>3, <2>4, MoveKeeps DEF StartupCheck, Prepared
<1>. QED  BY <1>2, <1>3

LEMMA ScanKeeps ==
  ASSUME IInv, NEW p \in Procs, SetupScan(p)
  PROVE  IInv'
<1>1. /\ Sound(proc[p]) /\ proc[p].pc = "setup_scan" /\ day \in Days
      /\ proc[p].pc \notin Holds /\ Prepared(proc[p], day.universe)
  BY DEF SetupScan, At, IInv, Holds, Looped
<1>2. CASE UNCHANGED day /\ \E code \in {4, 5} : Set(p, PreopenRefused(p, code))
  BY <1>1, <1>2, PreopenKeeps DEF SetupScan
<1>3. CASE \E found \in BOOLEAN :
             /\ Set(p, [proc[p] EXCEPT !.scanned = TRUE, !.pc = "poll"])
             /\ day' = [day EXCEPT !.setups = @ \/ (found /\ proc[p].args.write)]
  <2>. DEFINE y == [proc[p] EXCEPT !.scanned = TRUE]
              x == [proc[p] EXCEPT !.scanned = TRUE, !.pc = "poll"]
  <2>1. /\ y \in Process /\ y.scanned /\ x = [y EXCEPT !.pc = "poll"]
        /\ y.kind = proc[p].kind /\ y.args = proc[p].args /\ y.pc = proc[p].pc
        /\ y.count = proc[p].count /\ y.streak = proc[p].streak
        /\ y.last = proc[p].last /\ y.row = proc[p].row /\ y.stop = proc[p].stop
        /\ y.exit = proc[p].exit /\ y.ready = proc[p].ready
    BY <1>1 DEF Sound, Process
  <2>2. Moved(y, "poll", x)
    BY <2>1, MovedFields DEF Places, Knows
  <2>3. /\ Set(p, x) /\ day' \in Days /\ day'.universe = day.universe
    BY <1>1, <1>3 DEF Days
  <2>. HIDE DEF x, y
  <2>4. Sound(x) /\ Prepared(x, day'.universe)
    BY <1>1, <2>1, <2>2, <2>3
       DEF Sound, Moved, LoopSound, RowSound, SessionSound, EndSound, Looped, Knows, Prepares,
           SetupArgumentsOk, Loops, Prepared
  <2>. QED  BY <1>1, <2>3, <2>4, MoveKeeps DEF SetupScan
<1>. QED  BY <1>2, <1>3 DEF SetupScan

LEMMA SessionKeeps ==
  ASSUME IInv, NEW p \in Procs, SessionSteps(p)
  PROVE  IInv'
<1>1. ASSUME NEW codes, PreopenEnds(p, codes) PROVE IInv'
  BY <1>1, PreopenKeeps DEF PreopenEnds, At, Holds, Looped, IInv
<1>. QED  BY <1>1, StartKeeps, PrecheckKeeps, BuildKeeps, StartupKeeps, ScanKeeps
     DEF SessionSteps, PreopenRejects, PreopenMasterRejected, PreopenUnprepared,
         PreopenFails

-----------------------------------------------------------------------------
(* The steps of a loop                                                     *)

LEMMA LoopEndKeeps ==
  ASSUME IInv, NEW p \in Procs, proc[p].kind \in Loops,
         NEW exit, NEW stop, ExitFits(exit, stop),
         Set(p, LoopEnded(p, exit, stop, stop)), UNCHANGED <<clock, day>>,
         locks' = LocksWithout(p) \/ UNCHANGED locks
  PROVE  IInv'
<1>. DEFINE x == LoopEnded(p, exit, stop, stop)
<1>1. Sound(proc[p]) /\ day \in Days
  BY DEF IInv
<1>2. Sound(x) /\ x.pc = "ended" /\ x.kind = proc[p].kind
  BY <1>1, LoopEndedSound
<1>. HIDE DEF x
<1>3. Prepared(x, day.universe) /\ MayOwn(x)
  BY <1>2 DEF Prepared, Knows, Looped, MayOwn, Holds, Loops, Tools
<1>4. Set(p, x)
  BY DEF x
<1>5. CASE locks' = LocksWithout(p)
  BY <1>2, <1>4, <1>5, ReleaseKeeps
<1>6. CASE UNCHANGED locks
  BY <1>1, <1>2, <1>3, <1>4, <1>6, MoveKeeps
<1>. QED  BY <1>5, <1>6

\* The loop is not begun, or its lock is busy.
LEMMA NoLoopKeeps ==
  ASSUME IInv, NEW p \in Procs, PollingRejects(p) \/ PollingBusy(p)
  PROVE  IInv'
<1>1. proc[p].kind \in Loops /\ proc[p].pc \notin Holds
  BY DEF PollingRejects, PollingBusy, PollingLaunched, At, IInv, Sound, LoopSound,
         Loops, Holds, Looped
<1>2. CASE PollingRejects(p)
  BY <1>1, <1>2, LoopEndKeeps DEF PollingRejects, ExitFits
<1>3. CASE PollingBusy(p)
  BY <1>1, <1>3, LoopEndKeeps DEF PollingBusy, ExitFits
<1>. QED  BY <1>2, <1>3

LEMMA PollingAcquiresKeeps ==
  ASSUME IInv, NEW p \in Procs, PollingAcquires(p)
  PROVE  IInv'
<1>. DEFINE x == [proc[p] EXCEPT !.pc = "open"]
<1>1. /\ Sound(proc[p]) /\ day \in Days /\ Prepared(proc[p], day.universe)
      /\ proc[p].pc \in {"start", "poll"} /\ proc[p].kind \in Loops
      /\ proc[p].kind = "session" => proc[p].pc = "poll"
  BY DEF PollingAcquires, PollingLaunched, At, IInv, Sound, LoopSound, Loops
<1>2. Moved(proc[p], "open", x)
  BY <1>1, MovedFields DEF Sound, Places, Holds, Looped
<1>3. Set(p, x)
  BY DEF PollingAcquires
<1>. HIDE DEF x
<1>4. Sound(x) /\ Prepared(x, day.universe)
  BY <1>1, <1>2 DEF Sound, Moved, LoopSound, RowSound, SessionSound, EndSound,
                    Prepared, Looped, Knows, Prepares
<1>5. LockOf(p) \in Kinds /\ x.kind = proc[p].kind /\ MayOwn(x)
  BY <1>1, <1>2 DEF LockOf, Kinds, Loops, Moved, MayOwn, Holds, Looped
<1>. QED  BY <1>3, <1>4, <1>5, AcquireKeeps DEF PollingAcquires

\* Setting up, and the heartbeat at the top.
LEMMA TopKeeps ==
  ASSUME IInv, NEW p \in Procs, PollingOpens(p) \/ LoopTop(p)
  PROVE  IInv'
<1>. DEFINE place == IF At(p, "open") THEN "top" ELSE "cycle"
            x == [proc[p] EXCEPT !.pc = place]
<1>1. /\ Sound(proc[p]) /\ day \in Days /\ Prepared(proc[p], day.universe)
      /\ proc[p].pc = IF At(p, "open") THEN "open" ELSE "top"
      /\ Set(p, x) /\ UNCHANGED <<clock, day>>
  BY DEF PollingOpens, LoopTop, At, IInv
<1>2. Moved(proc[p], place, x)
  BY <1>1, MovedFields DEF Sound, Places, Holds, Looped
<1>. HIDE DEF x
<1>3. Sound(x) /\ Prepared(x, day.universe) /\ x.kind = proc[p].kind /\ MayOwn(x)
  BY <1>1, <1>2 DEF Sound, Moved, LoopSound, RowSound, SessionSound, EndSound,
                    Prepared, Looped, Knows, Prepares, MayOwn, Holds
<1>4. CASE PollingOpens(p)
  BY <1>1, <1>3, <1>4, MoveKeeps DEF PollingOpens
<1>5. CASE LoopTop(p)
  BY <1>1, <1>3, <1>5, RenewKeeps DEF LoopTop
<1>. QED  BY <1>4, <1>5

\* What a cycle leaves to be judged by.
LEMMA CycleRunsKeeps ==
  ASSUME IInv, NEW p \in Procs, CycleRuns(p)
  PROVE  IInv'
<1>1. /\ Sound(proc[p]) /\ day \in Days /\ Prepared(proc[p], day.universe)
      /\ proc[p].pc = "cycle" /\ MaxCycles \in Nat
  BY DayAssumption DEF CycleRuns, At, IInv
<1>2. PICK entry \in CyclesOf(p) :
        Set(p, [proc[p] EXCEPT !.pc = "judge", !.last = entry[2],
                  !.row = IF entry[2].failed THEN @ + 1 ELSE 0,
                  !.count = IF MaxCycles = 0 THEN 1 ELSE @ + 1])
  BY DEF CycleRuns
<1>3. RequestOf(p) \in Requests /\ RequestOf(p).execute = proc[p].args.execute
  BY <1>1 DEF RequestOf, Requests, Sound, Process, Arguments, Days
<1>4. SafeSummary(proc[p].args.execute, entry[2])
  <2>1. PICK req \in Requests : entry \in {<<req, Summary(r)>> : r \in Cycle(req)}
    BY DEF CyclesOf, CycleTable
  <2>2. PICK r \in Cycle(req) : entry = <<req, Summary(r)>>
    BY <2>1
  <2>3. req = RequestOf(p) /\ entry[2] = Summary(r)
    BY <2>2 DEF CyclesOf
  <2>. QED  BY <1>3, <2>3, CycleSafe
<1>. DEFINE c == entry[2]
            row == IF c.failed THEN proc[p].row + 1 ELSE 0
            count == IF MaxCycles = 0 THEN 1 ELSE proc[p].count + 1
            x == [proc[p] EXCEPT !.pc = "judge", !.last = c, !.row = row,
                                 !.count = count]
<1>5. Set(p, x)
  BY <1>1, <1>2 DEF Sound, Process
<1>6. c \in Summaries /\ SafeSummary(proc[p].args.execute, c)
  BY <1>4 DEF SafeSummary
<1>7. row \in Nat /\ count \in Nat
  BY <1>1 DEF Sound, Process
<1>. HIDE DEF c
<1>8. x \in Process
  <2>. HIDE DEF row, count
  <2>. QED  BY <1>1, <1>6, <1>7 DEF Sound, Process, Places, Holds, Looped
<1>9. /\ x.kind = proc[p].kind /\ x.args = proc[p].args /\ x.pc = "judge"
      /\ x.ready = proc[p].ready /\ x.scanned = proc[p].scanned
      /\ x.count = count /\ x.streak = proc[p].streak /\ x.last = c /\ x.row = row
      /\ x.stop = proc[p].stop /\ x.exit = proc[p].exit
  BY <1>1 DEF Sound, Process
<1>. HIDE DEF x
<1>10. LoopSound(x)
  BY <1>1, <1>6, <1>8, <1>9 DEF Sound, LoopSound, Looped, Process
<1>11. RowSound(x)
  BY <1>1, <1>6, <1>8, <1>9 DEF Sound, RowSound, Process, Summaries
<1>12. SessionSound(x) /\ EndSound(x) /\ Prepared(x, day.universe)
  BY <1>1, <1>8, <1>9 DEF Sound, SessionSound, EndSound, Prepared, Knows, Looped, Prepares
<1>. QED  BY <1>1, <1>5, <1>8, <1>9, <1>10, <1>11, <1>12, MoveKeeps
     DEF Sound, CycleRuns, MayOwn, Holds, Looped

\* What the row says when a loop is judged.
LEMMA StreakIsRow ==
  ASSUME IInv, NEW p \in Procs, At(p, "judge")
  PROVE  /\ Streak(p) = proc[p].row /\ proc[p].row \in 0..MaxFailures
         /\ proc[p].kind \in Loops /\ proc[p].stop = "none"
<1>1. Sound(proc[p]) /\ MaxFailures \in Nat \ {0}
  BY DayAssumption DEF IInv
<1>2. proc[p].kind \in Loops /\ proc[p].streak \in Nat /\ proc[p].streak < MaxFailures
  BY <1>1 DEF At, Sound, LoopSound, RowSound, Looped, Process
<1>3. /\ proc[p].row = IF proc[p].last.failed THEN proc[p].streak + 1 ELSE 0
      /\ proc[p].stop = "none"
  BY <1>1, <1>2 DEF At, Sound, RowSound, EndSound
<1>. QED  BY <1>1, <1>2, <1>3 DEF Streak

LEMMA GoesOnKeeps ==
  ASSUME IInv, NEW p \in Procs, LoopGoesOn(p)
  PROVE  IInv' /\ proc'[p].pc = "top" /\ proc'[p].stop = "none" /\ proc[p].row < MaxFailures
<1>. DEFINE n == Streak(p)
            x == [proc[p] EXCEPT !.pc = "top", !.streak = n, !.last = NoCycle]
<1>1. /\ Sound(proc[p]) /\ day \in Days /\ Prepared(proc[p], day.universe)
      /\ proc[p].pc = "judge" /\ Set(p, x)
      /\ MaxCycles \in Nat /\ MaxFailures \in Nat \ {0}
  BY DayAssumption DEF LoopGoesOn, At, IInv
<1>2. n = proc[p].row /\ n \in Nat /\ proc[p].kind \in Loops
  BY <1>1, StreakIsRow DEF LoopGoesOn
<1>3. n < MaxFailures /\ (MaxCycles = 0 \/ proc[p].count < MaxCycles)
  <2>1. "none" \in StopReasons(p) /\ proc[p].count \in Nat
    BY <1>1 DEF LoopGoesOn, Sound, Process
  <2>. QED  BY <1>1, <1>2, <2>1 DEF StopReasons
<1>. HIDE DEF n
<1>4. x \in Process
  BY <1>1, <1>2 DEF Sound, Process, Places, Holds, Looped
<1>5. /\ x.kind = proc[p].kind /\ x.args = proc[p].args /\ x.pc = "top"
      /\ x.ready = proc[p].ready /\ x.scanned = proc[p].scanned
      /\ x.count = proc[p].count /\ x.streak = n /\ x.last = NoCycle
      /\ x.row = proc[p].row /\ x.stop = proc[p].stop /\ x.exit = proc[p].exit
  BY <1>1 DEF Sound, Process
<1>. HIDE DEF x
<1>6. LoopSound(x) /\ RowSound(x)
  BY <1>1, <1>2, <1>3, <1>4, <1>5 DEF Sound, LoopSound, RowSound, Looped
<1>7. SessionSound(x) /\ EndSound(x) /\ Prepared(x, day.universe)
  BY <1>1, <1>5 DEF Sound, SessionSound, EndSound, Prepared, Knows, Looped, Prepares
<1>8. IInv'
  BY <1>1, <1>4, <1>5, <1>6, <1>7, RenewKeeps
     DEF Sound, LoopGoesOn, MayOwn, Holds, Looped
<1>9. proc'[p] = x
  BY <1>1 DEF Set, IInv
<1>. QED  BY <1>1, <1>2, <1>3, <1>5, <1>8, <1>9 DEF Sound, EndSound

LEMMA StopsKeeps ==
  ASSUME IInv, NEW p \in Procs, LoopStops(p)
  PROVE  /\ IInv' /\ proc'[p].pc = "ended"
         /\ proc'[p].stop = "MAX_CONSECUTIVE_FAILURES" => proc[p].row = MaxFailures
<1>1. PICK stop \in StopReasons(p) \ {"none"} :
        Set(p, LoopEnded(p, ExitOfStop(stop), stop, stop))
  BY DEF LoopStops
<1>2. /\ Sound(proc[p]) /\ proc[p].kind \in Loops /\ MaxFailures \in Nat \ {0}
      /\ Streak(p) = proc[p].row /\ proc[p].row \in 0..MaxFailures
  BY StreakIsRow, DayAssumption DEF LoopStops, IInv
<1>3. /\ stop \in {"MAX_CONSECUTIVE_FAILURES", "MAX_CYCLES_REACHED", "CUTOFF_REACHED",
                   "MAX_DAILY_LOSS_REACHED"}
      /\ stop = "MAX_CONSECUTIVE_FAILURES" => Streak(p) >= MaxFailures
  BY <1>1 DEF StopReasons
<1>4. ExitFits(ExitOfStop(stop), stop)
  BY <1>3 DEF ExitFits, ExitOfStop
<1>5. IInv'
  BY <1>1, <1>2, <1>4, LoopEndKeeps DEF LoopStops, Released
<1>6. proc'[p] = LoopEnded(p, ExitOfStop(stop), stop, stop)
  BY <1>1 DEF Set, IInv
<1>7. proc'[p].pc = "ended" /\ proc'[p].stop = stop
  BY <1>2, <1>4, <1>6, LoopEndedSound
<1>. QED  BY <1>2, <1>3, <1>5, <1>7

\* A loop that fails, or is interrupted, stops for a reason of its own.
LEMMA BreaksKeeps ==
  ASSUME IInv, NEW p \in Procs, PollingFails(p) \/ Interrupt(p)
  PROVE  /\ IInv' /\ proc'[p].pc = "ended"
         /\ proc'[p].stop \in {"FAILED", "INTERRUPTED"}
<1>. DEFINE exit == IF PollingFails(p) THEN 5 ELSE 130
            stop == IF PollingFails(p) THEN "FAILED" ELSE "INTERRUPTED"
<1>1. /\ Sound(proc[p]) /\ Set(p, LoopEnded(p, exit, stop, stop))
      /\ Released(p) /\ UNCHANGED <<clock, day>>
  BY DEF PollingFails, Interrupt, IInv
<1>2. ExitFits(exit, stop) /\ stop \in {"FAILED", "INTERRUPTED"}
  BY DEF ExitFits
<1>3. proc[p].kind \in Loops
  BY <1>1 DEF PollingFails, Interrupt, Looping, Sound, LoopSound, Looped, Loops
<1>. HIDE DEF exit, stop
<1>4. IInv'
  BY <1>1, <1>2, <1>3, LoopEndKeeps DEF Released
<1>5. proc'[p] = LoopEnded(p, exit, stop, stop)
  BY <1>1 DEF Set, IInv
<1>. QED  BY <1>1, <1>2, <1>3, <1>4, <1>5, LoopEndedSound

\* The session dies, and its loop goes on.
LEMMA KillSessionKeeps ==
  ASSUME IInv, NEW p \in Procs, KillSession(p)
  PROVE  /\ IInv' /\ proc'[p].pc = proc[p].pc /\ proc'[p].stop = proc[p].stop
         /\ proc'[p].pc \in Looped
<1>. DEFINE x == [proc[p] EXCEPT !.orphan = TRUE]
<1>1. /\ Sound(proc[p]) /\ day \in Days /\ Prepared(proc[p], day.universe)
      /\ proc[p].pc \in Looped /\ Set(p, x) /\ UNCHANGED <<clock, day, locks>>
  BY DEF KillSession, Looping, Looped, IInv
<1>2. /\ x \in Process /\ x.pc = proc[p].pc /\ x.kind = proc[p].kind
      /\ x.args = proc[p].args /\ x.ready = proc[p].ready
      /\ x.scanned = proc[p].scanned /\ x.count = proc[p].count
      /\ x.streak = proc[p].streak /\ x.last = proc[p].last /\ x.row = proc[p].row
      /\ x.stop = proc[p].stop /\ x.exit = proc[p].exit
  BY <1>1 DEF Sound, Process
<1>. HIDE DEF x
<1>3. Sound(x) /\ Prepared(x, day.universe)
  BY <1>1, <1>2 DEF Sound, LoopSound, RowSound, SessionSound, EndSound, Prepared,
                    Looped, Knows, Prepares
<1>4. IInv'
  BY <1>1, <1>2, <1>3, MoveKeeps DEF MayOwn, Holds, Looped
<1>5. proc'[p] = x
  BY <1>1 DEF Set, IInv
<1>. QED  BY <1>1, <1>2, <1>4, <1>5

\* The child dies, and its session says that it failed.
LEMMA KillChildKeeps ==
  ASSUME IInv, NEW p \in Procs, KillChild(p)
  PROVE  IInv' /\ (At(p, "judge") => proc'[p].pc = "ended" /\ proc'[p].stop = "none")
<1>1. /\ Sound(proc[p]) /\ proc[p].kind \in Loops /\ day \in Days
      /\ UNCHANGED <<clock, day, locks>>
  BY DEF KillChild, HasSession, Loops, IInv
<1>2. CASE /\ proc[p].pc \in {"preopen", "startup_check", "setup_scan"}
           /\ Set(p, PreopenRefused(p, KILLED))
  <2>1. proc[p].pc \notin Holds /\ ~At(p, "judge")
    BY <1>2 DEF Holds, Looped, At
  <2>. QED  BY <1>1, <1>2, <2>1, PreopenKeeps
<1>3. CASE Set(p, LoopEnded(p, KILLED, "none", "none"))
  <2>1. ExitFits(KILLED, "none")
    BY DEF ExitFits
  <2>2. IInv'
    BY <1>1, <1>3, <2>1, LoopEndKeeps
  <2>3. proc'[p] = LoopEnded(p, KILLED, "none", "none")
    BY <1>3 DEF Set, IInv
  <2>. QED  BY <1>1, <2>1, <2>2, <2>3, LoopEndedSound
<1>. QED  BY <1>2, <1>3 DEF KillChild

LEMMA KillKeeps ==
  ASSUME IInv, NEW p \in Procs, Kill(p)
  PROVE  IInv' /\ proc'[p].pc = "dead" /\ proc'[p].stop = "none"
<1>. DEFINE x == [NotLaunched EXCEPT !.kind = proc[p].kind, !.pc = "dead"]
<1>1. /\ Sound(proc[p]) /\ day \in Days /\ Set(p, x) /\ UNCHANGED <<clock, day, locks>>
      /\ MaxCycles \in Nat /\ MaxFailures \in Nat \ {0}
  BY DayAssumption DEF Kill, IInv
<1>2. x \in Process
  BY <1>1, NotLaunchedTyped DEF Sound, Process, Places, Holds
<1>3. /\ x.pc = "dead" /\ x.kind = proc[p].kind /\ x.count = 0 /\ x.last = NoCycle
      /\ x.streak = 0 /\ x.row = 0 /\ x.exit = -1 /\ x.stop = "none"
  BY DEF NotLaunched
<1>. HIDE DEF x
<1>4. Sound(x) /\ Prepared(x, day.universe)
  BY <1>1, <1>2, <1>3 DEF Sound, LoopSound, RowSound, SessionSound, EndSound,
                          Prepared, Looped, Knows, Prepares
<1>5. IInv'
  BY <1>1, <1>3, <1>4, MoveKeeps DEF MayOwn, Holds
<1>6. proc'[p] = x
  BY <1>1 DEF Set, IInv
<1>. QED  BY <1>3, <1>5, <1>6

-----------------------------------------------------------------------------
(* The one-shot scripts                                                    *)

\* A script that has done its work ends, and gives its lock back; or it does not,
\* and ends with 1.
LEMMA ToolEndKeeps ==
  ASSUME IInv, NEW p \in Procs, proc[p].kind \in Tools,
         NEW exit \in {0, 1, 4, 5}, NEW file \in Files,
         exit \in {0, 4} => file # "none",
         Set(p, Ended(p, exit, file)), UNCHANGED <<clock, day>>,
         locks' = LocksWithout(p) \/ (exit = 1 /\ UNCHANGED locks)
  PROVE  IInv'
<1>. DEFINE x == Ended(p, exit, file)
<1>1. Sound(proc[p]) /\ proc[p].kind # "session" /\ day \in Days
  BY DEF IInv, Tools
<1>2. /\ Sound(x) /\ x.pc = "ended" /\ x.kind = proc[p].kind /\ x.exit = exit
      /\ Set(p, x)
  BY <1>1, EndedSound, EndedFields
<1>. HIDE DEF x
<1>3. CASE locks' = LocksWithout(p)
  BY <1>2, <1>3, ReleaseKeeps
<1>4. CASE exit = 1 /\ UNCHANGED locks
  <2>1. Prepared(x, day.universe) /\ MayOwn(x)
    BY <1>2, <1>4 DEF Prepared, Knows, Looped, MayOwn, Holds
  <2>. QED  BY <1>1, <1>2, <1>4, <2>1, MoveKeeps
<1>. QED  BY <1>3, <1>4

LEMMA FinishKeeps ==
  ASSUME IInv, NEW p \in Procs, proc[p].kind \in Tools, UNCHANGED <<clock, day>>,
         NEW exit \in {0, 4, 5}, NEW file \in Files \ {"none"},
         Finishes(p, exit, file) \/ ClosesWith(p, exit, file)
  PROVE  IInv'
<1>1. CASE Set(p, Ended(p, exit, file)) /\ locks' = LocksWithout(p)
  BY <1>1, ToolEndKeeps
<1>2. CASE Set(p, Ended(p, 5, "FAILED")) /\ locks' = LocksWithout(p)
  BY <1>2, ToolEndKeeps DEF Files, Stops
<1>3. CASE Set(p, EndedSilently(p, 1)) /\ (locks' = LocksWithout(p) \/ UNCHANGED locks)
  BY <1>3, ToolEndKeeps DEF EndedSilently, Files, Stops
<1>. QED  BY <1>1, <1>2, <1>3 DEF Finishes, ClosesWith, Breaks

\* One that does not get as far leaves the locks alone.
LEMMA NoToolKeeps ==
  ASSUME IInv, NEW p \in Procs,
         \/ ToolBusy(p) \/ CycleRejects(p) \/ MaintenanceRejects(p)
         \/ ImportRejects(p) \/ AfterCloseRejects(p)
  PROVE  IInv'
<1>1. ASSUME NEW kind \in Tools, NEW files \in SUBSET Files, Rejects(p, kind, files)
      PROVE  IInv'
  <2>1. PICK file \in files : Set(p, Ended(p, 5, file))
    BY <1>1 DEF Rejects
  <2>2. proc[p].pc \notin Holds /\ proc[p].kind # "session" /\ day \in Days
    BY <1>1 DEF Rejects, Starting, At, Holds, Looped, Tools, IInv
  <2>. QED  BY <1>1, <2>1, <2>2, EndKeeps DEF Rejects
<1>2. ASSUME NEW kind \in Tools, Busy(p, kind) PROVE IInv'
  <2>1. proc[p].pc \notin Holds /\ proc[p].kind # "session" /\ day \in Days
    BY <1>2 DEF Busy, Starting, At, Holds, Looped, Tools, IInv
  <2>. QED  BY <1>2, <2>1, EndKeeps DEF Busy, Files, Stops
<1>. QED  BY <1>1, <1>2 DEF ToolBusy, CycleRejects, MaintenanceRejects, ImportRejects,
     AfterCloseRejects, Tools, Files, Stops

LEMMA BeginsKeeps ==
  ASSUME IInv, NEW p \in Procs, NEW kind \in Tools, Begins(p, kind)
  PROVE  IInv'
<1>. DEFINE x == [proc[p] EXCEPT !.pc = "work", !.step = "refresh"]
<1>1. /\ Sound(proc[p]) /\ day \in Days /\ proc[p].pc = "start" /\ proc[p].kind = kind
      /\ Set(p, x) /\ UNCHANGED <<clock, day>>
  BY DEF Begins, Starting, At, IInv
<1>2. /\ x \in Process /\ x.pc = "work" /\ x.kind = kind /\ x.count = proc[p].count
      /\ x.last = proc[p].last /\ x.exit = proc[p].exit /\ x.stop = proc[p].stop
  BY <1>1 DEF Sound, Process, Places, Phases, Holds
<1>. HIDE DEF x
<1>3. Sound(x) /\ Prepared(x, day.universe) /\ LockOf(p) \in Kinds
  BY <1>1, <1>2 DEF Sound, LoopSound, RowSound, SessionSound, EndSound, Prepared,
                    Looped, Knows, Prepares, Tools, Loops, Kinds, LockOf
<1>4. CASE Acquired(p)
  BY <1>1, <1>2, <1>3, <1>4, AcquireKeeps DEF MayOwn, Holds
<1>5. CASE UNCHANGED locks
  BY <1>1, <1>2, <1>3, <1>5, MoveKeeps DEF MayOwn, Holds
<1>. QED  BY <1>4, <1>5 DEF Begins

LEMMA AfterCloseKeeps ==
  ASSUME IInv, NEW p \in Procs, AfterCloseStep(p)
  PROVE  IInv'
<1>1. /\ Sound(proc[p]) /\ day \in Days /\ proc[p].pc = "work"
      /\ proc[p].kind = "after_close" /\ proc[p].step \in {"refresh", "convergence"}
  BY DEF AfterCloseStep, At, IInv, AfterCloseNext
<1>2. PICK failed \in {0, 1} :
        Set(p, [proc[p] EXCEPT !.step = AfterCloseNext[@],
             !.streak = IF failed = 1 THEN 1 ELSE @,
             !.ready = IF proc[p].step = "refresh" THEN failed = 0 ELSE @])
  BY DEF AfterCloseStep
<1>. DEFINE step == AfterCloseNext[proc[p].step]
            streak == IF failed = 1 THEN 1 ELSE proc[p].streak
            ready == IF proc[p].step = "refresh" THEN failed = 0 ELSE proc[p].ready
            x == [proc[p] EXCEPT !.step = step, !.streak = streak, !.ready = ready]
<1>3. Set(p, x)
  BY <1>1, <1>2 DEF Sound, Process
<1>4. step \in Phases /\ streak \in Nat /\ ready \in BOOLEAN
  <2>1. step \in Phases
    BY <1>1 DEF AfterCloseNext, Phases
  <2>2. proc[p].streak \in Nat /\ proc[p].ready \in BOOLEAN
    BY <1>1 DEF Sound, Process
  <2>. QED  BY <2>1, <2>2
<1>. HIDE DEF step, streak, ready
<1>5. /\ x \in Process /\ x.pc = "work" /\ x.kind = proc[p].kind
      /\ x.count = proc[p].count /\ x.last = proc[p].last /\ x.exit = proc[p].exit
      /\ x.stop = proc[p].stop
  BY <1>1, <1>4 DEF Sound, Process
<1>. HIDE DEF x
<1>6. Sound(x) /\ Prepared(x, day.universe)
  BY <1>1, <1>5 DEF Sound, LoopSound, RowSound, SessionSound, EndSound, Prepared,
                    Looped, Knows, Prepares, Loops
<1>. QED  BY <1>3, <1>5, <1>6, RenewKeeps DEF AfterCloseStep, MayOwn, Holds

LEMMA ToolKeeps ==
  ASSUME IInv, NEW p \in Procs, ToolSteps(p)
  PROVE  IInv'
<1>1. ASSUME NEW kind \in Tools, PassRuns(p, kind) PROVE IInv'
  BY <1>1, FinishKeeps DEF PassRuns, Files, Stops
<1>2. CASE CycleScriptRuns(p)
  <2>1. \/ Finishes(p, 4, "MAX_DAILY_LOSS_REACHED")
        \/ Finishes(p, 5, "COMPLETED")
        \/ Finishes(p, 0, "COMPLETED")
        \/ Finishes(p, 5, "FAILED")
    BY <1>2 DEF CycleScriptRuns
  <2>2. proc[p].kind \in Tools /\ UNCHANGED <<clock, day>>
    BY <1>2 DEF CycleScriptRuns, Tools
  <2>. QED  BY <2>1, <2>2, FinishKeeps DEF Files, Stops
<1>3. CASE AfterCloseEnds(p) \/ AfterCloseFails(p)
  <2>1. \/ ClosesWith(p, 0, "COMPLETED")
        \/ ClosesWith(p, 5, "FAILED")
        \/ ClosesWith(p, 5, "SESSION_FAILED")
    BY <1>3 DEF AfterCloseEnds, AfterCloseFails
  <2>2. proc[p].kind \in Tools /\ UNCHANGED <<clock, day>>
    BY <1>3 DEF AfterCloseEnds, AfterCloseFails, Tools
  <2>. QED  BY <2>1, <2>2, FinishKeeps DEF Files, Stops
<1>. QED  BY <1>1, <1>2, <1>3, NoToolKeeps, BeginsKeeps, AfterCloseKeeps
     DEF ToolSteps, CycleBegins, MaintenanceBegins, ImportBegins, AfterCloseBegins,
         MaintenanceRuns, ImportRuns, Tools

-----------------------------------------------------------------------------
(* The invariant                                                           *)

LEMMA LoopKeeps ==
  ASSUME IInv, NEW p \in Procs, LoopSteps(p)
  PROVE  IInv'
BY NoLoopKeeps, PollingAcquiresKeeps, TopKeeps, CycleRunsKeeps, GoesOnKeeps,
   StopsKeeps, BreaksKeeps DEF LoopSteps

\* Time passes, a loss is realised, a lease runs out.
LEMMA EnvironmentKeeps ==
  ASSUME IInv, Tick \/ LossReached \/ \E name \in Kinds : Expire(name)
  PROVE  IInv'
<1>1. CASE Tick
  BY <1>1 DEF Tick, IInv, LocksOK
<1>2. CASE LossReached
  BY <1>2 DEF LossReached, IInv, LocksOK, Days, Prepared
<1>3. ASSUME NEW name \in Kinds, Expire(name) PROVE IInv'
  <2>1. locks' \in LockTable /\ \A n \in Kinds : locks'[n].owner = locks[n].owner
    BY <1>3 DEF Expire, IInv, LockTable
  <2>. QED  BY <1>3, <2>1 DEF Expire, IInv, LocksOK
<1>. QED  BY <1>1, <1>2, <1>3

LEMMA InitOK == Init => IInv
<1>. SUFFICES ASSUME Init PROVE IInv
  OBVIOUS
<1>. DEFINE x == NotLaunched
<1>1. /\ x.pc = "off" /\ x.kind = "none" /\ x.count = 0 /\ x.last = NoCycle
      /\ x.streak = 0 /\ x.row = 0 /\ x.exit = -1 /\ x.stop = "none"
  BY DEF NotLaunched
<1>2. x \in Process /\ MaxCycles \in Nat /\ MaxFailures \in Nat \ {0} /\ NoOwner \notin Procs
  BY NotLaunchedTyped, DayAssumption
<1>3. proc = [p \in Procs |-> x]
  BY DEF Init
<1>. HIDE DEF x
<1>4. Sound(x) /\ Prepared(x, day.universe)
  BY <1>1, <1>2 DEF Sound, LoopSound, RowSound, SessionSound, EndSound, Prepared,
                    Looped, Knows, Prepares, Loops
<1>5. day \in Days /\ locks \in LockTable /\ LocksOK
  BY <1>2 DEF Init, Days, LockTable, LocksOK
<1>. QED  BY <1>2, <1>3, <1>4, <1>5 DEF Init, IInv

LEMMA NextOK == IInv /\ [Next]_vars => IInv'
<1>. SUFFICES ASSUME IInv, [Next]_vars PROVE IInv'
  OBVIOUS
<1>1. CASE UNCHANGED vars
  BY <1>1 DEF vars, IInv, LocksOK
<1>. QED  BY <1>1, SessionKeeps, LoopKeeps, ToolKeeps, EnvironmentKeeps, LaunchKeeps,
              BreaksKeeps, KillKeeps, KillSessionKeeps, KillChildKeeps
     DEF Next, Environment, ProcessSteps

LEMMA Invariance == Spec => []IInv
BY InitOK, NextOK, PTL DEF Spec

-----------------------------------------------------------------------------
(* What it says                                                            *)

\* Counts, streaks and exit codes stay within their bounds, and no lease lives
\* without an owner.
THEOREM TypeCorrect == Spec => []TypeOK
<1>1. IInv => TypeOK
  <2>. SUFFICES ASSUME IInv PROVE TypeOK
    OBVIOUS
  <2>1. ASSUME NEW p \in Procs
        PROVE  /\ proc[p].count <= MaxCycles + 1
               /\ proc[p].last # NoCycle => proc[p].pc = "judge"
               /\ proc[p].kind \in {"session", "polling"} =>
                    proc[p].streak < MaxFailures
               /\ proc[p].pc = "ended" <=> proc[p].exit # -1
    <3>1. Sound(proc[p]) /\ MaxCycles \in Nat
      BY DayAssumption DEF IInv
    <3>. QED  BY <3>1 DEF Sound, LoopSound, RowSound, EndSound, Process, Loops
  <2>. QED  BY <2>1 DEF IInv, TypeOK, Days, LockTable
<1>. QED  BY <1>1, Invariance, PTL

\* In every cycle any loop ever runs, whatever fails in it: it looks at buy orders
\* only behind a full protection of what is held, and executes the sell signals
\* whenever a single sell scan completed.
THEOREM SellsComeFirst == Spec => []SellsFirst
<1>1. IInv => SellsFirst
  BY DEF IInv, Sound, LoopSound, SafeSummary, SellsFirst
<1>. QED  BY <1>1, Invariance, PTL

\* However many processes share the day, a session's loop runs only behind its
\* own preparation, and trades timing2 only behind its own setup scan.
THEOREM OnlyPreparedTrade == Spec => []TradesOnlyPrepared
<1>1. IInv => TradesOnlyPrepared
  BY DEF IInv, Sound, SessionSound, Prepared, TradesOnlyPrepared, Looping, Knows,
         Looped, SetupArgumentsOk
<1>. QED  BY <1>1, Invariance, PTL

\* A script that ended tells by its exit code and its file how it, or its child,
\* ended; a one-shot script that left its lock behind tells by an exit of 1.
THEOREM CleanEnds == Spec => []EndsCleanly
<1>1. IInv => EndsCleanly
  <2>. SUFFICES ASSUME IInv PROVE EndsCleanly
    OBVIOUS
  <2>1. ASSUME NEW n \in Tools, locks[n].owner # NoOwner, At(locks[n].owner, "ended")
        PROVE  proc[locks[n].owner].exit = 1
    <3>1. n \in Kinds /\ locks[n].owner \in Procs
      BY <2>1 DEF Kinds, IInv, LockTable
    <3>. QED  BY <2>1, <3>1 DEF IInv, LocksOK, LockFor, MayOwn, At, Tools
  <2>. QED  BY <2>1 DEF IInv, Sound, EndSound, EndsCleanly, At
<1>. QED  BY <1>1, Invariance, PTL

\* A step of a process sets no record but its own.
LEMMA OwnRecordOnly ==
  ASSUME NEW q \in Procs,
         ProcessSteps(q) \/ Launch(q) \/ Interrupt(q) \/ Kill(q)
           \/ KillSession(q) \/ KillChild(q)
  PROVE  \E x : Set(q, x)
<1>1. CASE SessionSteps(q)
  BY <1>1 DEF SessionSteps, SessionRejects, SessionStarts, Precheck, PrecheckBusy,
     PrecheckFails, PreopenRejects, PreopenMasterRejected, PreopenUnprepared,
     PreopenFails, PreopenEnds, PreopenBuilds, StartupBlocked, StartupCheck, SetupScan
<1>2. CASE LoopSteps(q)
  BY <1>2 DEF LoopSteps, PollingRejects, PollingAcquires, PollingBusy, PollingOpens,
     PollingFails, LoopTop, CycleRuns, LoopGoesOn, LoopStops
<1>3. CASE ToolSteps(q)
  BY <1>3 DEF ToolSteps, ToolBusy, Busy, Rejects, CycleRejects, MaintenanceRejects,
     ImportRejects, AfterCloseRejects, Begins, CycleBegins, MaintenanceBegins,
     ImportBegins, AfterCloseBegins, CycleScriptRuns, PassRuns, MaintenanceRuns,
     ImportRuns, AfterCloseStep, AfterCloseEnds, AfterCloseFails, Finishes,
     ClosesWith, Breaks
<1>4. CASE Launch(q) \/ Interrupt(q) \/ Kill(q) \/ KillSession(q) \/ KillChild(q)
  BY <1>4 DEF Launch, Interrupt, Kill, KillSession, KillChild
<1>. QED  BY <1>1, <1>2, <1>3, <1>4 DEF ProcessSteps

\* From where a loop is judged it goes on, stops, or breaks off.
LEMMA StepsFromJudge ==
  ASSUME NEW p \in Procs, At(p, "judge"), ProcessSteps(p) \/ Launch(p)
  PROVE  LoopGoesOn(p) \/ LoopStops(p) \/ PollingFails(p)
<1>1. ~SessionSteps(p) /\ ~Launch(p)
  BY DEF At, SessionSteps, SessionRejects, SessionStarts, Precheck, PrecheckBusy,
     PrecheckFails, PreopenRejects, PreopenMasterRejected, PreopenUnprepared,
     PreopenFails, PreopenEnds, PreopenBuilds, StartupBlocked, StartupCheck,
     StartupReady, SetupScan, Launch
<1>2. ~ToolSteps(p)
  BY DEF At, ToolSteps, ToolBusy, Busy, Rejects, CycleRejects, MaintenanceRejects,
     ImportRejects, AfterCloseRejects, Begins, CycleBegins, MaintenanceBegins,
     ImportBegins, AfterCloseBegins, CycleScriptRuns, PassRuns, MaintenanceRuns,
     ImportRuns, AfterCloseStep, AfterCloseEnds, AfterCloseFails, Starting
<1>. QED  BY <1>1, <1>2 DEF At, ProcessSteps, LoopSteps, PollingLaunched, PollingRejects,
     PollingAcquires, PollingBusy, PollingOpens, LoopTop, CycleRuns

\* A loop gives up after exactly MaxFailures failed cycles in a row.
THEOREM GivesUpOnlyForARow == Spec => GivesUpForARow
<1>1. IInv /\ [Next]_vars =>
        [\A p \in Procs : At(p, "judge") =>
           /\ proc'[p].stop = "MAX_CONSECUTIVE_FAILURES" => proc[p].row = MaxFailures
           /\ proc'[p].pc = "top" => proc[p].row < MaxFailures]_vars
  <2>. SUFFICES ASSUME IInv, Next, NEW p \in Procs, At(p, "judge")
                PROVE  /\ proc'[p].stop = "MAX_CONSECUTIVE_FAILURES" =>
                            proc[p].row = MaxFailures
                       /\ proc'[p].pc = "top" => proc[p].row < MaxFailures
    BY DEF vars
  <2>1. proc[p].pc = "judge" /\ proc[p].stop = "none"
    BY StreakIsRow DEF At
  <2>2. CASE proc'[p] = proc[p]
    BY <2>1, <2>2
  <2>3. ASSUME NEW q \in Procs, q # p,
               ProcessSteps(q) \/ Launch(q) \/ Interrupt(q) \/ Kill(q)
                 \/ KillSession(q) \/ KillChild(q)
        PROVE  proc'[p] = proc[p]
    BY <2>3, OwnRecordOnly DEF Set, IInv
  <2>4. CASE ProcessSteps(p) \/ Launch(p)
    BY <2>4, StepsFromJudge, GoesOnKeeps, StopsKeeps, BreaksKeeps
  <2>5. CASE Interrupt(p) \/ Kill(p)
    BY <2>5, BreaksKeeps, KillKeeps
  <2>6. CASE KillSession(p) \/ KillChild(p)
    BY <2>1, <2>6, KillSessionKeeps, KillChildKeeps DEF At
  <2>7. CASE Tick \/ LossReached \/ \E name \in Kinds : Expire(name)
    BY <2>2, <2>7 DEF Tick, LossReached, Expire
  <2>. QED  BY <2>2, <2>3, <2>4, <2>5, <2>6, <2>7 DEF Next, Environment
<1>. QED  BY <1>1, Invariance, PTL DEF Spec, GivesUpForARow
-----------------------------------------------------------------------------
(***************************************************************************)
(* The lock itself.  TradingDay knows leases that are live or over; the    *)
(* module RuntimeLock counts the seconds of one row.  What is proved of it *)
(* holds for every set of runs, every lease and every busy timeout shorter *)
(* than it.  The inductive invariant says what a lease is worth: either    *)
(* the row is still the one the run wrote, or the lease has expired.       *)
(***************************************************************************)
LeaseOK(p) ==
  Holding(p) => (owner = p /\ lease[p] = left) \/ lease[p] <= 0

LeaseInv == LockTypeOK /\ \A p \in Runs : LeaseOK(p)

\* A step that gives p the row, which nobody else holds a fresh lease on, keeps
\* the invariant.
LEMMA GrantKeepsLeases ==
  ASSUME LeaseInv, NEW p \in Runs, NEW from \in RunState, NEW to \in RunState,
         CanTake(p), Granted(p), Step(p, from, to), UNCHANGED age
  PROVE  LeaseInv'
<1>1. LockTypeOK /\ Lease - age[p] \in -MaxWait..Lease /\ age[p] \in 0..MaxWait
  BY RunsAssumption, LeaseAssumption DEF LeaseInv, LockTypeOK
<1>2. LockTypeOK'
  BY <1>1 DEF LockTypeOK, Granted, Step
<1>3. ASSUME NEW q \in Runs PROVE LeaseOK(q)'
  <2>1. CASE q = p
    BY <1>1, <2>1 DEF LeaseOK, Granted, LockTypeOK
  <2>2. CASE q # p
    <3>1. lease'[q] = lease[q] /\ pc'[q] = pc[q] /\ lease[q] \in Int /\ left \in Int
      BY <1>1, <2>2, RunsAssumption, LeaseAssumption DEF Granted, Step, LockTypeOK
    <3>2. LeaseOK(q)
      BY DEF LeaseInv
    <3>3. owner = q => left <= 0
      BY <1>1, <2>2, <3>1, RunsAssumption, LeaseAssumption DEF CanTake
    <3>. QED  BY <3>1, <3>2, <3>3 DEF LeaseOK, Holding
  <2>. QED  BY <2>1, <2>2
<1>. QED  BY <1>2, <1>3 DEF LeaseInv

\* A step of p that leaves the row alone keeps the invariant.
LEMMA MoveKeepsLeases ==
  ASSUME LeaseInv, NEW p \in Runs, NEW from \in RunState, NEW to \in RunState,
         Step(p, from, to), UNCHANGED <<owner, left, lease>>,
         age' = age \/ ReadClock(p),
         to \in {"loop", "beat", "cycle", "check", "stop"} => Holding(p)
  PROVE  LeaseInv'
<1>1. LockTypeOK'
  BY RunsAssumption, LeaseAssumption DEF LeaseInv, LockTypeOK, Step, ReadClock
<1>2. ASSUME NEW q \in Runs PROVE LeaseOK(q)'
  <2>1. LeaseOK(q) /\ (pc'[q] = pc[q] \/ (q = p /\ pc'[q] = to))
    BY DEF LeaseInv, LockTypeOK, Step
  <2>. QED  BY <2>1 DEF LeaseOK, Holding
<1>. QED  BY <1>1, <1>2 DEF LeaseInv

\* A run that releases deletes no row but its own.
LEMMA ReleaseKeepsLeases ==
  ASSUME LeaseInv, NEW p \in Runs, Release(p)
  PROVE  LeaseInv'
<1>1. LockTypeOK'
  BY DEF LeaseInv, LockTypeOK, Release, Step, RunState
<1>2. ASSUME NEW q \in Runs PROVE LeaseOK(q)'
  <2>1. LeaseOK(q) /\ pc \in [Runs -> RunState]
    BY DEF LeaseInv, LockTypeOK
  <2>2. CASE q = p
    BY <2>1, <2>2 DEF LeaseOK, Holding, Release, Step
  <2>3. CASE q # p
    BY <2>1, <2>3 DEF LeaseOK, Holding, Release, Step
  <2>. QED  BY <2>2, <2>3
<1>. QED  BY <1>1, <1>2 DEF LeaseInv

LEMMA TickKeepsLeases ==
  ASSUME LeaseInv, SecondPasses
  PROVE  LeaseInv'
<1>1. LockTypeOK'
  BY RunsAssumption, LeaseAssumption DEF LeaseInv, LockTypeOK, SecondPasses, Later, Waiting
<1>2. ASSUME NEW q \in Runs PROVE LeaseOK(q)'
  BY RunsAssumption, LeaseAssumption
  DEF LeaseInv, LockTypeOK, LeaseOK, Holding, SecondPasses, Later
<1>. QED  BY <1>1, <1>2 DEF LeaseInv

LEMMA LeaseInit == LockInit => LeaseInv
BY RunsAssumption, LeaseAssumption
DEF LockInit, LeaseInv, LockTypeOK, LeaseOK, Holding, RunState

LEMMA LeaseNext == LeaseInv /\ [LockNext]_lockVars => LeaseInv'
<1>. SUFFICES ASSUME LeaseInv, [LockNext]_lockVars PROVE LeaseInv'
  OBVIOUS
<1>1. CASE UNCHANGED lockVars
  BY <1>1 DEF lockVars, LeaseInv, LockTypeOK, LeaseOK, Holding
<1>2. ASSUME NEW p \in Runs, Acquire(p) PROVE LeaseInv'
  BY <1>2, GrantKeepsLeases DEF Acquire, RunState
<1>3. ASSUME NEW p \in Runs, Beat(p) \/ CheckBeat(p) PROVE LeaseInv'
  <2>1. CanTake(p)
    BY <1>3 DEF Beat, CheckBeat, OwnsRow, CanTake
  <2>. QED  BY <1>3, <2>1, GrantKeepsLeases DEF Beat, CheckBeat, RunState
<1>4. ASSUME NEW p \in Runs,
             AcquireBegin(p) \/ AcquireBusy(p) \/ Rerun(p) \/ ReleaseFails(p)
      PROVE  LeaseInv'
  BY <1>4, MoveKeepsLeases DEF AcquireBegin, AcquireBusy, Rerun, ReleaseFails, RunState
<1>5. ASSUME NEW p \in Runs,
             \/ BeatBegin(p) \/ BeatLost(p) \/ CycleEnd(p) \/ CycleRaises(p)
             \/ DatabaseLocked(p)
      PROVE  LeaseInv'
  <2>1. pc[p] \in {"loop", "beat", "cycle", "check"} => Holding(p)
    BY DEF Holding
  <2>. QED  BY <1>5, <2>1, MoveKeepsLeases
       DEF BeatBegin, BeatLost, CycleEnd, CycleRaises, DatabaseLocked, RunState, Step
<1>6. ASSUME NEW p \in Runs, Crash(p) PROVE LeaseInv'
  <2>1. Step(p, pc[p], "done") /\ pc[p] \in RunState
    BY <1>6 DEF Crash, Step, LeaseInv, LockTypeOK
  <2>. QED  BY <1>6, <2>1, MoveKeepsLeases DEF Crash, RunState
<1>. QED  BY <1>1, <1>2, <1>3, <1>4, <1>5, <1>6, ReleaseKeepsLeases, TickKeepsLeases
     DEF LockNext, Proceed, Commit

LEMMA LeaseInvariance == LockSpec => []LeaseInv
BY LeaseInit, LeaseNext, PTL DEF LockSpec

\* Every variable keeps its type; no renewal makes an expiry later than Lease
\* seconds from now.
THEOREM LockTypeCorrect == LockSpec => []LockTypeOK
<1>1. LeaseInv => LockTypeOK
  BY DEF LeaseInv
<1>. QED  BY <1>1, LeaseInvariance, PTL

\* No two runs hold fresh leases at once, however long their transactions wait
\* and whoever dies.
THEOREM LeasesExclusive == LockSpec => []FreshLeasesExclusive
<1>1. LeaseInv => FreshLeasesExclusive
  <2>. SUFFICES ASSUME LeaseInv, NEW p \in Runs, NEW q \in Runs,
                       Holding(p), lease[p] > 0, Holding(q), lease[q] > 0
                PROVE  p = q
    BY DEF FreshLeasesExclusive
  <2>1. LeaseOK(p) /\ LeaseOK(q) /\ lease[p] \in Int /\ lease[q] \in Int
    BY RunsAssumption, LeaseAssumption DEF LeaseInv, LockTypeOK
  <2>. QED  BY <2>1 DEF LeaseOK
<1>. QED  BY <1>1, LeaseInvariance, PTL

\* A run that lost the row neither gets it back nor starts another cycle.
THEOREM LossIsFinal == LockSpec => LostForGood
<1>1. LeaseInv /\ [LockNext]_lockVars =>
        [\A p \in Runs :
           Holding(p) /\ owner # p =>
             owner' # p /\ (pc'[p] = "cycle" => pc[p] = "cycle")]_lockVars
  <2>. SUFFICES ASSUME LeaseInv, LockNext, NEW p \in Runs, Holding(p), owner # p
                PROVE  owner' # p /\ (pc'[p] = "cycle" => pc[p] = "cycle")
    BY DEF lockVars
  <2>1. owner \in Runs \union {Nobody} /\ p # Nobody /\ pc \in [Runs -> RunState]
    BY RunsAssumption, LeaseAssumption DEF LeaseInv, LockTypeOK
  <2>2. CASE SecondPasses
    BY <2>2 DEF SecondPasses
  <2>3. ASSUME NEW q \in Runs, Proceed(q) \/ AcquireBegin(q) \/ Crash(q) \/ Rerun(q)
        PROVE  owner' # p /\ (pc'[p] = "cycle" => pc[p] = "cycle")
    <3>1. CASE q = p
      BY <2>1, <2>3, <3>1
      DEF Proceed, Commit, AcquireBegin, Crash, Rerun, Step, Holding, Acquire, AcquireBusy,
          Beat, BeatLost, CheckBeat, BeatBegin, CycleEnd, CycleRaises, Release,
          ReleaseFails, DatabaseLocked, OwnsRow
    <3>2. CASE q # p
      BY <2>1, <2>3, <3>2
      DEF Proceed, Commit, AcquireBegin, Crash, Rerun, Step, Granted, Acquire, AcquireBusy,
          Beat, BeatLost, CheckBeat, BeatBegin, CycleEnd, CycleRaises, Release,
          ReleaseFails, DatabaseLocked
    <3>. QED  BY <3>1, <3>2
  <2>. QED  BY <2>2, <2>3 DEF LockNext
<1>. QED  BY <1>1, LeaseInvariance, PTL DEF LockSpec, LostForGood

-----------------------------------------------------------------------------
(* Both levels keep what LeasePromise says of a row.                        *)

SecondsOfRow ==
  INSTANCE LeasePromise
  WITH Users <- Runs, NoOwner <- Nobody, live <- owner # Nobody /\ left > 0

LEMMA GrantIsTake ==
  ASSUME LeaseInv, NEW p \in Runs, CanTake(p), Granted(p)
  PROVE  SecondsOfRow!Take(p)
<1>1. age[p] \in 0..MaxWait /\ left \in Int /\ p # Nobody
  BY RunsAssumption, LeaseAssumption DEF LeaseInv, LockTypeOK
<1>. QED  BY <1>1, RunsAssumption, LeaseAssumption DEF CanTake, Granted, SecondsOfRow!Take,
     SecondsOfRow!MayTake

LEMMA LockStepsKeepPromise ==
  ASSUME LeaseInv, [LockNext]_lockVars
  PROVE  [SecondsOfRow!Next]_(SecondsOfRow!vars)
<1>1. CASE UNCHANGED <<owner, left>>
  BY <1>1 DEF SecondsOfRow!vars
<1>2. CASE SecondPasses
  <2>1. left \in Int /\ left' <= left /\ left' \in Int /\ owner' = owner
    BY <1>2, RunsAssumption, LeaseAssumption DEF LeaseInv, LockTypeOK, SecondPasses, Later
  <2>. QED  BY <2>1 DEF SecondsOfRow!Next, SecondsOfRow!RunOut, SecondsOfRow!vars
<1>3. ASSUME NEW p \in Runs, Acquire(p) \/ Beat(p) \/ CheckBeat(p)
      PROVE  SecondsOfRow!Next
  <2>1. CanTake(p) /\ Granted(p)
    BY <1>3 DEF Acquire, Beat, CheckBeat, OwnsRow, CanTake
  <2>. QED  BY <2>1, GrantIsTake DEF SecondsOfRow!Next
<1>4. ASSUME NEW p \in Runs, Release(p), owner = p PROVE SecondsOfRow!Next
  BY <1>4 DEF Release, SecondsOfRow!Next, SecondsOfRow!GiveUp, SecondsOfRow!MayTake
<1>5. ASSUME NEW p \in Runs,
             \/ AcquireBusy(p) \/ BeatLost(p) \/ BeatBegin(p)
             \/ CycleEnd(p) \/ CycleRaises(p) \/ ReleaseFails(p)
             \/ DatabaseLocked(p) \/ AcquireBegin(p) \/ Crash(p)
             \/ Rerun(p) \/ (Release(p) /\ owner # p)
      PROVE  UNCHANGED <<owner, left>>
  BY <1>5 DEF AcquireBusy, BeatLost, BeatBegin, CycleEnd,
     CycleRaises, ReleaseFails, DatabaseLocked, AcquireBegin,
     Crash, Rerun, Release
<1>6. CASE UNCHANGED lockVars
  BY <1>6, <1>1 DEF lockVars
<1>7. CASE LockNext
  <2>1. CASE \E p \in Runs : Proceed(p) \/ AcquireBegin(p) \/ Crash(p)
                               \/ Rerun(p)
    <3>1. PICK p \in Runs : Proceed(p) \/ AcquireBegin(p) \/ Crash(p)
                               \/ Rerun(p)
      BY <2>1
    <3>. QED  BY <1>1, <1>3, <1>4, <1>5, <3>1 DEF Proceed, Commit
  <2>. QED  BY <1>2, <1>7, <2>1 DEF LockNext
<1>. QED  BY <1>6, <1>7

\* The row of RuntimeLock, which is taken by clocks that are behind, is a row as
\* LeasePromise says: live while it is there and has seconds left.
THEOREM LockKeepsPromise == LockSpec => SecondsOfRow!Spec
<1>1. LockInit => SecondsOfRow!Init
  BY DEF LockInit, SecondsOfRow!Init
<1>2. LeaseInv /\ [LockNext]_lockVars => [SecondsOfRow!Next]_(SecondsOfRow!vars)
  BY LockStepsKeepPromise
<1>. QED  BY <1>1, <1>2, LeaseInvariance, PTL DEF LockSpec, SecondsOfRow!Spec

CONSTANT Name

DayOfRow ==
  INSTANCE LeasePromise
  WITH Users <- Procs, owner <- locks[Name].owner, live <- locks[Name].live

LEMMA LockOfTyped ==
  ASSUME IInv, NEW p \in Procs, proc[p].kind # "none"
  PROVE  LockOf(p) \in Kinds
BY DEF IInv, LockOf, Kinds, Tools, Process

\* A step that leaves the rows of the others alone.
LEMMA OtherRow ==
  ASSUME IInv, Name \in Kinds, NEW n \in Kinds, n # Name, NEW row,
         locks' = [locks EXCEPT ![n] = row]
  PROVE  UNCHANGED DayOfRow!vars
BY DEF DayOfRow!vars, IInv, LockTable

LEMMA TakeOfRow ==
  ASSUME IInv, Name \in Kinds, NEW p \in Procs, proc[p].kind # "none",
         Takeable(p), Acquired(p)
  PROVE  [DayOfRow!Next]_(DayOfRow!vars)
<1>1. CASE LockOf(p) = Name
  <2>1. DayOfRow!Take(p)
    BY <1>1 DEF DayOfRow!Take, DayOfRow!MayTake, Takeable, Acquired, IInv, LockTable
  <2>. QED  BY <2>1 DEF DayOfRow!Next
<1>2. CASE LockOf(p) # Name
  BY <1>2, LockOfTyped, OtherRow DEF Acquired
<1>. QED  BY <1>1, <1>2

\* A lock that p may take is dropped.
LEMMA DropOfRow ==
  ASSUME IInv, Name \in Kinds, NEW p \in Procs, proc[p].kind # "none", Takeable(p),
         locks' = [locks EXCEPT ![LockOf(p)] = [owner |-> NoOwner, live |-> FALSE]]
  PROVE  [DayOfRow!Next]_(DayOfRow!vars)
<1>1. CASE LockOf(p) = Name
  <2>1. DayOfRow!GiveUp(p)
    BY <1>1 DEF DayOfRow!GiveUp, DayOfRow!MayTake, Takeable, IInv, LockTable
  <2>. QED  BY <2>1 DEF DayOfRow!Next
<1>2. CASE LockOf(p) # Name
  BY <1>2, LockOfTyped, OtherRow
<1>. QED  BY <1>1, <1>2

LEMMA ReleaseOfRow ==
  ASSUME IInv, Name \in Kinds, NEW p \in Procs, locks' = LocksWithout(p)
  PROVE  [DayOfRow!Next]_(DayOfRow!vars)
<1>1. CASE proc[p].kind # "none" /\ Owns(p)
  BY <1>1, DropOfRow DEF LocksWithout, Owns, Takeable
<1>2. CASE ~(proc[p].kind # "none" /\ Owns(p))
  BY <1>2 DEF LocksWithout, DayOfRow!vars
<1>. QED  BY <1>1, <1>2

LEMMA RenewalOfRow ==
  ASSUME IInv, Name \in Kinds, NEW p \in Procs, proc[p].kind # "none", Renewed(p)
  PROVE  [DayOfRow!Next]_(DayOfRow!vars)
<1>1. CASE UNCHANGED locks
  BY <1>1 DEF DayOfRow!vars
<1>2. CASE Owns(p) /\ locks' = [locks EXCEPT ![LockOf(p)].live = TRUE]
  <2>1. LockOf(p) \in Kinds /\ locks \in LockTable
    BY LockOfTyped DEF IInv
  <2>2. CASE LockOf(p) = Name
    <3>1. DayOfRow!Take(p)
      BY <1>2, <2>1, <2>2 DEF Owns, DayOfRow!Take, DayOfRow!MayTake, LockTable
    <3>. QED  BY <3>1 DEF DayOfRow!Next
  <2>3. CASE LockOf(p) # Name
    BY <1>2, <2>1, <2>3 DEF DayOfRow!vars, LockTable
  <2>. QED  BY <2>2, <2>3
<1>. QED  BY <1>1, <1>2 DEF Renewed

LEMMA ExpiryOfRow ==
  ASSUME IInv, Name \in Kinds, NEW n \in Kinds, Expire(n)
  PROVE  [DayOfRow!Next]_(DayOfRow!vars)
<1>1. locks \in LockTable /\ locks' = [locks EXCEPT ![n].live = FALSE]
  BY DEF IInv, Expire
<1>2. CASE n = Name
  <2>1. DayOfRow!RunOut
    BY <1>1, <1>2 DEF DayOfRow!RunOut, LockTable
  <2>. QED  BY <2>1 DEF DayOfRow!Next
<1>3. CASE n # Name
  BY <1>1, <1>3 DEF DayOfRow!vars, LockTable
<1>. QED  BY <1>2, <1>3
LEMMA DayStepsKeepPromise ==
  ASSUME IInv, Name \in Kinds, Next
  PROVE  [DayOfRow!Next]_(DayOfRow!vars)
<1>0. CASE UNCHANGED locks
  BY <1>0 DEF DayOfRow!vars
<1>1. CASE \E n \in Kinds : Expire(n)
  BY <1>1, ExpiryOfRow
<1>2. CASE Tick \/ LossReached
  BY <1>0, <1>2 DEF Tick, LossReached
<1>3. ASSUME NEW p \in Procs, \/ Launch(p) \/ Interrupt(p) \/ Kill(p)
                               \/ KillSession(p) \/ KillChild(p)
      PROVE  [DayOfRow!Next]_(DayOfRow!vars)
  BY <1>0, <1>3, ReleaseOfRow DEF Launch, Interrupt, Released, Kill, KillSession, KillChild
<1>4. ASSUME NEW p \in Procs, SessionSteps(p)
      PROVE  [DayOfRow!Next]_(DayOfRow!vars)
  <2>1. CASE Precheck(p)
    <3>1. proc[p].kind = "session"
      BY <2>1 DEF Precheck, At, IInv, Sound, SessionSound, Prepares
    <3>2. CASE ~proc[p].args.execute
      BY <1>0, <2>1, <3>2 DEF Precheck
    <3>3. CASE proc[p].args.execute
      BY <2>1, <3>1, <3>3, DropOfRow DEF Precheck, LockOf
    <3>. QED  BY <3>2, <3>3
  <2>3. CASE PrecheckFails(p)
    <3>1. proc[p].kind # "none"
      BY <2>3 DEF PrecheckFails, At, IInv, Sound, SessionSound, Prepares
    <3>. QED  BY <1>0, <2>3, <3>1, TakeOfRow DEF PrecheckFails
  <2>2. CASE ~Precheck(p) /\ ~PrecheckFails(p)
    BY <1>0, <1>4, <2>2
    DEF SessionSteps, SessionRejects, SessionStarts, PrecheckBusy,
        PreopenRejects, PreopenMasterRejected, PreopenUnprepared, PreopenFails,
        PreopenEnds, PreopenBuilds, StartupBlocked, StartupCheck, SetupScan
  <2>. QED  BY <2>1, <2>2, <2>3
<1>5. ASSUME NEW p \in Procs, LoopSteps(p)
      PROVE  [DayOfRow!Next]_(DayOfRow!vars)
  <2>1. proc[p].pc \in Looped \union {"poll"} => proc[p].kind # "none"
    BY DEF IInv, Sound, LoopSound, Loops
  <2>2. CASE PollingAcquires(p)
    BY <2>1, <2>2, TakeOfRow DEF PollingAcquires, PollingLaunched, At
  <2>3. CASE LoopTop(p) \/ LoopGoesOn(p)
    BY <2>1, <2>3, RenewalOfRow DEF LoopTop, LoopGoesOn, At, Looped
  <2>4. CASE PollingFails(p) \/ LoopStops(p)
    BY <1>0, <2>4, ReleaseOfRow DEF PollingFails, LoopStops, Released
  <2>5. CASE PollingRejects(p) \/ PollingBusy(p) \/ PollingOpens(p) \/ CycleRuns(p)
    BY <1>0, <2>5 DEF PollingRejects, PollingBusy, PollingOpens, CycleRuns
  <2>. QED  BY <1>5, <2>2, <2>3, <2>4, <2>5 DEF LoopSteps
<1>6. ASSUME NEW p \in Procs, ToolSteps(p)
      PROVE  [DayOfRow!Next]_(DayOfRow!vars)
  <2>1. ASSUME NEW kind \in Tools, Begins(p, kind)
        PROVE  [DayOfRow!Next]_(DayOfRow!vars)
    BY <1>0, <2>1, TakeOfRow DEF Begins, Starting, Tools
  <2>2. CASE AfterCloseStep(p)
    BY <2>2, RenewalOfRow DEF AfterCloseStep
  <2>3. CASE CycleScriptRuns(p) \/ MaintenanceRuns(p) \/ ImportRuns(p)
               \/ AfterCloseEnds(p) \/ AfterCloseFails(p)
    BY <1>0, <2>3, ReleaseOfRow
    DEF CycleScriptRuns, MaintenanceRuns, ImportRuns, PassRuns, AfterCloseEnds,
        AfterCloseFails, Finishes, ClosesWith, Breaks
  <2>4. CASE ToolBusy(p) \/ CycleRejects(p) \/ MaintenanceRejects(p)
               \/ ImportRejects(p) \/ AfterCloseRejects(p)
    BY <1>0, <2>4
    DEF ToolBusy, Busy, CycleRejects, MaintenanceRejects, ImportRejects,
        AfterCloseRejects, Rejects
  <2>. QED  BY <1>6, <2>1, <2>2, <2>3, <2>4
       DEF ToolSteps, CycleBegins, MaintenanceBegins, ImportBegins, AfterCloseBegins, Tools
<1>. QED  BY <1>1, <1>2, <1>3, <1>4, <1>5, <1>6 DEF Next, Environment, ProcessSteps

\* Every row of TradingDay is one as LeasePromise says, too: sessions, loops and
\* scripts take, keep and drop their locks no other way.
THEOREM DayKeepsPromise ==
  ASSUME Name \in Kinds
  PROVE  Spec => DayOfRow!Spec
<1>1. Init => DayOfRow!Init
  BY DEF Init, DayOfRow!Init
<1>2. IInv /\ [Next]_vars => [DayOfRow!Next]_(DayOfRow!vars)
  <2>1. CASE UNCHANGED vars
    BY <2>1 DEF vars, DayOfRow!vars
  <2>. QED  BY <2>1, DayStepsKeepPromise
<1>. QED  BY <1>1, <1>2, Invariance, PTL DEF Spec, DayOfRow!Spec

\* No process takes a lock from another while its lease lasts, in seconds ...
THEOREM LockIsNotStolen == LockSpec => SecondsOfRow!NoTheft
<1>1. [SecondsOfRow!Next]_(SecondsOfRow!vars) =>
        [\A p, q \in Runs :
           owner = p /\ (owner # Nobody /\ left > 0) /\ owner' = q
             => p = q]_(SecondsOfRow!vars)
  BY RunsAssumption, LeaseAssumption
  DEF SecondsOfRow!Next, SecondsOfRow!Take, SecondsOfRow!GiveUp, SecondsOfRow!RunOut, SecondsOfRow!MayTake
<1>. QED  BY <1>1, LockKeepsPromise, PTL DEF SecondsOfRow!Spec, SecondsOfRow!NoTheft

\* ... and in the course of a day.
THEOREM DayStealsNoLock ==
  ASSUME Name \in Kinds
  PROVE  Spec => DayOfRow!NoTheft
<1>1. [DayOfRow!Next]_(DayOfRow!vars) =>
        [\A p, q \in Procs :
           locks[Name].owner = p /\ locks[Name].live /\ locks[Name].owner' = q
             => p = q]_(DayOfRow!vars)
  BY DayAssumption
  DEF DayOfRow!Next, DayOfRow!Take, DayOfRow!GiveUp, DayOfRow!RunOut, DayOfRow!MayTake
<1>. QED  BY <1>1, DayKeepsPromise, PTL DEF DayOfRow!Spec, DayOfRow!NoTheft
=============================================================================
