---------------------------- MODULE RuntimeLock ----------------------------
(***************************************************************************)
(* The runtime lock of the trading scripts: one row of runtime_locks with  *)
(* an owner and an expiry, and the runs of the polling script that acquire *)
(* it, renew it around every trading cycle and release it at the end.      *)
(*                                                                         *)
(* A run is one process with an owner id of its own.  RuntimeLockService   *)
(* reads the clock before it opens the transaction that uses the reading,  *)
(* and SQLite may keep the transaction waiting for the write lock.         *)
(*                                                                         *)
(* Time is counted in seconds and kept relative to now: an expiry is the   *)
(* number of seconds left until it, a clock reading the number of seconds  *)
(* since it was taken.  Below -MaxWait an expiry has passed for every      *)
(* reading still in use, so it stays there.                                *)
(***************************************************************************)
EXTENDS Integers

CONSTANTS
  Runs,       \* processes that use the lock, each with its owner_id
  Nobody,     \* the owner when there is no row
  Lease,      \* lease_seconds
  MaxWait     \* busy_timeout: how long a transaction may wait to begin

ASSUME RunsAssumption == Nobody \notin Runs
ASSUME LeaseAssumption == Lease \in Nat /\ MaxWait \in Nat /\ MaxWait < Lease

VARIABLES
  owner,      \* owner_id of the row
  left,       \* seconds until expires_at of the row
  pc,         \* pc[p]: where run p stands
  age,        \* age[p]: seconds since run p read the clock for its transaction
  lease       \* lease[p]: seconds until the expiry of the last lease p was given

lockVars == <<owner, left, pc, age, lease>>

LockInit ==
  /\ owner = Nobody
  /\ left = -MaxWait
  /\ pc = [p \in Runs |-> "new"]
  /\ age = [p \in Runs |-> 0]
  /\ lease = [p \in Runs |-> -MaxWait]

\* A run whose transaction may be waiting.
Waiting(p) == pc[p] \in {"acquire", "beat", "check"}

\* A run between its acquire and its release.
Holding(p) == pc[p] \in {"loop", "beat", "cycle", "check", "stop"}

Step(p, from, to) == pc[p] = from /\ pc' = [pc EXCEPT ![p] = to]

\* _build_window, before BEGIN IMMEDIATE.
ReadClock(p) == age' = [age EXCEPT ![p] = 0]

\* Mutant of Granted: a renewal adds to what is left instead of starting again.
GrantedOnTop(p) ==
  /\ owner' = p
  /\ left' = IF owner = p THEN left + Lease ELSE Lease - age[p]
  /\ lease' = [lease EXCEPT ![p] = Lease - age[p]]

\* The row and the lease after an acquire or a heartbeat: from the clock reading
\* of p, Lease seconds.
Granted(p) ==
  /\ owner' = p
  /\ left' = Lease - age[p]
  /\ lease' = [lease EXCEPT ![p] = Lease - age[p]]

-----------------------------------------------------------------------------
\* Mutant of CanTake: no run takes over an expired lease.
CanTakeNever(p) == owner \in {Nobody, p}

\* acquire_or_renew: no row, the run's own, or one that had expired when the run
\* read the clock.
CanTake(p) == owner \in {Nobody, p} \/ left + age[p] <= 0

AcquireBegin(p) ==
  /\ Step(p, "new", "acquire")
  /\ ReadClock(p)
  /\ UNCHANGED <<owner, left, lease>>

\* The run goes on to its loop, or ends at once: the precheck of the session
\* script, which only acquires and releases, or an error while it sets up.
Acquire(p) ==
  /\ CanTake(p)
  /\ Granted(p)
  /\ Step(p, "acquire", "loop") \/ Step(p, "acquire", "stop")
  /\ UNCHANGED age

\* RuntimeLockBusyError: the run ends, there is nothing to release.
AcquireBusy(p) ==
  /\ ~CanTake(p)
  /\ Step(p, "acquire", "done")
  /\ UNCHANGED <<owner, left, age, lease>>

\* The heartbeat at the top of the loop.
BeatBegin(p) ==
  /\ Step(p, "loop", "beat")
  /\ ReadClock(p)
  /\ UNCHANGED <<owner, left, lease>>

\* Mutant of OwnsRow: a row that is gone or somebody else's is not noticed.
OwnsRowUnchecked(p) == p \in Runs

\* The row heartbeat looks for; whether it has expired does not matter.
OwnsRow(p) == owner = p

\* The loop waits for its start time, or the trading cycle runs.
Beat(p) ==
  /\ OwnsRow(p)
  /\ Granted(p)
  /\ Step(p, "beat", "loop") \/ Step(p, "beat", "cycle")
  /\ UNCHANGED age

\* ServiceError, ownership was lost: the loop ends.
BeatLost(p) ==
  /\ ~OwnsRow(p)
  /\ Step(p, "beat", "stop") \/ Step(p, "check", "stop")
  /\ UNCHANGED <<owner, left, age, lease>>

\* run_cycle returns; the lock is not touched while it runs.
CycleEnd(p) ==
  /\ Step(p, "cycle", "check")
  /\ ReadClock(p)
  /\ UNCHANGED <<owner, left, lease>>

CycleRaises(p) ==
  /\ Step(p, "cycle", "stop")
  /\ UNCHANGED <<owner, left, age, lease>>

\* The heartbeat after the cycle, and the decision to go on or to stop.
CheckBeat(p) ==
  /\ OwnsRow(p)
  /\ Granted(p)
  /\ Step(p, "check", "loop") \/ Step(p, "check", "stop")
  /\ UNCHANGED age

\* Mutant of Release: the row is deleted whoever owns it.
ReleaseAnyones(p) ==
  /\ Step(p, "stop", "done")
  /\ owner' = Nobody
  /\ UNCHANGED <<left, age, lease>>

\* DELETE ... WHERE owner_id = ?, in the finally clause.
Release(p) ==
  /\ Step(p, "stop", "done")
  /\ owner' = IF owner = p THEN Nobody ELSE owner
  /\ UNCHANGED <<left, age, lease>>

\* An error of the release is swallowed, and the row stays.
ReleaseFails(p) ==
  /\ Step(p, "stop", "done")
  /\ UNCHANGED <<owner, left, age, lease>>

\* "database is locked": the wait was too long.
DatabaseLocked(p) ==
  /\ age[p] = MaxWait
  /\ \/ Step(p, "acquire", "done")
     \/ Step(p, "beat", "stop")
     \/ Step(p, "check", "stop")
  /\ UNCHANGED <<owner, left, age, lease>>

\* The process is killed: the finally clause does not run.
Crash(p) ==
  /\ pc[p] = "acquire" \/ Holding(p)
  /\ pc' = [pc EXCEPT ![p] = "done"]
  /\ UNCHANGED <<owner, left, age, lease>>

\* Another run, with a new owner id; a run that left no trace lends its name.
Rerun(p) ==
  /\ owner # p
  /\ Step(p, "done", "new")
  /\ UNCHANGED <<owner, left, age, lease>>

Later(seconds) == IF seconds > -MaxWait THEN seconds - 1 ELSE seconds

\* A second passes.
SecondPasses ==
  /\ \A p \in Runs : Waiting(p) => age[p] < MaxWait
  /\ left' = Later(left)
  /\ lease' = [p \in Runs |-> Later(lease[p])]
  /\ age' = [p \in Runs |-> IF Waiting(p) THEN age[p] + 1 ELSE age[p]]
  /\ UNCHANGED <<owner, pc>>

-----------------------------------------------------------------------------
\* The transaction of a run begins and ends.
Commit(p) ==
  Acquire(p) \/ AcquireBusy(p) \/ Beat(p) \/ BeatLost(p) \/ CheckBeat(p)

\* A run goes on by itself.
Proceed(p) ==
  \/ Commit(p) \/ BeatBegin(p) \/ CycleEnd(p) \/ CycleRaises(p)
  \/ Release(p) \/ ReleaseFails(p) \/ DatabaseLocked(p)

LockNext ==
  \/ \E p \in Runs : Proceed(p) \/ AcquireBegin(p) \/ Crash(p) \/ Rerun(p)
  \/ SecondPasses

LockSpec == LockInit /\ [][LockNext]_lockVars

(***************************************************************************)
(* Fairness: time passes, a run goes on, a cycle ends.  The operator       *)
(* starts the script again after it ended, and an attempt that could get   *)
(* the lock is not kept waiting by the database every time.                *)
(***************************************************************************)
Fairness ==
  /\ WF_lockVars(SecondPasses)
  /\ \A p \in Runs :
       WF_lockVars(Proceed(p)) /\ WF_lockVars(AcquireBegin(p)) /\ WF_lockVars(Rerun(p))
  /\ SF_lockVars(\E p \in Runs : Acquire(p))

FairLockSpec == LockSpec /\ Fairness

-----------------------------------------------------------------------------
(* Properties                                                              *)

RunState ==
  {"new", "acquire", "loop", "beat", "cycle", "check", "stop", "done"}

\* Type invariant.
LockTypeOK ==
  /\ owner \in Runs \union {Nobody}
  /\ left \in -MaxWait..Lease
  /\ pc \in [Runs -> RunState]
  /\ age \in [Runs -> 0..MaxWait]
  /\ lease \in [Runs -> -MaxWait..Lease]

\* Two runs never hold leases that have not expired, although each acts on a
\* clock reading older than its transaction and its row may have been taken
\* over, renewed or deleted while it waited.
FreshLeasesExclusive ==
  \A p, q \in Runs :
    Holding(p) /\ lease[p] > 0 /\ Holding(q) /\ lease[q] > 0 => p = q

\* A run that lost the row never gets it back and never starts another cycle:
\* two loops overlap for the rest of one cycle at most.
LostForGood ==
  [][\A p \in Runs :
       Holding(p) /\ owner # p =>
         owner' # p /\ (pc'[p] = "cycle" => pc[p] = "cycle")]_lockVars

\* The row of a run that died, or could not release it, does not lock everybody
\* out: another run gets the lock.
DeadOwnerReplaced ==
  \A p \in Runs : (owner = p /\ pc[p] = "done") ~> (owner # p)
=============================================================================
