---------------------------- MODULE LeasePromise ----------------------------
(***************************************************************************)
(* What one row of runtime_locks promises, whoever uses it and however its *)
(* clock is kept: a row is taken when there is none, when it is the        *)
(* taker's own, or when its lease is over; it is given up by one who might *)
(* take it; and a lease ends by itself.  RuntimeLock keeps this promise in *)
(* seconds, TradingDay with leases that are just live or over.             *)
(***************************************************************************)
CONSTANTS
  Users,      \* the processes that use the row, each with an owner_id
  NoOwner     \* the owner when there is no row

VARIABLES
  owner,      \* owner_id of the row
  live        \* there is a row, and it has not expired

vars == <<owner, live>>

Init == owner = NoOwner /\ live = FALSE

MayTake(p) == owner \in {NoOwner, p} \/ ~live

\* acquire_or_renew, heartbeat.
Take(p) == MayTake(p) /\ owner' = p /\ live' = TRUE

\* release; a script that only looks whether it would get the lock takes the row
\* and gives it up at once.
GiveUp(p) == MayTake(p) /\ owner' = NoOwner /\ live' = FALSE

\* The lease runs out, and the row stays.
RunOut == live' = FALSE /\ UNCHANGED owner

Next == RunOut \/ \E p \in Users : Take(p) \/ GiveUp(p)

Spec == Init /\ [][Next]_vars

\* Nobody takes a row over before its lease is over: it passes through the hands
\* of nobody, or of the process that gave it up.
NoTheft ==
  [][\A p, q \in Users : owner = p /\ live /\ owner' = q => p = q]_vars
=============================================================================
