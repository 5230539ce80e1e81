------------------------- MODULE OrderLedger_proofs -------------------------
(***************************************************************************)
(* Proofs about OrderLedger, for every set of orders and workers, every    *)
(* quantity and every number of crashes.  The inductive invariant IInv     *)
(* adds to the type invariant what each worker may rely on about the order *)
(* it works on, although other workers and the exchange move in between.   *)
(***************************************************************************)
EXTENDS OrderLedger, FiniteSetTheorems, TLAPS

Placing == {"pre_trade", "post", "posted"}

\* The row of one order, its executions and the broker's view of it.
OrderOK(o) ==
  /\ executions[o] \subseteq 1..brokerFilled[o]
  /\ brokerFilled[o] <= Qty[o]
  /\ filled_qty[o] = ExecutedQty(o)
  /\ brokerState[o] = "none" => brokerFilled[o] = 0
  /\ brokerState[o] = "cancelled" => brokerFilled[o] < Qty[o]
  /\ status[o] \in {"ABSENT", "FAILED"} => brokerState[o] = "none"
  /\ status[o] = "CANCELLED" => brokerState[o] = "cancelled"
  /\ order_no[o] => brokerState[o] # "none"
  /\ order_no[o] => status[o] \in {"SUBMITTED", "PARTIAL", "FILLED", "CANCELLED"}
  /\ status[o] = "FILLED" <=> ExecutedQty(o) = Qty[o]
  /\ status[o] = "PARTIAL" => ExecutedQty(o) > 0
  /\ status[o] \in {"ABSENT", "PENDING", "SUBMITTED", "UNKNOWN",
                    "REJECTED", "FAILED"} => executions[o] = {}

\* What a worker that does job knows about its order at each point.
Known(job) ==
  LET o == job.ord IN
  /\ job.pc \in {"pre_trade", "post"} =>
       status[o] = "PENDING" /\ brokerState[o] = "none"
  /\ job.pc = "posted" =>
       /\ status[o] = "PENDING"
       /\ job.saw \in PlaceReplies
       /\ job.saw = "accepted" => brokerState[o] # "none"
  /\ job.pc \in {"cancel", "lookup"} => order_no[o] /\ job.saw # "UNKNOWN"
  /\ job.pc = "sync_apply" => job.saw = "MARK_CANCELLED"
  /\ job.pc = "finalize_apply" => job.saw \in {"PARTIAL", "FILLED", "CANCELLED"}
  /\ \/ job.pc \in {"cancelled", "sync_apply"}
     \/ job.pc \in {"finalize", "finalize_apply"} /\ job.saw = "CANCELLED"
     => order_no[o] /\ brokerState[o] = "cancelled"
  /\ job.pc = "import" =>
       /\ job.num \in 1..brokerFilled[o]
       /\ status[o] \notin {"ABSENT", "PENDING", "REJECTED", "FAILED"}

WorkerOK(w) ==
  ~At(w, "idle") => proc[w].ord \in Orders /\ Known(proc[w])

\* No two workers place the same order.
OnePlacer ==
  \A v, w \in Workers :
    proc[v].pc \in Placing /\ proc[w].pc \in Placing /\ proc[v].ord = proc[w].ord
      => v = w

IInv ==
  /\ TypeOK
  /\ \A o \in Orders : OrderOK(o)
  /\ \A w \in Workers : WorkerOK(w)
  /\ OnePlacer

Jobs == [pc : ProcState, ord : Orders \union {NoOrder}, saw : Memory, num : Nat]

-----------------------------------------------------------------------------
(* Lemmas                                                                  *)

\* The executions of an order are finitely many, no more than the exchange made.
LEMMA ExecutedFacts ==
  ASSUME TypeOK, NEW o \in Orders, OrderOK(o)
  PROVE  /\ IsFiniteSet(executions[o])
         /\ ExecutedQty(o) \in Nat
         /\ ExecutedQty(o) <= brokerFilled[o]
         /\ ExecutedQty(o) = 0 <=> executions[o] = {}
<1>1. IsFiniteSet(1..brokerFilled[o]) /\ Cardinality(1..brokerFilled[o]) = brokerFilled[o]
  <2>1. brokerFilled[o] \in Nat
    BY DEF TypeOK
  <2>2. Cardinality(1..brokerFilled[o]) =
          IF 1 > brokerFilled[o] THEN 0 ELSE brokerFilled[o] - 1 + 1
    BY <2>1, FS_Interval
  <2>3. IsFiniteSet(1..brokerFilled[o])
    BY <2>1, FS_Interval
  <2>4. Cardinality(1..brokerFilled[o]) = brokerFilled[o]
    <3>1. CASE brokerFilled[o] = 0
      BY <2>2, <3>1
    <3>2. CASE brokerFilled[o] # 0
      BY <2>1, <2>2, <3>2
    <3>. QED  BY <3>1, <3>2
  <2>. QED  BY <2>3, <2>4
<1>2. executions[o] \subseteq 1..brokerFilled[o]
  BY DEF OrderOK
<1>3. /\ IsFiniteSet(executions[o])
      /\ Cardinality(executions[o]) <= Cardinality(1..brokerFilled[o])
  BY <1>1, <1>2, FS_Subset
<1>4. Cardinality(executions[o]) \in Nat
  BY <1>3, FS_CardinalityType
<1>5. Cardinality(executions[o]) = 0 <=> executions[o] = {}
  BY <1>3, FS_EmptySet
<1>. QED  BY <1>1, <1>3, <1>4, <1>5 DEF ExecutedQty

\* A step that only moves one worker on, to a job whose facts hold, keeps the
\* invariant.
LEMMA MoveKeepsIInv ==
  ASSUME IInv, NEW w \in Workers, NEW job \in Jobs,
         Goto(w, job), UNCHANGED <<dbVars, brokerVars>>, crashes' \in 0..MaxCrashes,
         job.pc # "idle" => job.ord \in Orders /\ Known(job),
         job.pc \in Placing => proc[w].pc \in Placing /\ job.ord = proc[w].ord
  PROVE  IInv'
<1>. USE DEF IInv
<1>1. TypeOK'
  BY DEF TypeOK, Goto, Jobs, dbVars, brokerVars
<1>2. ASSUME NEW o \in Orders PROVE OrderOK(o)'
  BY DEF OrderOK, ExecutedQty, dbVars, brokerVars
<1>3. ASSUME NEW v \in Workers PROVE WorkerOK(v)'
  <2>1. CASE v = w
    <3>1. proc'[v] = job
      BY <2>1 DEF Goto, TypeOK
    <3>. QED  BY <3>1 DEF WorkerOK, At, Known, dbVars, brokerVars
  <2>2. CASE v # w
    <3>1. proc'[v] = proc[v]
      BY <2>2 DEF Goto, TypeOK
    <3>. QED  BY <3>1 DEF WorkerOK, At, Known, dbVars, brokerVars
  <2>. QED  BY <2>1, <2>2
<1>4. OnePlacer'
  BY DEF OnePlacer, Goto, TypeOK
<1>. QED  BY <1>1, <1>2, <1>3, <1>4

\* Every status a fill can be booked under, and FILLED: none is left except for
\* another one of them.
Confirmed == DbOrderStatus \ {"PENDING", "REJECTED", "FAILED"}

\* What a step may do to the row and the broker's view of an order while other
\* workers are busy with it.
Stable(o) ==
  /\ order_no[o] => order_no'[o]
  /\ brokerState[o] = "cancelled" => brokerState'[o] = "cancelled"
  /\ brokerState[o] # "none" => brokerState'[o] # "none"
  /\ brokerFilled[o] <= brokerFilled'[o]
  /\ status[o] \in Confirmed => status'[o] \in Confirmed

\* A job goes on as its worker expects when the order changes in a stable way
\* and, if the job is placing the order, not at all.
LEMMA JobKept ==
  ASSUME IInv, TypeOK', NEW v \in Workers, WorkerOK(v), proc'[v] = proc[v],
         \A o \in Orders : Stable(o),
         proc[v].pc \in Placing =>
           /\ status'[proc[v].ord] = status[proc[v].ord]
           /\ brokerState[proc[v].ord] = "none" => brokerState'[proc[v].ord] = "none"
  PROVE  WorkerOK(v)'
<1>. SUFFICES ASSUME ~At(v, "idle")'
              PROVE  proc[v].ord \in Orders /\ Known(proc[v])'
  BY DEF WorkerOK
<1>1. /\ proc[v].ord \in Orders
      /\ Known(proc[v])
      /\ Stable(proc[v].ord)
  BY DEF WorkerOK, At
<1>2. /\ brokerFilled[proc[v].ord] \in Nat
      /\ brokerFilled'[proc[v].ord] \in Nat
      /\ status[proc[v].ord] \in DbOrderStatus \union {"ABSENT"}
      /\ proc[v].num \in Nat
  BY <1>1 DEF IInv, TypeOK
<1>. QED  BY <1>1, <1>2 DEF Known, Stable, Placing, Confirmed, DbOrderStatus

\* A step of worker w on its order o leaves the facts of the other workers true.
LEMMA OthersKept ==
  ASSUME IInv, TypeOK', NEW w \in Workers, NEW o \in Orders, NEW job \in Jobs,
         Goto(w, job), Stable(o),
         \A p \in Orders \ {o} :
           /\ status'[p] = status[p] /\ order_no'[p] = order_no[p]
           /\ brokerState'[p] = brokerState[p] /\ brokerFilled'[p] = brokerFilled[p],
         \/ status'[o] = status[o] /\ brokerState'[o] = brokerState[o]
         \/ status[o] # "PENDING"
         \/ proc[w].pc \in Placing /\ proc[w].ord = o,
         WorkerOK(w)',
         job.pc \in Placing =>
           \/ proc[w].pc \in Placing /\ job.ord = proc[w].ord
           \/ job.ord = o /\ status[o] = "ABSENT"
  PROVE  (\A v \in Workers : WorkerOK(v)') /\ OnePlacer'
<1>1. \A p \in Orders : Stable(p)
  BY DEF Stable, IInv, TypeOK, Confirmed
<1>2. ASSUME NEW v \in Workers, proc[v].pc \in Placing
      PROVE  proc[v].ord \in Orders /\ status[proc[v].ord] = "PENDING"
  BY <1>2 DEF IInv, WorkerOK, Known, Placing, At
<1>3. ASSUME NEW v \in Workers, v # w
      PROVE  WorkerOK(v)'
  <2>1. proc'[v] = proc[v]
    BY <1>3 DEF Goto, IInv, TypeOK
  <2>2. ASSUME proc[v].pc \in Placing
        PROVE  /\ status'[proc[v].ord] = status[proc[v].ord]
               /\ brokerState[proc[v].ord] = "none" => brokerState'[proc[v].ord] = "none"
    BY <1>2, <1>3, <2>2 DEF IInv, OnePlacer
  <2>3. WorkerOK(v)
    BY DEF IInv
  <2>. QED  BY <1>1, <2>1, <2>2, <2>3, JobKept
<1>4. OnePlacer'
  BY <1>2 DEF OnePlacer, IInv, Goto, TypeOK
<1>. QED  BY <1>3, <1>4

-----------------------------------------------------------------------------
(* The actions that move a worker and change no row                        *)

\* A job has the parts it is made of.
LEMMA JobParts ==
  ASSUME NEW pc \in ProcState, NEW o \in Orders, NEW saw \in Memory, NEW num \in Nat
  PROVE  LET job == Job(pc, o, saw, num) IN
         /\ job \in Jobs
         /\ job.pc = pc /\ job.ord = o /\ job.saw = saw /\ job.num = num
BY DEF Job, Jobs

\* A worker that moves on without placing: what it must know is enough.
LEMMA MoveOn ==
  ASSUME IInv, NEW w \in Workers,
         NEW pc \in ProcState \ Placing, NEW o \in Orders, NEW saw \in Memory, NEW num \in Nat,
         Goto(w, Job(pc, o, saw, num)), UNCHANGED <<dbVars, brokerVars, crashes>>,
         Known(Job(pc, o, saw, num))
  PROVE  IInv'
<1>. DEFINE job == Job(pc, o, saw, num)
<1>1. job \in Jobs /\ job.pc = pc /\ job.ord = o
  BY JobParts
<1>2. crashes' \in 0..MaxCrashes
  BY DEF IInv, TypeOK
<1>3. Known(job) /\ Goto(w, job)
  OBVIOUS
<1>. HIDE DEF job
<1>. QED  BY <1>1, <1>2, <1>3, MoveKeepsIInv

LEMMA IdleStep ==
  ASSUME IInv, NEW w \in Workers,
         Goto(w, Idle), UNCHANGED <<dbVars, brokerVars>>, crashes' \in 0..MaxCrashes
  PROVE  IInv'
<1>1. Idle \in Jobs /\ Idle.pc = "idle"
  BY DEF Job, Idle, Jobs, ProcState, Memory
<1>. HIDE DEF Idle
<1>. QED  BY <1>1, MoveKeepsIInv DEF Placing

\* The order of a worker that is not idle.
LEMMA BusyOrder ==
  ASSUME IInv, NEW w \in Workers, ~At(w, "idle")
  PROVE  /\ proc[w] \in Jobs
         /\ proc[w].ord \in Orders
         /\ Known(proc[w])
         /\ OrderOK(proc[w].ord)
         /\ crashes \in 0..MaxCrashes
BY DEF IInv, TypeOK, WorkerOK, At, Jobs

LEMMA PlaceMoves ==
  ASSUME IInv, NEW w \in Workers, NEW http \in HttpOutcome,
         PlaceChecked(w) \/ PostLost(w, http)
  PROVE  IInv'
<1>. DEFINE o == proc[w].ord
<1>1. /\ o \in Orders /\ Known(proc[w]) /\ crashes \in 0..MaxCrashes
      /\ proc[w].pc \in {"pre_trade", "post"}
  BY BusyOrder DEF PlaceChecked, PostLost, At
<1>2. status[o] = "PENDING" /\ brokerState[o] = "none"
  BY <1>1 DEF Known
<1>3. CASE PlaceChecked(w)
  <2>. DEFINE job == Job("post", o, "none", 0)
  <2>1. job \in Jobs /\ job.pc = "post" /\ job.ord = o
    BY <1>1 DEF Job, Jobs, ProcState, Memory
  <2>2. Known(job)
    BY <1>2, <2>1 DEF Known
  <2>3. Goto(w, job) /\ UNCHANGED <<dbVars, brokerVars>> /\ crashes' \in 0..MaxCrashes
    BY <1>1, <1>3 DEF PlaceChecked
  <2>. HIDE DEF job
  <2>. QED  BY <1>1, <2>1, <2>2, <2>3, MoveKeepsIInv DEF Placing
<1>4. CASE PostLost(w, http)
  <2>. DEFINE job == Job("posted", o, PlaceReply(http), 0)
  <2>1. PlaceReply(http) \in PlaceReplies /\ PlaceReply(http) # "accepted"
    BY <1>4 DEF PostLost, MayHaveBeenLost, HttpOutcome, PlaceReply, PlaceReplies,
                PostException
  <2>2. job \in Jobs /\ job.pc = "posted" /\ job.ord = o /\ job.saw = PlaceReply(http)
    BY <1>1, <2>1 DEF Job, Jobs, ProcState, PlaceReplies, Memory
  <2>3. Known(job)
    BY <1>2, <2>1, <2>2 DEF Known
  <2>4. Goto(w, job) /\ UNCHANGED <<dbVars, brokerVars>> /\ crashes' \in 0..MaxCrashes
    BY <1>1, <1>4 DEF PostLost
  <2>. HIDE DEF job
  <2>. QED  BY <1>1, <2>2, <2>3, <2>4, MoveKeepsIInv DEF Placing
<1>. QED  BY <1>3, <1>4

\* Taking up an order to cancel, synchronise or import.
LEMMA BeginMoves ==
  ASSUME IInv, NEW w \in Workers, NEW o \in Orders, NEW i \in 1..Qty[o],
         CancelScript(w, o) \/ SyncStart(w, o) \/ ImportStart(w, o, i)
  PROVE  IInv'
<1>1. /\ OrderOK(o)
      /\ order_no[o] \in BOOLEAN
      /\ status[o] \in DbOrderStatus \union {"ABSENT"}
      /\ i \in Nat /\ 0 \in Nat
      /\ "none" \in Memory
  BY OrdersAssumption DEF IInv, TypeOK, DbOrderStatus, Memory
<1>2. CASE CancelScript(w, o)
  <2>1. Known(Job("cancel", o, "none", 0))
    BY <1>2 DEF CancelScript, Cancellable, Known, Job
  <2>. QED  BY <1>1, <1>2, <2>1, MoveOn DEF CancelScript, ProcState, Placing
<1>3. CASE SyncStart(w, o)
  <2>. /\ UNCHANGED <<dbVars, brokerVars, crashes>>
       /\ Goto(w, CASE status[o] = "PARTIAL" -> Job("finalize", o, "none", 0)
                    [] status[o] # "PARTIAL" /\ ~order_no[o] -> Job("stale", o, "none", 0)
                    [] OTHER -> Job("lookup", o, status[o], 0))
    BY <1>3 DEF SyncStart
  <2>1. CASE status[o] = "PARTIAL"
    <3>1. Known(Job("finalize", o, "none", 0))
      BY DEF Known, Job
    <3>2. Goto(w, Job("finalize", o, "none", 0))
      BY <2>1
    <3>. QED  BY <1>1, <3>1, <3>2, MoveOn DEF ProcState, Placing
  <2>2. CASE status[o] # "PARTIAL" /\ ~order_no[o]
    <3>1. Known(Job("stale", o, "none", 0))
      BY DEF Known, Job
    <3>2. Goto(w, Job("stale", o, "none", 0))
      BY <2>2
    <3>. QED  BY <1>1, <3>1, <3>2, MoveOn DEF ProcState, Placing
  <2>3. CASE status[o] # "PARTIAL" /\ order_no[o]
    <3>1. Known(Job("lookup", o, status[o], 0))
      BY <1>1, <2>3 DEF OrderOK, Known, Job
    <3>2. Goto(w, Job("lookup", o, status[o], 0))
      BY <2>3
    <3>3. status[o] \in Memory
      BY <1>1, <1>3 DEF SyncStart, UNRESOLVED_DB_ORDER_STATUSES, DbOrderStatus, Memory
    <3>. QED  BY <1>1, <3>1, <3>2, <3>3, MoveOn DEF ProcState, Placing
  <2>. QED  BY <1>1, <2>1, <2>2, <2>3
<1>4. CASE ImportStart(w, o, i)
  <2>1. i \in 1..brokerFilled[o] /\ status[o] \in IMPORTABLE_STATUSES
    BY <1>4 DEF ImportStart, RoomForExecution
  <2>2. Known(Job("import", o, "none", i))
    BY <2>1 DEF Known, Job, IMPORTABLE_STATUSES
  <2>. QED  BY <1>1, <1>4, <2>2, MoveOn DEF ImportStart, ProcState, Placing
<1>. QED  BY <1>2, <1>3, <1>4

\* The moves of a maintenance pass between its transactions.
LEMMA MaintainMoves ==
  ASSUME IInv, NEW w \in Workers,
         \/ SyncLookup(w) \/ SyncNoMatch(w) \/ FinalizeReady(w) \/ StaleCancel(w)
  PROVE  IInv'
<1>. DEFINE o == proc[w].ord
            filled == brokerFilled[o]
            view == BrokerOrderStatus(Qty[o], filled, brokerState[o] = "cancelled")
            action == SafeAction(proc[w].saw, view, filled)
            target == FinalTarget(o, proc[w].saw, proc[w].num)
<1>1. ~At(w, "idle")
  BY DEF SyncLookup, SyncNoMatch, FinalizeReady, StaleCancel, At
<1>2. /\ o \in Orders
      /\ Known(proc[w])
      /\ OrderOK(o)
      /\ 0 \in Nat /\ filled \in Nat /\ Qty[o] \in Nat
      /\ "none" \in Memory
      /\ brokerState[o] \in {"none", "working", "cancelled"}
  BY <1>1, BusyOrder, OrdersAssumption DEF IInv, TypeOK, Memory
<1>. HIDE DEF o
<1>3. Known(Job("stale", o, "none", 0))
  BY DEF Known, Job
<1>4. CASE SyncLookup(w)
  <2>1. /\ At(w, "lookup")
        /\ UNCHANGED <<dbVars, brokerVars, crashes>>
        /\ Goto(w, CASE action = "NONE" -> Job("stale", o, "none", 0)
                     [] action = "RECOVERY_REQUIRED" -> Job("finalize", o, view, filled)
                     [] OTHER -> Job("sync_apply", o, action, 0))
    BY <1>4 DEF SyncLookup, o
  <2>2. order_no[o] /\ proc[w].saw # "UNKNOWN"
    BY <1>2, <2>1 DEF Known, At, o
  <2>3. view \in {"ACCEPTED", "PARTIAL", "FILLED", "CANCELLED"}
    BY DEF BrokerOrderStatus
  <2>4. view = "CANCELLED" => brokerState[o] = "cancelled"
    BY <1>2 DEF BrokerOrderStatus
  <2>5. action \in {"NONE", "RECOVERY_REQUIRED", "MARK_CANCELLED"}
    BY <2>2 DEF SafeAction
  <2>6. action = "MARK_CANCELLED" => view = "CANCELLED"
    BY <1>2, <2>2 DEF SafeAction
  <2>. HIDE DEF view, action
  <2>7. CASE action = "NONE"
    <3>1. Goto(w, Job("stale", o, "none", 0))
      BY <2>1, <2>7
    <3>. QED  BY <1>2, <1>3, <2>1, <3>1, MoveOn DEF ProcState, Placing
  <2>8. CASE action = "RECOVERY_REQUIRED"
    <3>1. Goto(w, Job("finalize", o, view, filled)) /\ view \in Memory
      BY <2>1, <2>3, <2>8 DEF Memory, DbOrderStatus
    <3>2. Known(Job("finalize", o, view, filled))
      BY <2>2, <2>4 DEF Known, Job
    <3>. QED  BY <1>2, <2>1, <3>1, <3>2, MoveOn DEF ProcState, Placing
  <2>9. CASE action = "MARK_CANCELLED"
    <3>1. Goto(w, Job("sync_apply", o, action, 0)) /\ action \in Memory
      BY <2>1, <2>9 DEF Memory
    <3>2. Known(Job("sync_apply", o, action, 0))
      BY <2>2, <2>4, <2>6, <2>9 DEF Known, Job
    <3>. QED  BY <1>2, <2>1, <3>1, <3>2, MoveOn DEF ProcState, Placing
  <2>. QED  BY <2>5, <2>7, <2>8, <2>9
<1>5. CASE SyncNoMatch(w)
  <2>1. Goto(w, Job("stale", o, "none", 0)) /\ UNCHANGED <<dbVars, brokerVars, crashes>>
    BY <1>5 DEF SyncNoMatch, o
  <2>. QED  BY <1>2, <1>3, <2>1, MoveOn DEF ProcState, Placing
<1>6. CASE FinalizeReady(w)
  <2>1. /\ At(w, "finalize") /\ target # "none"
        /\ Goto(w, Job("finalize_apply", o, target, 0))
        /\ UNCHANGED <<dbVars, brokerVars, crashes>>
    BY <1>6 DEF FinalizeReady, o
  <2>2. /\ target \in {"PARTIAL", "FILLED", "CANCELLED"}
        /\ target = "CANCELLED" => proc[w].saw = "CANCELLED"
    BY <2>1 DEF FinalTarget
  <2>. HIDE DEF target
  <2>3. Known(Job("finalize_apply", o, target, 0)) /\ target \in Memory
    BY <1>2, <2>1, <2>2 DEF Known, Job, At, o, Memory, DbOrderStatus
  <2>. QED  BY <1>2, <2>1, <2>3, MoveOn DEF ProcState, Placing
<1>7. CASE StaleCancel(w)
  <2>1. Goto(w, Job("cancel", o, "none", 0)) /\ UNCHANGED <<dbVars, brokerVars, crashes>>
    BY <1>7 DEF StaleCancel, o
  <2>2. Known(Job("cancel", o, "none", 0))
    BY <1>7 DEF StaleCancel, Cancellable, Known, Job, o
  <2>. QED  BY <1>2, <2>1, <2>2, MoveOn DEF ProcState, Placing
<1>. QED  BY <1>4, <1>5, <1>6, <1>7

\* A worker that gives up, or dies.
LEMMA GiveUpMoves ==
  ASSUME IInv, NEW w \in Workers,
         \/ CancelNotTaken(w) \/ SyncLookupFails(w) \/ FinalizeManual(w)
         \/ StaleSkip(w) \/ ImportRollback(w) \/ Crash(w)
  PROVE  IInv'
<1>1. crashes \in 0..MaxCrashes /\ MaxCrashes \in Nat
  BY BoundsAssumption DEF IInv, TypeOK
<1>2. /\ Goto(w, Idle)
      /\ UNCHANGED <<dbVars, brokerVars>>
      /\ crashes' = crashes \/ (crashes' = crashes + 1 /\ crashes < MaxCrashes)
  BY DEF CancelNotTaken, SyncLookupFails, FinalizeManual, StaleSkip,
         ImportRollback, Crash
<1>3. crashes' \in 0..MaxCrashes
  BY <1>1, <1>2
<1>. QED  BY <1>2, <1>3, IdleStep

-----------------------------------------------------------------------------
(* The actions that change a row or what the broker has of an order        *)

\* The columns of order o after a step are those before it.
SameOrder(o) ==
  /\ status'[o] = status[o] /\ order_no'[o] = order_no[o]
  /\ filled_qty'[o] = filled_qty[o] /\ executions'[o] = executions[o]
  /\ brokerState'[o] = brokerState[o] /\ brokerFilled'[o] = brokerFilled[o]

LEMMA RowStepKeepsIInv ==
  ASSUME IInv, TypeOK', NEW w \in Workers, NEW o \in Orders, NEW job \in Jobs,
         Goto(w, job), OrderOK(o)', Stable(o),
         \A p \in Orders \ {o} : SameOrder(p),
         \/ status'[o] = status[o] /\ brokerState'[o] = brokerState[o]
         \/ status[o] # "PENDING"
         \/ proc[w].pc \in Placing /\ proc[w].ord = o,
         job.pc # "idle" => job.ord \in Orders /\ Known(job)',
         job.pc \in Placing =>
           \/ proc[w].pc \in Placing /\ job.ord = proc[w].ord
           \/ job.ord = o /\ status[o] = "ABSENT"
  PROVE  IInv'
<1>1. ASSUME NEW p \in Orders, p # o
      PROVE  OrderOK(p)'
  <2>1. SameOrder(p) /\ OrderOK(p)
    BY <1>1 DEF IInv
  <2>. QED  BY <2>1 DEF SameOrder, OrderOK, ExecutedQty
<1>2. WorkerOK(w)'
  <2>1. proc'[w] = job
    BY DEF Goto, IInv, TypeOK
  <2>. QED  BY <2>1 DEF WorkerOK, At, Known
<1>3. (\A v \in Workers : WorkerOK(v)') /\ OnePlacer'
  BY <1>2, OthersKept DEF SameOrder
<1>. QED  BY <1>1, <1>3 DEF IInv

LEMMA PlaceCreateKeeps ==
  ASSUME IInv, NEW w \in Workers, NEW o \in Orders, PlaceCreate(w, o)
  PROVE  IInv'
<1>. DEFINE job == Job("pre_trade", o, "none", 0)
<1>1. /\ job \in Jobs /\ job.pc = "pre_trade" /\ job.ord = o
  BY DEF Job, Jobs, ProcState, Memory
<1>2. OrderOK(o) /\ TypeOK
  BY DEF IInv
<1>. HIDE DEF job
<1>3. /\ status[o] = "ABSENT" /\ brokerState[o] = "none"
      /\ status' = [status EXCEPT ![o] = "PENDING"]
      /\ Goto(w, job)
      /\ UNCHANGED <<order_no, filled_qty, executions, position, brokerVars, crashes>>
      /\ today' = today \union {o}
  BY <1>2 DEF PlaceCreate, OrderOK, job
<1>4. TypeOK'
  BY <1>1, <1>2, <1>3 DEF TypeOK, Goto, Jobs, DbOrderStatus, brokerVars
<1>5. OrderOK(o)'
  <2>1. status'[o] = "PENDING"
    BY <1>2, <1>3 DEF TypeOK
  <2>. QED  BY <1>2, <1>3, <2>1 DEF OrderOK, ExecutedQty, brokerVars
<1>6. Stable(o)
  BY <1>2, <1>3 DEF Stable, Confirmed, brokerVars, TypeOK, DbOrderStatus, OrderOK
<1>7. \A p \in Orders \ {o} : SameOrder(p)
  BY <1>2, <1>3 DEF SameOrder, brokerVars, TypeOK
<1>8. Known(job)'
  BY <1>1, <1>2, <1>3 DEF Known, TypeOK, brokerVars
<1>. QED  BY <1>1, <1>3, <1>4, <1>5, <1>6, <1>7, <1>8, RowStepKeepsIInv DEF Placing

\* The POST: the placer alone touches an order between its row and its answer.
LEMMA PostTakenKeeps ==
  ASSUME IInv, NEW w \in Workers, NEW http \in HttpOutcome, PostTaken(w, http)
  PROVE  IInv'
<1>1. PICK o \in Orders : o = proc[w].ord
  BY BusyOrder DEF PostTaken, At
<1>2. /\ OrderOK(o) /\ TypeOK /\ Qty[o] \in Nat \ {0}
      /\ status[o] = "PENDING" /\ brokerState[o] = "none" /\ At(w, "post")
  BY <1>1, BusyOrder, OrdersAssumption DEF PostTaken, Known, At, IInv
<1>3. PlaceReply(http) \in PlaceReplies
  BY DEF PlaceReply, PlaceReplies
<1>4. PICK job \in Jobs : job = Job("posted", o, PlaceReply(http), 0)
  BY <1>3 DEF Job, Jobs, ProcState, Memory, PlaceReplies
<1>5. job.pc = "posted" /\ job.ord = o /\ job.saw = PlaceReply(http)
  BY <1>4 DEF Job
<1>6. /\ Goto(w, job)
      /\ brokerState' = [brokerState EXCEPT ![o] = "working"]
      /\ sellable' = IF Side[o] = "sell" THEN sellable - Qty[o] ELSE sellable
      /\ UNCHANGED <<dbVars, brokerFilled, holdings, crashes>>
  BY <1>1, <1>4 DEF PostTaken
<1>7. TypeOK'
  BY <1>2, <1>6 DEF TypeOK, Goto, Jobs, dbVars
<1>8. brokerState'[o] = "working"
  BY <1>2, <1>6 DEF TypeOK
<1>9. OrderOK(o)' /\ Stable(o)
  BY <1>2, <1>6, <1>8 DEF OrderOK, Stable, ExecutedQty, TypeOK, dbVars
<1>10. \A p \in Orders \ {o} : SameOrder(p)
  BY <1>2, <1>6 DEF SameOrder, dbVars, TypeOK
<1>11. Known(job)'
  BY <1>2, <1>3, <1>5, <1>6, <1>8 DEF Known, dbVars
<1>12. proc[w].pc \in Placing /\ proc[w].ord = o
  BY <1>1, <1>2 DEF Placing, At
<1>. QED  BY <1>5, <1>6, <1>7, <1>9, <1>10, <1>11, <1>12, RowStepKeepsIInv

LEMMA IdleJob == Idle \in Jobs /\ Idle.pc = "idle"
BY DEF Job, Idle, Jobs, ProcState, Memory

\* A worker whose last step on order o changes the row and nothing else.
LEMMA LastStep ==
  ASSUME IInv, NEW w \in Workers, NEW o \in Orders,
         TypeOK', OrderOK(o)', Stable(o), Goto(w, Idle),
         \A p \in Orders \ {o} : SameOrder(p),
         \/ status'[o] = status[o] /\ brokerState'[o] = brokerState[o]
         \/ status[o] # "PENDING"
         \/ proc[w].pc \in Placing /\ proc[w].ord = o
  PROVE  IInv'
<1>1. PICK job \in Jobs : job = Idle /\ job.pc = "idle"
  BY DEF Job, Idle, Jobs, ProcState, Memory
<1>2. Goto(w, job)
  BY <1>1
<1>. QED  BY <1>1, <1>2, RowStepKeepsIInv DEF Placing

\* The end of place_order: the row is still PENDING, so every mark is allowed;
\* it is SUBMITTED only when the broker took the order, FAILED only when not.
PlaceEnds(w, o, target) ==
  /\ proc[w].pc \in Placing /\ proc[w].ord = o
  /\ status[o] = "PENDING"
  /\ target \in {"SUBMITTED", "REJECTED", "UNKNOWN", "FAILED"}
  /\ target = "FAILED" => brokerState[o] = "none"
  /\ target = "SUBMITTED" => brokerState[o] # "none"
  /\ status' = [status EXCEPT ![o] = target]
  /\ order_no' = [order_no EXCEPT ![o] = @ \/ target = "SUBMITTED"]
  /\ Goto(w, Idle)
  /\ UNCHANGED <<filled_qty, executions, position, today, brokerVars, crashes>>

LEMMA PlaceEndRow ==
  ASSUME IInv, NEW w \in Workers, PlaceFailed(w) \/ PlaceFinish(w)
  PROVE  \E o \in Orders, target \in DbOrderStatus : PlaceEnds(w, o, target)
<1>1. PICK o \in Orders : o = proc[w].ord
  BY BusyOrder DEF PlaceFailed, PlaceFinish, At
<1>2. PICK target \in DbOrderStatus :
        target = IF At(w, "posted") THEN StatusAfterPlace(proc[w].saw) ELSE "FAILED"
  BY DEF StatusAfterPlace, DbOrderStatus
<1>3. /\ OrderOK(o) /\ TypeOK /\ status[o] = "PENDING"
      /\ At(w, "pre_trade") \/ At(w, "posted")
      /\ At(w, "pre_trade") => brokerState[o] = "none"
      /\ At(w, "posted") /\ proc[w].saw = "accepted" => brokerState[o] # "none"
      /\ At(w, "posted") => proc[w].saw \in PlaceReplies
  <2>1. At(w, "pre_trade") \/ At(w, "posted")
    BY DEF PlaceFailed, PlaceFinish
  <2>2. ~At(w, "idle")
    BY <2>1 DEF At
  <2>3. OrderOK(o) /\ Known(proc[w]) /\ TypeOK
    BY <1>1, <2>2, BusyOrder DEF IInv
  <2>. QED  BY <1>1, <2>1, <2>3 DEF Known, At
<1>4. /\ target \in {"SUBMITTED", "REJECTED", "UNKNOWN", "FAILED"}
      /\ target = "FAILED" => brokerState[o] = "none"
      /\ target = "SUBMITTED" => brokerState[o] # "none"
  BY <1>2, <1>3 DEF StatusAfterPlace, PlaceReplies
<1>5. TransitionAllowed(status[o], target)
  BY <1>3 DEF TransitionAllowed, ALLOWED_TRANSITIONS
<1>6. /\ status' = [status EXCEPT ![o] = target]
      /\ order_no' = [order_no EXCEPT ![o] = @ \/ target = "SUBMITTED"]
      /\ Goto(w, Idle)
      /\ UNCHANGED <<filled_qty, executions, position, today, brokerVars, crashes>>
  <2>1. CASE PlaceFailed(w)
    <3>1. target = "FAILED" /\ Mark(o, "FAILED") = [status EXCEPT ![o] = target]
      BY <1>2, <1>3, <1>5, <2>1 DEF PlaceFailed, At, Mark, TypeOK
    <3>2. order_no = [order_no EXCEPT ![o] = @ \/ target = "SUBMITTED"]
      BY <1>3, <3>1 DEF TypeOK
    <3>. QED  BY <1>1, <2>1, <3>1, <3>2 DEF PlaceFailed
  <2>2. CASE PlaceFinish(w)
    <3>1. target = StatusAfterPlace(proc[w].saw)
      BY <1>2, <2>2 DEF PlaceFinish
    <3>2. Mark(o, target) = [status EXCEPT ![o] = target]
      BY <1>3, <1>5 DEF Mark, TypeOK
    <3>. QED  BY <1>1, <1>5, <2>2, <3>1, <3>2 DEF PlaceFinish
  <2>. QED  BY <2>1, <2>2
<1>7. proc[w].pc \in Placing /\ proc[w].ord = o
  BY <1>1, <1>3 DEF Placing, At
<1>. QED  BY <1>3, <1>4, <1>6, <1>7 DEF PlaceEnds

LEMMA PlaceEndKeeps ==
  ASSUME IInv, NEW w \in Workers, PlaceFailed(w) \/ PlaceFinish(w)
  PROVE  IInv'
<1>1. PICK o \in Orders, target \in DbOrderStatus : PlaceEnds(w, o, target)
  BY PlaceEndRow
<1>2. TypeOK /\ OrderOK(o)
  BY DEF IInv
<1>3. /\ status[o] = "PENDING"
      /\ target \in {"SUBMITTED", "REJECTED", "UNKNOWN", "FAILED"}
      /\ target = "FAILED" => brokerState[o] = "none"
      /\ target = "SUBMITTED" => brokerState[o] # "none"
      /\ status' = [status EXCEPT ![o] = target]
      /\ order_no' = [order_no EXCEPT ![o] = @ \/ target = "SUBMITTED"]
      /\ Goto(w, Idle)
      /\ UNCHANGED <<filled_qty, executions, position, today, brokerVars, crashes>>
  BY <1>1 DEF PlaceEnds
<1>4. TypeOK'
  BY <1>2, <1>3, IdleJob DEF TypeOK, Goto, Jobs, brokerVars
<1>5. status'[o] = target /\ order_no'[o] = (order_no[o] \/ target = "SUBMITTED")
  BY <1>2, <1>3 DEF TypeOK
<1>6. OrderOK(o)'
  <2>1. /\ filled_qty' = filled_qty /\ executions' = executions
        /\ brokerState' = brokerState /\ brokerFilled' = brokerFilled
    BY <1>3 DEF brokerVars
  <2>2. executions[o] = {} /\ ExecutedQty(o) # Qty[o] /\ order_no[o] = FALSE
    BY <1>2, <1>3 DEF OrderOK, TypeOK
  <2>. QED  BY <1>2, <1>3, <1>5, <2>1, <2>2 DEF OrderOK, ExecutedQty
<1>7. Stable(o)
  BY <1>2, <1>3, <1>5 DEF Stable, Confirmed, brokerVars, TypeOK
<1>8. \A p \in Orders \ {o} : SameOrder(p)
  BY <1>2, <1>3 DEF SameOrder, brokerVars, TypeOK
<1>. QED  BY <1>1, <1>3, <1>4, <1>6, <1>7, <1>8, LastStep DEF PlaceEnds

\* A worker that goes on to pc, or is done.
EndsOrGoesOn(job, pc, o) == job.pc = "idle" \/ (job.pc = pc /\ job.ord = o)

LEMMA EndOrGoOn ==
  ASSUME NEW w \in Workers, NEW o \in Orders, NEW pc \in ProcState, NEW B,
         Goto(w, IF B THEN Job(pc, o, "none", 0) ELSE Idle)
  PROVE  \E job \in Jobs : Goto(w, job) /\ EndsOrGoesOn(job, pc, o)
<1>1. CASE B
  <2>1. PICK job \in Jobs : job = Job(pc, o, "none", 0)
    BY DEF Job, Jobs, Memory
  <2>2. EndsOrGoesOn(job, pc, o)
    BY <2>1 DEF Job, EndsOrGoesOn
  <2>3. Goto(w, job)
    BY <1>1, <2>1
  <2>. QED  BY <2>2, <2>3
<1>2. CASE ~B
  <2>1. PICK job \in Jobs : job = Idle /\ job.pc = "idle"
    BY IdleJob
  <2>2. Goto(w, job)
    BY <1>2, <2>1
  <2>. QED  BY <2>1, <2>2 DEF EndsOrGoesOn
<1>. QED  BY <1>1, <1>2

\* The broker takes a cancel order, on behalf of a worker or of somebody else.
LEMMA CancelTakenKeeps ==
  ASSUME IInv, NEW w \in Workers, NEW reply \in {"ok", "lost"}, CancelTaken(w, reply)
  PROVE  IInv'
<1>1. PICK o \in Orders : o = proc[w].ord
  BY BusyOrder DEF CancelTaken, At
<1>2. /\ OrderOK(o) /\ TypeOK /\ Qty[o] \in Nat
      /\ order_no[o] /\ BrokerOpen(o)
  BY <1>1, BusyOrder, OrdersAssumption DEF CancelTaken, Known, At, IInv
<1>3. /\ brokerState' = [brokerState EXCEPT ![o] = "cancelled"]
      /\ sellable' = IF Side[o] = "sell"
                     THEN sellable + (Qty[o] - brokerFilled[o]) ELSE sellable
      /\ Goto(w, IF reply = "ok" THEN Job("cancelled", o, "none", 0) ELSE Idle)
      /\ UNCHANGED <<dbVars, brokerFilled, holdings, crashes>>
  BY <1>1 DEF CancelTaken
<1>4. brokerState'[o] = "cancelled"
  BY <1>2, <1>3 DEF TypeOK
<1>5. PICK job \in Jobs : Goto(w, job) /\ EndsOrGoesOn(job, "cancelled", o)
  BY <1>3, EndOrGoOn DEF ProcState
<1>6. TypeOK'
  BY <1>2, <1>3, <1>5 DEF TypeOK, Goto, Jobs, dbVars
<1>7. OrderOK(o)' /\ Stable(o)
  BY <1>2, <1>3, <1>4 DEF OrderOK, Stable, ExecutedQty, TypeOK, dbVars, BrokerOpen
<1>8. \A p \in Orders \ {o} : SameOrder(p)
  BY <1>2, <1>3 DEF SameOrder, dbVars, TypeOK
<1>9. job.pc = "cancelled" => Known(job)'
  BY <1>2, <1>3, <1>4, <1>5 DEF Known, dbVars, EndsOrGoesOn
<1>10. status[o] # "PENDING"
  BY <1>2 DEF OrderOK
<1>. QED  BY <1>5, <1>6, <1>7, <1>8, <1>9, <1>10, RowStepKeepsIInv DEF Placing, EndsOrGoesOn

\* mark_cancelled on an order that the broker confirmed and has cancelled: it is
\* allowed, and the fill summary is what it was.
LEMMA MarkCancelledRow ==
  ASSUME IInv, NEW o \in Orders, order_no[o], brokerState[o] = "cancelled",
         MarkCancelled(o)
  PROVE  /\ status[o] \in {"SUBMITTED", "PARTIAL", "CANCELLED"}
         /\ status' = [status EXCEPT ![o] = "CANCELLED"]
         /\ filled_qty' = filled_qty
<1>1. OrderOK(o) /\ TypeOK
  BY DEF IInv
<1>2. /\ status[o] \in {"SUBMITTED", "PARTIAL", "CANCELLED"}
      /\ filled_qty[o] = ExecutedQty(o)
  <2>1. ExecutedQty(o) \in Nat /\ ExecutedQty(o) < Qty[o]
    BY <1>1, ExecutedFacts, OrdersAssumption DEF OrderOK, TypeOK
  <2>. QED  BY <1>1, <2>1 DEF OrderOK
<1>3. TransitionAllowed(status[o], "CANCELLED")
  BY <1>2 DEF TransitionAllowed, ALLOWED_TRANSITIONS, DbOrderStatus
<1>. QED  BY <1>1, <1>2, <1>3 DEF MarkCancelled, Mark, TypeOK

LEMMA MarkCancelledKeeps ==
  ASSUME IInv, NEW o \in Orders, order_no[o], brokerState[o] = "cancelled",
         MarkCancelled(o), UNCHANGED <<order_no, executions, position, today,
                                       brokerVars, crashes>>
  PROVE  /\ OrderOK(o)' /\ Stable(o) /\ status[o] # "PENDING"
         /\ \A p \in Orders \ {o} : SameOrder(p)
         /\ status' \in [Orders -> DbOrderStatus \union {"ABSENT"}]
         /\ filled_qty' \in [Orders -> Nat]
<1>1. OrderOK(o) /\ TypeOK
  BY DEF IInv
<1>2. /\ status[o] \in {"SUBMITTED", "PARTIAL", "CANCELLED"}
      /\ status' = [status EXCEPT ![o] = "CANCELLED"]
      /\ filled_qty' = filled_qty
  BY MarkCancelledRow
<1>3. status'[o] = "CANCELLED"
  BY <1>1, <1>2 DEF TypeOK
<1>4. OrderOK(o)'
  <2>1. ExecutedQty(o) \in Nat /\ ExecutedQty(o) < Qty[o]
    BY <1>1, ExecutedFacts, OrdersAssumption DEF OrderOK, TypeOK
  <2>2. ExecutedQty(o)' = ExecutedQty(o)
    BY DEF ExecutedQty
  <2>. QED  BY <1>1, <1>2, <1>3, <2>1, <2>2 DEF OrderOK, brokerVars
<1>5. Stable(o)
  BY <1>1, <1>3 DEF Stable, Confirmed, brokerVars, TypeOK, DbOrderStatus
<1>. QED  BY <1>1, <1>2, <1>4, <1>5 DEF SameOrder, brokerVars, TypeOK, DbOrderStatus

LEMMA CancelFinishKeeps ==
  ASSUME IInv, NEW w \in Workers, CancelFinish(w)
  PROVE  IInv'
<1>1. PICK o \in Orders : o = proc[w].ord
  BY BusyOrder DEF CancelFinish, At
<1>2. order_no[o] /\ brokerState[o] = "cancelled"
  BY <1>1, BusyOrder DEF CancelFinish, Known, At
<1>3. /\ MarkCancelled(o) /\ Goto(w, Idle)
      /\ UNCHANGED <<order_no, executions, position, today, brokerVars, crashes>>
  BY <1>1 DEF CancelFinish
<1>4. /\ OrderOK(o)' /\ Stable(o) /\ status[o] # "PENDING"
      /\ \A p \in Orders \ {o} : SameOrder(p)
      /\ status' \in [Orders -> DbOrderStatus \union {"ABSENT"}]
      /\ filled_qty' \in [Orders -> Nat]
  BY <1>2, <1>3, MarkCancelledKeeps
<1>5. TypeOK'
  BY <1>3, <1>4, IdleJob DEF IInv, TypeOK, Goto, Jobs, brokerVars
<1>. QED  BY <1>3, <1>4, <1>5, LastStep

\* The transaction of the sync cancels what the broker cancelled.
LEMMA SyncApplyKeeps ==
  ASSUME IInv, NEW w \in Workers, SyncApply(w)
  PROVE  IInv'
<1>1. PICK o \in Orders : o = proc[w].ord
  BY BusyOrder DEF SyncApply, At
<1>2. /\ order_no[o] /\ brokerState[o] = "cancelled"
      /\ SyncTarget(proc[w].saw) = "CANCELLED"
  BY <1>1, BusyOrder DEF SyncApply, Known, At, SyncTarget
<1>3. /\ MarkCancelled(o)
      /\ Goto(w, IF TransitionAllowed(status[o], "CANCELLED")
                 THEN Job("stale", o, "none", 0) ELSE Idle)
      /\ UNCHANGED <<order_no, executions, position, today, brokerVars, crashes>>
  BY <1>1, <1>2 DEF SyncApply, MarkCancelled
<1>4. /\ OrderOK(o)' /\ Stable(o) /\ status[o] # "PENDING"
      /\ \A p \in Orders \ {o} : SameOrder(p)
      /\ status' \in [Orders -> DbOrderStatus \union {"ABSENT"}]
      /\ filled_qty' \in [Orders -> Nat]
  BY <1>2, <1>3, MarkCancelledKeeps
<1>5. PICK job \in Jobs : Goto(w, job) /\ EndsOrGoesOn(job, "stale", o)
  BY <1>3, EndOrGoOn DEF ProcState
<1>6. TypeOK'
  BY <1>3, <1>4, <1>5 DEF IInv, TypeOK, Goto, Jobs, brokerVars
<1>7. job.pc = "stale" => Known(job)'
  BY DEF Known
<1>. QED  BY <1>4, <1>5, <1>6, <1>7, RowStepKeepsIInv DEF Placing, EndsOrGoesOn

\* A finalisation cancels what the broker cancelled; otherwise its row already
\* has the status its executions justify, whatever was decided before.
LEMMA FinalizeRow ==
  ASSUME IInv, NEW w \in Workers, NEW o \in Orders, o = proc[w].ord, FinalizeApply(w)
  PROVE  \/ order_no[o] /\ brokerState[o] = "cancelled" /\ MarkCancelled(o)
         \/ UNCHANGED <<status, filled_qty>>
<1>1. PICK target \in Memory : target = proc[w].saw
  BY BusyOrder DEF FinalizeApply, At, Jobs
<1>2. \/ target = "CANCELLED" /\ MarkCancelled(o)
      \/ /\ target # "CANCELLED" /\ RecoveryCommits(o, target)
         /\ SyncExecutionSummary(o, ExecutedQty(o))
      \/ /\ target # "CANCELLED" /\ ~RecoveryCommits(o, target)
         /\ UNCHANGED <<status, filled_qty>>
  BY <1>1 DEF FinalizeApply
<1>3. /\ OrderOK(o) /\ TypeOK
      /\ target = "CANCELLED" => order_no[o] /\ brokerState[o] = "cancelled"
  BY <1>1, BusyOrder DEF FinalizeApply, Known, At, IInv
<1>4. CASE target = "CANCELLED"
  BY <1>2, <1>3, <1>4
<1>5. CASE target # "CANCELLED" /\ RecoveryCommits(o, target)
  <2>1. /\ status' = [status EXCEPT ![o] = SummaryStatus(o, ExecutedQty(o))]
        /\ filled_qty' = [filled_qty EXCEPT ![o] = ExecutedQty(o)]
    BY <1>2, <1>5 DEF SyncExecutionSummary
  <2>2. /\ ExecutedQty(o) > 0 /\ ExecutedQty(o) \in Nat
        /\ ExecutedQty(o) = 0 <=> executions[o] = {}
    BY <1>3, <1>5, ExecutedFacts DEF RecoveryCommits
  <2>3. status[o] \in {"PARTIAL", "FILLED", "CANCELLED"}
    BY <1>3, <2>2 DEF OrderOK, TypeOK, DbOrderStatus
  <2>4. SummaryStatus(o, ExecutedQty(o)) = status[o]
    BY <1>3, <2>3 DEF SummaryStatus, OrderOK
  <2>. QED  BY <1>3, <2>1, <2>4 DEF TypeOK, OrderOK
<1>6. CASE target # "CANCELLED" /\ ~RecoveryCommits(o, target)
  BY <1>2, <1>6
<1>. QED  BY <1>4, <1>5, <1>6

LEMMA FinalizeApplyKeeps ==
  ASSUME IInv, NEW w \in Workers, FinalizeApply(w)
  PROVE  IInv'
<1>1. PICK o \in Orders : o = proc[w].ord
  BY BusyOrder DEF FinalizeApply, At
<1>2. /\ Goto(w, IF status'[o] = proc[w].saw THEN Job("stale", o, "none", 0) ELSE Idle)
      /\ UNCHANGED <<order_no, executions, position, today, brokerVars, crashes>>
  BY <1>1 DEF FinalizeApply
<1>3. PICK job \in Jobs : Goto(w, job) /\ EndsOrGoesOn(job, "stale", o)
  <2>1. CASE status'[o] = proc[w].saw
    BY <1>2, <2>1, EndOrGoOn DEF ProcState
  <2>2. CASE status'[o] # proc[w].saw
    BY <1>2, <2>2, EndOrGoOn DEF ProcState
  <2>. QED  BY <2>1, <2>2
<1>4. job.pc = "stale" => Known(job) /\ Known(job)'
  BY DEF Known
<1>5. CASE order_no[o] /\ brokerState[o] = "cancelled" /\ MarkCancelled(o)
  <2>1. /\ OrderOK(o)' /\ Stable(o) /\ status[o] # "PENDING"
        /\ \A p \in Orders \ {o} : SameOrder(p)
        /\ status' \in [Orders -> DbOrderStatus \union {"ABSENT"}]
        /\ filled_qty' \in [Orders -> Nat]
    BY <1>2, <1>5, MarkCancelledKeeps
  <2>2. TypeOK'
    BY <1>2, <1>3, <2>1 DEF IInv, TypeOK, Goto, Jobs, brokerVars
  <2>. QED  BY <1>3, <1>4, <2>1, <2>2, RowStepKeepsIInv DEF Placing, EndsOrGoesOn
<1>6. CASE UNCHANGED <<status, filled_qty>>
  <2>1. UNCHANGED <<dbVars, brokerVars>> /\ crashes' \in 0..MaxCrashes
    BY <1>2, <1>6 DEF dbVars, brokerVars, IInv, TypeOK
  <2>. QED  BY <1>3, <1>4, <2>1, MoveKeepsIInv DEF Placing, EndsOrGoesOn
<1>. QED  BY <1>1, <1>5, <1>6, FinalizeRow

\* One more execution: the summary counts it and the status follows.
LEMMA ImportApplyKeeps ==
  ASSUME IInv, NEW w \in Workers, ImportApply(w)
  PROVE  IInv'
<1>1. PICK o \in Orders : o = proc[w].ord
  BY BusyOrder DEF ImportApply, At
<1>2. PICK i \in Nat : i = proc[w].num
  BY BusyOrder DEF ImportApply, At, Jobs
<1>3. PICK n \in Nat : n = ExecutedQty(o) + 1
  BY ExecutedFacts DEF IInv
<1>4. /\ OrderOK(o) /\ TypeOK /\ Qty[o] \in Nat /\ brokerFilled[o] \in Nat
      /\ i \in 1..brokerFilled[o]
      /\ status[o] \in {"SUBMITTED", "UNKNOWN", "PARTIAL", "FILLED", "CANCELLED"}
  BY <1>1, <1>2, BusyOrder, OrdersAssumption
  DEF ImportApply, Known, At, IInv, TypeOK, DbOrderStatus
<1>5. /\ i \notin executions[o]
      /\ Side[o] = "sell" => position >= 1
      /\ n <= Qty[o]
      /\ TransitionAllowed(status[o], SummaryStatus(o, n))
      /\ executions' = [executions EXCEPT ![o] = @ \union {i}]
      /\ position' = IF Side[o] = "buy" THEN position + 1 ELSE position - 1
      /\ status' = [status EXCEPT ![o] = SummaryStatus(o, n)]
      /\ filled_qty' = [filled_qty EXCEPT ![o] = n]
      /\ Goto(w, Idle)
      /\ UNCHANGED <<order_no, today, brokerVars, crashes>>
  BY <1>1, <1>2, <1>3 DEF ImportApply, ImportCommits, SummaryCommits, SyncExecutionSummary
<1>6. /\ executions'[o] = executions[o] \union {i}
      /\ status'[o] = SummaryStatus(o, n)
      /\ filled_qty'[o] = n
  BY <1>4, <1>5 DEF TypeOK
<1>7. ExecutedQty(o)' = n
  <2>1. IsFiniteSet(executions[o])
    BY <1>4, ExecutedFacts
  <2>2. Cardinality(executions[o] \union {i}) =
          IF i \in executions[o] THEN Cardinality(executions[o])
                                 ELSE Cardinality(executions[o]) + 1
    BY <2>1, FS_AddElement
  <2>. QED  BY <1>3, <1>5, <1>6, <2>2 DEF ExecutedQty
<1>8. SummaryStatus(o, n) \in {"CANCELLED", "FILLED", "PARTIAL"}
  BY DEF SummaryStatus
<1>9. position' \in Nat
  <2>1. position \in Nat /\ Side[o] \in {"buy", "sell"}
    BY <1>4, OrdersAssumption DEF TypeOK
  <2>. QED  BY <1>5, <2>1
<1>10. TypeOK'
  BY <1>4, <1>5, <1>8, <1>9, IdleJob DEF TypeOK, Goto, Jobs, brokerVars, DbOrderStatus
<1>11. /\ SummaryStatus(o, n) = "CANCELLED" <=> status[o] = "CANCELLED"
       /\ SummaryStatus(o, n) = "FILLED" <=> status[o] # "CANCELLED" /\ n = Qty[o]
  BY DEF SummaryStatus
<1>12. executions'[o] \subseteq 1..brokerFilled[o] /\ n <= brokerFilled[o]
  <2>1. executions'[o] \subseteq 1..brokerFilled[o]
    BY <1>4, <1>6 DEF OrderOK
  <2>2. brokerFilled[o] \in Int /\ 1 \in Int /\ brokerFilled[o] >= 1
    BY <1>4
  <2>3. IsFiniteSet(1..brokerFilled[o])
    BY <2>2, FS_Interval
  <2>4. Cardinality(1..brokerFilled[o]) =
          IF 1 > brokerFilled[o] THEN 0 ELSE brokerFilled[o] - 1 + 1
    BY <2>2, FS_Interval
  <2>5. Cardinality(executions'[o]) <= Cardinality(1..brokerFilled[o])
    BY <2>1, <2>3, FS_Subset
  <2>. QED  BY <1>3, <1>4, <1>7, <2>1, <2>2, <2>4, <2>5 DEF ExecutedQty
<1>13. /\ brokerState' = brokerState /\ brokerFilled' = brokerFilled
       /\ order_no' = order_no
  BY <1>5 DEF brokerVars
<1>14. brokerState[o] # "none" /\ executions'[o] # {} /\ n > 0
  BY <1>3, <1>4, <1>6, ExecutedFacts DEF OrderOK
<1>15. OrderOK(o)'
  BY <1>4, <1>5, <1>6, <1>7, <1>8, <1>11, <1>12, <1>13, <1>14 DEF OrderOK
<1>16. Stable(o)
  BY <1>4, <1>6, <1>8, <1>13 DEF Stable, Confirmed, DbOrderStatus
<1>17. \A p \in Orders \ {o} : SameOrder(p)
  BY <1>4, <1>5, <1>13 DEF SameOrder, TypeOK
<1>. QED  BY <1>4, <1>5, <1>10, <1>15, <1>16, <1>17, LastStep

-----------------------------------------------------------------------------
(* The exchange                                                            *)

\* A step of the exchange that leaves every row alone and keeps the orders in
\* order keeps the invariant.
LEMMA ExchangeStep ==
  ASSUME IInv, TypeOK', UNCHANGED <<status, order_no, proc>>,
         \A o \in Orders : OrderOK(o)' /\ Stable(o),
         \A o \in Orders : brokerState[o] = "none" => brokerState'[o] = "none"
  PROVE  IInv'
<1>1. ASSUME NEW v \in Workers
      PROVE  WorkerOK(v)'
  <2>1. WorkerOK(v) /\ proc'[v] = proc[v]
    BY DEF IInv
  <2>2. ASSUME proc[v].pc \in Placing
        PROVE  /\ status'[proc[v].ord] = status[proc[v].ord]
               /\ brokerState[proc[v].ord] = "none" => brokerState'[proc[v].ord] = "none"
    BY <2>1, <2>2 DEF WorkerOK, At, Placing
  <2>. QED  BY <2>1, <2>2, JobKept
<1>2. OnePlacer'
  BY DEF IInv, OnePlacer
<1>. QED  BY <1>1, <1>2 DEF IInv

LEMMA BrokerFillKeeps ==
  ASSUME IInv, NEW o \in Orders, BrokerFill(o)
  PROVE  IInv'
<1>1. /\ TypeOK /\ Qty[o] \in Nat /\ brokerFilled[o] \in Nat
      /\ brokerState[o] = "working" /\ brokerFilled[o] < Qty[o]
      /\ brokerFilled' = [brokerFilled EXCEPT ![o] = @ + 1]
      /\ UNCHANGED <<dbVars, brokerState, proc, crashes>>
  BY OrdersAssumption DEF IInv, TypeOK, BrokerFill, BrokerOpen
<1>2. TypeOK'
  <2>1. holdings' \in Int /\ sellable' \in Int
    BY <1>1 DEF BrokerFill, TypeOK
  <2>. QED  BY <1>1, <2>1 DEF TypeOK, dbVars
<1>3. brokerFilled'[o] = brokerFilled[o] + 1
  BY <1>1 DEF TypeOK
<1>4. ASSUME NEW p \in Orders
      PROVE  OrderOK(p)' /\ Stable(p)
  <2>1. OrderOK(p) /\ brokerFilled[p] \in Nat
    BY DEF IInv, TypeOK
  <2>2. CASE p = o
    BY <1>1, <1>3, <2>1, <2>2 DEF OrderOK, Stable, ExecutedQty, dbVars
  <2>3. CASE p # o
    <3>1. brokerFilled'[p] = brokerFilled[p]
      BY <1>1, <2>3 DEF TypeOK
    <3>. QED  BY <1>1, <2>1, <3>1 DEF OrderOK, Stable, ExecutedQty, dbVars
  <2>. QED  BY <2>2, <2>3
<1>. QED  BY <1>1, <1>2, <1>4, ExchangeStep DEF dbVars

\* Orders close at the exchange, one by itself or all of them with the day.
LEMMA BrokerCloseKeeps ==
  ASSUME IInv, (\E o \in Orders : BrokerClose(o)) \/ NewTradeDay
  PROVE  IInv'
<1>1. /\ TypeOK /\ Qty \in [Orders -> Nat]
      /\ \A p \in Orders : OrderOK(p)
      /\ UNCHANGED <<status, order_no, filled_qty, executions, position,
                     brokerFilled, holdings, proc, crashes>>
  BY OrdersAssumption DEF IInv, BrokerClose, NewTradeDay, dbVars
<1>2. /\ brokerState' \in [Orders -> {"none", "working", "cancelled"}]
      /\ today' \in SUBSET Orders
      /\ sellable' \in Int
      /\ \A p \in Orders :
           \/ brokerState'[p] = brokerState[p]
           \/ BrokerOpen(p) /\ brokerState'[p] = "cancelled"
  <2>1. CASE NewTradeDay
    BY <1>1, <2>1 DEF NewTradeDay, TypeOK
  <2>2. ASSUME NEW o \in Orders, BrokerClose(o)
        PROVE  <1>2!:
    BY <1>1, <2>2 DEF BrokerClose, TypeOK, dbVars
  <2>. QED  BY <2>1, <2>2
<1>3. TypeOK'
  BY <1>1, <1>2 DEF TypeOK
<1>4. ASSUME NEW p \in Orders
      PROVE  /\ OrderOK(p)' /\ Stable(p)
             /\ brokerState[p] = "none" => brokerState'[p] = "none"
  BY <1>1, <1>2 DEF OrderOK, Stable, ExecutedQty, BrokerOpen, TypeOK
<1>. QED  BY <1>1, <1>3, <1>4, ExchangeStep

-----------------------------------------------------------------------------
(* The theorems                                                            *)

LEMMA InitOK == Init => IInv
<1>. SUFFICES ASSUME Init PROVE IInv
  OBVIOUS
<1>1. ASSUME NEW o \in Orders PROVE OrderOK(o)
  <2>1. Cardinality({}) = 0
    BY FS_EmptySet
  <2>. QED  BY <2>1, OrdersAssumption DEF Init, OrderOK, ExecutedQty
<1>2. TypeOK
  BY BoundsAssumption, IdleJob DEF Init, TypeOK, Jobs
<1>3. (\A w \in Workers : WorkerOK(w)) /\ OnePlacer
  BY IdleJob DEF Init, WorkerOK, OnePlacer, At, Placing
<1>. QED  BY <1>1, <1>2, <1>3 DEF IInv

LEMMA NextOK == IInv /\ [Next]_vars => IInv'
<1>. SUFFICES ASSUME IInv, [Next]_vars PROVE IInv'
  OBVIOUS
<1>1. CASE UNCHANGED vars
  BY <1>1 DEF vars, IInv, TypeOK, OrderOK, WorkerOK, OnePlacer, Known, At, ExecutedQty
<1>2. ASSUME NEW w \in Workers, Place(w) PROVE IInv'
  <2>1. \E http \in HttpOutcome : TRUE
    BY DEF HttpOutcome
  <2>. QED  BY <1>2, <2>1, PlaceMoves, PlaceEndKeeps, PostTakenKeeps DEF Place
<1>3. ASSUME NEW w \in Workers, Cancel(w) PROVE IInv'
  BY <1>3, CancelTakenKeeps, GiveUpMoves, CancelFinishKeeps DEF Cancel
<1>4. ASSUME NEW w \in Workers, Maintain(w) PROVE IInv'
  BY <1>4, MaintainMoves, GiveUpMoves, SyncApplyKeeps, FinalizeApplyKeeps DEF Maintain
<1>5. ASSUME NEW w \in Workers, Import(w) PROVE IInv'
  BY <1>5, ImportApplyKeeps, GiveUpMoves DEF Import
<1>6. ASSUME NEW w \in Workers, Crash(w) PROVE IInv'
  BY <1>6, GiveUpMoves
<1>7. ASSUME NEW w \in Workers, NEW o \in Orders, Begin(w, o) PROVE IInv'
  <2>1. 1 \in 1..Qty[o]
    BY OrdersAssumption
  <2>. QED  BY <1>7, <2>1, PlaceCreateKeeps, BeginMoves DEF Begin
<1>8. CASE Environment
  BY <1>8, BrokerFillKeeps, BrokerCloseKeeps DEF Environment
<1>. QED  BY <1>1, <1>2, <1>3, <1>4, <1>5, <1>6, <1>7, <1>8 DEF Next, Continue

\* The inductive invariant holds in every state of every behaviour.
LEMMA Invariance == Spec => []IInv
BY InitOK, NextOK, PTL DEF Spec

\* Every variable keeps its type; in particular no import makes the position
\* negative (the CHECK of the positions table never fires).
THEOREM TypeCorrect == Spec => []TypeOK
<1>1. IInv => TypeOK
  BY DEF IInv
<1>. QED  BY <1>1, Invariance, PTL

\* An order the exchange may still execute has an unresolved row, whatever
\* cancels, syncs, imports and crashes did to it, unless it was REJECTED.
THEOREM LiveTracked == Spec => []LiveOrdersTracked
<1>1. IInv => LiveOrdersTracked
  <2>. SUFFICES ASSUME IInv, NEW o \in Orders, BrokerOpen(o)
                PROVE  status[o] \in UNRESOLVED_DB_ORDER_STATUSES \union {"REJECTED"}
    BY DEF LiveOrdersTracked
  <2>1. /\ OrderOK(o) /\ status[o] \in DbOrderStatus \union {"ABSENT"}
        /\ ExecutedQty(o) \in Nat /\ ExecutedQty(o) <= brokerFilled[o]
        /\ brokerFilled[o] \in Nat /\ Qty[o] \in Nat
    BY ExecutedFacts, OrdersAssumption DEF IInv, TypeOK
  <2>. QED  BY <2>1 DEF OrderOK, BrokerOpen, UNRESOLVED_DB_ORDER_STATUSES, DbOrderStatus
<1>. QED  BY <1>1, Invariance, PTL

\* The status, the fill summary and the executions of a row agree, although
\* several services write them in transactions decided earlier.
THEOREM FillsAgree == Spec => []FillAccounting
<1>1. IInv => FillAccounting
  <2>. SUFFICES ASSUME IInv, NEW o \in Orders
                PROVE  /\ filled_qty[o] = ExecutedQty(o)
                       /\ status[o] = "FILLED" <=> ExecutedQty(o) = Qty[o]
                       /\ status[o] = "PARTIAL" => ExecutedQty(o) \in 1..(Qty[o] - 1)
                       /\ status[o] \in {"ABSENT", "PENDING", "SUBMITTED", "UNKNOWN",
                                         "REJECTED", "FAILED"} => executions[o] = {}
    BY DEF FillAccounting
  <2>1. /\ OrderOK(o) /\ ExecutedQty(o) \in Nat /\ ExecutedQty(o) <= brokerFilled[o]
        /\ brokerFilled[o] \in Nat /\ Qty[o] \in Nat
    BY ExecutedFacts, OrdersAssumption DEF IInv, TypeOK
  <2>. QED  BY <2>1 DEF OrderOK
<1>. QED  BY <1>1, Invariance, PTL

\* A fill of a confirmed order that is not booked yet can still be booked: the
\* row's status admits the import and a CANCELLED row has room for it.
THEOREM FillsImportable == Spec => []UnbookedFillsStayImportable
<1>1. IInv => UnbookedFillsStayImportable
  <2>. SUFFICES ASSUME IInv, NEW o \in Orders,
                       order_no[o], ExecutedQty(o) < brokerFilled[o]
                PROVE  /\ status[o] \in IMPORTABLE_STATUSES
                       /\ status[o] = "CANCELLED" => brokerFilled[o] < Qty[o]
    BY DEF UnbookedFillsStayImportable
  <2>1. /\ OrderOK(o) /\ ExecutedQty(o) \in Nat
        /\ brokerFilled[o] \in Nat /\ Qty[o] \in Nat
    BY ExecutedFacts, OrdersAssumption DEF IInv, TypeOK
  <2>. QED  BY <2>1 DEF OrderOK, IMPORTABLE_STATUSES
<1>. QED  BY <1>1, Invariance, PTL

-----------------------------------------------------------------------------
(***************************************************************************)
(* The books: the balance between positions and executions, and that the   *)
(* ledger implements OrderPromise.  Both rest on one lemma, RowSteps:      *)
(* whichever worker moves, the rows change in one of three ways, or not at *)
(* all.                                                                    *)
(***************************************************************************)

\* A row is created.
Opens(o) ==
  /\ status[o] = "ABSENT"
  /\ status' = [status EXCEPT ![o] = "PENDING"]
  /\ UNCHANGED <<filled_qty, executions, position>>

\* An unresolved row stays unresolved or is closed, without a new execution.
Moves(o) ==
  /\ status[o] \in UNRESOLVED_DB_ORDER_STATUSES
  /\ \E s \in {"SUBMITTED", "UNKNOWN", "REJECTED", "FAILED", "CANCELLED"} :
       status' = [status EXCEPT ![o] = s]
  /\ UNCHANGED <<filled_qty, executions, position>>

\* One execution is booked.
Books(o) ==
  \E i \in Nat :
    /\ i \notin executions[o]
    /\ executions' = [executions EXCEPT ![o] = @ \union {i}]
    /\ position' = IF Side[o] = "buy" THEN position + 1 ELSE position - 1
    /\ filled_qty' = [filled_qty EXCEPT ![o] = @ + 1]
    /\ status' = [status EXCEPT ![o] = SummaryStatus(o, filled_qty[o] + 1)]
    /\ status[o] \in UNRESOLVED_DB_ORDER_STATUSES \union {"CANCELLED"}
    /\ filled_qty[o] + 1 <= Qty[o]
    /\ status[o] = "CANCELLED" => filled_qty[o] + 1 < Qty[o]

rowVars == <<status, filled_qty, executions, position>>

-----------------------------------------------------------------------------
LEMMA CancelledRow ==
  ASSUME IInv, NEW o \in Orders, order_no[o], brokerState[o] = "cancelled",
         MarkCancelled(o), UNCHANGED <<executions, position>>
  PROVE  Moves(o) \/ UNCHANGED rowVars
<1>1. /\ status[o] \in {"SUBMITTED", "PARTIAL", "CANCELLED"}
      /\ status' = [status EXCEPT ![o] = "CANCELLED"]
      /\ filled_qty' = filled_qty
  BY MarkCancelledRow
<1>2. CASE status[o] = "CANCELLED"
  BY <1>1, <1>2 DEF rowVars, IInv, TypeOK
<1>3. CASE status[o] # "CANCELLED"
  BY <1>1, <1>3 DEF Moves, UNRESOLVED_DB_ORDER_STATUSES
<1>. QED  BY <1>2, <1>3

\* The steps that mark an order cancelled, or finalise it.
LEMMA CancelRows ==
  ASSUME IInv, NEW w \in Workers, CancelFinish(w) \/ SyncApply(w) \/ FinalizeApply(w)
  PROVE  (\E o \in Orders : Moves(o)) \/ UNCHANGED rowVars
<1>1. PICK o \in Orders : o = proc[w].ord
  BY BusyOrder DEF CancelFinish, SyncApply, FinalizeApply, At
<1>2. UNCHANGED <<executions, position>>
  BY DEF CancelFinish, SyncApply, FinalizeApply
<1>3. CASE CancelFinish(w)
  <2>1. order_no[o] /\ brokerState[o] = "cancelled"
    BY <1>1, <1>3, BusyOrder DEF CancelFinish, Known, At
  <2>2. MarkCancelled(o)
    BY <1>1, <1>3 DEF CancelFinish
  <2>. QED  BY <1>2, <2>1, <2>2, CancelledRow
<1>4. CASE SyncApply(w)
  <2>1. /\ order_no[o] /\ brokerState[o] = "cancelled"
        /\ SyncTarget(proc[w].saw) = "CANCELLED"
    BY <1>1, <1>4, BusyOrder DEF SyncApply, Known, At, SyncTarget
  <2>2. MarkCancelled(o)
    BY <1>1, <1>4, <2>1 DEF SyncApply, MarkCancelled
  <2>. QED  BY <1>2, <2>1, <2>2, CancelledRow
<1>5. CASE FinalizeApply(w)
  <2>1. CASE order_no[o] /\ brokerState[o] = "cancelled" /\ MarkCancelled(o)
    BY <1>2, <2>1, CancelledRow
  <2>2. CASE UNCHANGED <<status, filled_qty>>
    BY <1>2, <2>2 DEF rowVars
  <2>. QED  BY <1>1, <1>5, <2>1, <2>2, FinalizeRow
<1>. QED  BY <1>3, <1>4, <1>5

LEMMA ImportRow ==
  ASSUME IInv, NEW w \in Workers, ImportApply(w)
  PROVE  \E o \in Orders : Books(o)
<1>1. PICK o \in Orders : o = proc[w].ord
  BY BusyOrder DEF ImportApply, At
<1>2. PICK i \in Nat : i = proc[w].num
  BY BusyOrder DEF ImportApply, At, Jobs
<1>3. PICK n \in Nat : n = ExecutedQty(o)
  BY ExecutedFacts DEF IInv
<1>4. /\ OrderOK(o) /\ TypeOK /\ Qty[o] \in Nat
      /\ brokerFilled[o] \in Nat
      /\ status[o] \in {"SUBMITTED", "UNKNOWN", "PARTIAL", "FILLED", "CANCELLED"}
      /\ i \in 1..brokerFilled[o]
  BY <1>1, <1>2, BusyOrder, OrdersAssumption
  DEF ImportApply, Known, At, IInv, TypeOK, DbOrderStatus
<1>5. /\ i \notin executions[o]
      /\ n + 1 <= Qty[o]
      /\ TransitionAllowed(status[o], SummaryStatus(o, n + 1))
      /\ executions' = [executions EXCEPT ![o] = @ \union {i}]
      /\ position' = IF Side[o] = "buy" THEN position + 1 ELSE position - 1
      /\ status' = [status EXCEPT ![o] = SummaryStatus(o, n + 1)]
      /\ filled_qty' = [filled_qty EXCEPT ![o] = n + 1]
  BY <1>1, <1>2, <1>3 DEF ImportApply, ImportCommits, SummaryCommits, SyncExecutionSummary
<1>6. filled_qty[o] = n /\ filled_qty' = [filled_qty EXCEPT ![o] = @ + 1]
  BY <1>3, <1>4, <1>5 DEF OrderOK, TypeOK
<1>7. status[o] # "FILLED"
  BY <1>3, <1>4, <1>5 DEF OrderOK
\* The executions and i are all among the shares the exchange executed.
<1>8. n + 1 <= brokerFilled[o]
  <2>1. executions[o] \union {i} \subseteq 1..brokerFilled[o]
    BY <1>4 DEF OrderOK
  <2>2. brokerFilled[o] \in Int /\ 1 \in Int /\ brokerFilled[o] >= 1
    BY <1>4
  <2>3. IsFiniteSet(1..brokerFilled[o])
    BY <2>2, FS_Interval
  <2>4. Cardinality(1..brokerFilled[o]) =
          IF 1 > brokerFilled[o] THEN 0 ELSE brokerFilled[o] - 1 + 1
    BY <2>2, FS_Interval
  <2>5. Cardinality(executions[o] \union {i}) <= Cardinality(1..brokerFilled[o])
    BY <2>1, <2>3, FS_Subset
  <2>6. IsFiniteSet(executions[o])
    BY <1>4, ExecutedFacts
  <2>7. Cardinality(executions[o] \union {i}) =
          IF i \in executions[o] THEN Cardinality(executions[o])
                                 ELSE Cardinality(executions[o]) + 1
    BY <2>6, FS_AddElement
  <2>. QED  BY <1>3, <1>5, <2>2, <2>4, <2>5, <2>7 DEF ExecutedQty
<1>9. status[o] = "CANCELLED" => n + 1 < Qty[o]
  BY <1>4, <1>8 DEF OrderOK
<1>. QED  BY <1>4, <1>5, <1>6, <1>7, <1>9 DEF Books, UNRESOLVED_DB_ORDER_STATUSES

LEMMA PlaceEndMoves ==
  ASSUME IInv, NEW w \in Workers, PlaceFailed(w) \/ PlaceFinish(w)
  PROVE  \E o \in Orders : Moves(o)
<1>1. PICK o \in Orders, target \in DbOrderStatus : PlaceEnds(w, o, target)
  BY PlaceEndRow
<1>. QED  BY <1>1 DEF PlaceEnds, Moves, UNRESOLVED_DB_ORDER_STATUSES

\* Whatever happens, the rows change in one of three ways or not at all.
LEMMA RowSteps ==
  ASSUME IInv, [Next]_vars
  PROVE  \/ UNCHANGED rowVars
         \/ \E o \in Orders : Opens(o) \/ Moves(o) \/ Books(o)
<1>1. CASE UNCHANGED vars
  BY <1>1 DEF vars, rowVars
<1>2. CASE Environment
  BY <1>2 DEF Environment, BrokerFill, BrokerClose, NewTradeDay, dbVars, rowVars
<1>3. ASSUME NEW w \in Workers, NEW o \in Orders, Begin(w, o)
      PROVE  UNCHANGED rowVars \/ Opens(o)
  BY <1>3 DEF Begin, PlaceCreate, CancelScript, SyncStart, ImportStart, Opens,
              dbVars, rowVars
<1>4. ASSUME NEW w \in Workers, Continue(w) \/ Crash(w)
      PROVE  UNCHANGED rowVars \/ \E o \in Orders : Moves(o) \/ Books(o)
  <2>1. CASE PlaceFailed(w) \/ PlaceFinish(w)
    BY <2>1, PlaceEndMoves
  <2>2. CASE CancelFinish(w) \/ SyncApply(w) \/ FinalizeApply(w)
    BY <2>2, CancelRows
  <2>3. CASE ImportApply(w)
    BY <2>3, ImportRow
  <2>4. CASE \/ PlaceChecked(w) \/ CancelNotTaken(w)
             \/ SyncLookup(w) \/ SyncNoMatch(w) \/ SyncLookupFails(w)
             \/ FinalizeReady(w) \/ FinalizeManual(w) \/ StaleCancel(w) \/ StaleSkip(w)
             \/ ImportRollback(w) \/ Crash(w)
    BY <2>4 DEF PlaceChecked, CancelNotTaken, SyncLookup, SyncNoMatch, SyncLookupFails,
                FinalizeReady, FinalizeManual, StaleCancel, StaleSkip, ImportRollback,
                Crash, dbVars, rowVars
  <2>5. CASE \/ \E http \in HttpOutcome : PostTaken(w, http) \/ PostLost(w, http)
             \/ \E reply \in {"ok", "lost"} : CancelTaken(w, reply)
    BY <2>5 DEF PostTaken, PostLost, CancelTaken, dbVars, rowVars
  <2>. QED  BY <1>4, <2>1, <2>2, <2>3, <2>4, <2>5
       DEF Continue, Place, Cancel, Maintain, Import
<1>. QED  BY <1>1, <1>2, <1>3, <1>4 DEF Next

-----------------------------------------------------------------------------
(* The balance                                                             *)

\* The balance, and that the books it counts are finite: at any time only
\* finitely many orders have executions, however many there may be.
Balanced ==
  /\ IsFiniteSet(Booked("buy")) /\ IsFiniteSet(Booked("sell"))
  /\ LedgerBalance

LEMMA NoneBooked == Init => Balanced
<1>. SUFFICES ASSUME Init PROVE Balanced
  OBVIOUS
<1>1. ASSUME NEW side PROVE Booked(side) = {}
  BY DEF Init, Booked
<1>2. IsFiniteSet({}) /\ Cardinality({}) = 0
  BY FS_EmptySet
<1>. QED  BY <1>1, <1>2, BoundsAssumption DEF Balanced, LedgerBalance, Init

\* A booked execution adds one share to the books of its side and none to the
\* other side's.
LEMMA BookOne ==
  ASSUME TypeOK, NEW o \in Orders, NEW i \in Nat, NEW side,
         executions' = [executions EXCEPT ![o] = @ \union {i}]
  PROVE  /\ Side[o] = side => Booked(side)' = Booked(side) \union {<<o, i>>}
         /\ Side[o] # side => Booked(side)' = Booked(side)
<1>1. /\ executions'[o] = executions[o] \union {i}
      /\ \A p \in Orders : p # o => executions'[p] = executions[p]
  BY DEF TypeOK
<1>2. ASSUME NEW x
      PROVE  x \in Booked(side) <=>
               \E p \in Orders : Side[p] = side /\ x \in {p} \X executions[p]
  BY DEF Booked
<1>3. ASSUME NEW x
      PROVE  x \in Booked(side)' <=>
               \E p \in Orders : Side[p] = side /\ x \in {p} \X executions'[p]
  BY DEF Booked
<1>4. CASE Side[o] = side
  <2>1. ASSUME NEW x PROVE x \in Booked(side)' <=> x \in Booked(side) \union {<<o, i>>}
    <3>1. ASSUME NEW p \in Orders
          PROVE  x \in {p} \X executions'[p] <=>
                   x \in {p} \X executions[p] \/ (p = o /\ x = <<o, i>>)
      BY <1>1
    <3>. QED  BY <1>2, <1>3, <1>4, <3>1
  <2>. QED  BY <1>4, <2>1
<1>5. CASE Side[o] # side
  <2>1. ASSUME NEW x PROVE x \in Booked(side)' <=> x \in Booked(side)
    BY <1>1, <1>2, <1>3, <1>5
  <2>. QED  BY <1>5, <2>1
<1>. QED  BY <1>4, <1>5

LEMMA BookedKept ==
  ASSUME executions' = executions, NEW side
  PROVE  Booked(side)' = Booked(side)
BY DEF Booked

LEMMA BooksBalance ==
  ASSUME IInv, Balanced, NEW o \in Orders, Books(o)
  PROVE  Balanced'
<1>1. PICK i \in Nat :
        /\ i \notin executions[o]
        /\ executions' = [executions EXCEPT ![o] = @ \union {i}]
        /\ position' = IF Side[o] = "buy" THEN position + 1 ELSE position - 1
  BY DEF Books
<1>2. TypeOK /\ Side[o] \in {"buy", "sell"} /\ InitPosition \in Nat /\ position \in Nat
  BY OrdersAssumption, BoundsAssumption DEF IInv, TypeOK
<1>3. PICK side \in {"buy", "sell"} : side = Side[o]
  BY <1>2
<1>4. Booked(side)' = Booked(side) \union {<<o, i>>} /\ <<o, i>> \notin Booked(side)
  <2>1. <<o, i>> \notin Booked(side)
    BY <1>1 DEF Booked
  <2>. QED  BY <1>1, <1>2, <1>3, <2>1, BookOne
<1>5. \A other \in {"buy", "sell"} : other # side => Booked(other)' = Booked(other)
  BY <1>1, <1>2, <1>3, BookOne
<1>6. IsFiniteSet(Booked("buy")) /\ IsFiniteSet(Booked("sell")) /\ IsFiniteSet(Booked(side))
  BY <1>3 DEF Balanced
<1>7. /\ IsFiniteSet(Booked(side)')
      /\ Cardinality(Booked(side)') = Cardinality(Booked(side)) + 1
  <2>1. IsFiniteSet(Booked(side) \union {<<o, i>>})
    BY <1>6, FS_AddElement
  <2>2. Cardinality(Booked(side) \union {<<o, i>>}) =
          IF <<o, i>> \in Booked(side) THEN Cardinality(Booked(side))
                                       ELSE Cardinality(Booked(side)) + 1
    BY <1>6, FS_AddElement
  <2>. QED  BY <1>4, <2>1, <2>2
<1>8. Cardinality(Booked("buy")) \in Nat /\ Cardinality(Booked("sell")) \in Nat
  BY <1>6, FS_CardinalityType
<1>9. position = InitPosition + Cardinality(Booked("buy")) - Cardinality(Booked("sell"))
  BY DEF Balanced, LedgerBalance
<1>10. IsFiniteSet(Booked("buy")') /\ IsFiniteSet(Booked("sell")')
  BY <1>3, <1>5, <1>6, <1>7
<1>11. position' = InitPosition + Cardinality(Booked("buy")') - Cardinality(Booked("sell")')
  <2>1. CASE side = "buy"
    <3>1. Booked("sell")' = Booked("sell")
      BY <1>5, <2>1
    <3>. QED  BY <1>1, <1>2, <1>3, <1>7, <1>8, <1>9, <2>1, <3>1
  <2>2. CASE side = "sell"
    <3>1. Booked("buy")' = Booked("buy")
      BY <1>5, <2>2
    <3>. QED  BY <1>1, <1>2, <1>3, <1>7, <1>8, <1>9, <2>2, <3>1
  <2>. QED  BY <1>3, <2>1, <2>2
<1>. QED  BY <1>10, <1>11 DEF Balanced, LedgerBalance

LEMMA BalanceStep == IInv /\ Balanced /\ [Next]_vars => Balanced'
<1>. SUFFICES ASSUME IInv, Balanced, [Next]_vars PROVE Balanced'
  OBVIOUS
<1>1. ASSUME executions' = executions, position' = position PROVE Balanced'
  BY <1>1, BookedKept DEF Balanced, LedgerBalance
<1>. QED  BY <1>1, RowSteps, BooksBalance DEF Opens, Moves, rowVars

\* The position is the start, plus what the executions of the buy orders say,
\* minus those of the sell orders, after any sequence of imports of any workers.
THEOREM BooksAgree == Spec => []LedgerBalance
<1>1. Balanced => LedgerBalance
  BY DEF Balanced
<1>. QED  BY <1>1, Invariance, NoneBooked, BalanceStep, PTL DEF Spec

-----------------------------------------------------------------------------
(* The refinement                                                          *)

PhaseOf(s) ==
  CASE s = "ABSENT" -> "absent"
    [] s \in UNRESOLVED_DB_ORDER_STATUSES -> "open"
    [] s = "FILLED" -> "complete"
    [] OTHER -> "closed"

Phases == [p \in Orders |-> Phase(p)]

\* Where the statuses go, the phases follow.
LEMMA PhaseChange ==
  ASSUME TypeOK, NEW o \in Orders, NEW s, status' = [status EXCEPT ![o] = s]
  PROVE  Phases' = [Phases EXCEPT ![o] = PhaseOf(s)]
<1>1. ASSUME NEW p \in Orders
      PROVE  Phase(p)' = IF p = o THEN PhaseOf(s) ELSE Phase(p)
  <2>1. status'[p] = IF p = o THEN s ELSE status[p]
    BY DEF TypeOK
  <2>2. CASE p = o
    BY <2>1, <2>2 DEF Phase, PhaseOf
  <2>3. CASE p # o
    BY <2>1, <2>3 DEF Phase
  <2>. QED  BY <2>2, <2>3
<1>. QED  BY <1>1 DEF Phases

LEMMA PhaseFacts ==
  /\ PhaseOf("ABSENT") = "absent" /\ PhaseOf("FILLED") = "complete"
  /\ \A s \in UNRESOLVED_DB_ORDER_STATUSES : PhaseOf(s) = "open"
  /\ \A s \in {"CANCELLED", "REJECTED", "FAILED"} : PhaseOf(s) = "closed"
BY DEF PhaseOf, UNRESOLVED_DB_ORDER_STATUSES

LEMMA PromiseInit == Init => Promise!Init
<1>. SUFFICES ASSUME Init PROVE Promise!Init
  OBVIOUS
<1>1. ASSUME NEW p \in Orders PROVE Phase(p) = "absent"
  <2>1. status[p] = "ABSENT"
    BY DEF Init
  <2>. QED  BY <2>1 DEF Phase, UNRESOLVED_DB_ORDER_STATUSES
<1>. QED  BY <1>1 DEF Init, Promise!Init

LEMMA PromiseStep == IInv /\ [Next]_vars => [Promise!Next]_(Promise!promiseVars)
<1>. SUFFICES ASSUME IInv, [Next]_vars
              PROVE  Promise!Next \/ UNCHANGED Promise!promiseVars
  OBVIOUS
<1>1. TypeOK
  BY DEF IInv
<1>2. CASE UNCHANGED rowVars
  <2>1. \A p \in Orders : Phase(p)' = Phase(p)
    BY <1>2 DEF rowVars, Phase
  <2>. QED  BY <1>2, <2>1 DEF rowVars, Promise!promiseVars
<1>3. ASSUME NEW o \in Orders, Opens(o) PROVE Promise!Open(o)
  <2>1. Phases' = [Phases EXCEPT ![o] = PhaseOf("PENDING")]
    BY <1>1, <1>3, PhaseChange DEF Opens
  <2>2. Phase(o) = "absent"
    BY <1>3 DEF Opens, Phase, UNRESOLVED_DB_ORDER_STATUSES
  <2>3. PhaseOf("PENDING") = "open"
    BY PhaseFacts DEF UNRESOLVED_DB_ORDER_STATUSES
  <2>4. Phases' = [Phases EXCEPT ![o] = "open"] /\ Phases[o] = "absent"
    BY <2>1, <2>2, <2>3 DEF Phases
  <2>. QED  BY <1>3, <2>4 DEF Opens, Promise!Open, Phases
<1>4. ASSUME NEW o \in Orders, Moves(o)
      PROVE  Promise!Close(o) \/ UNCHANGED Promise!promiseVars
  <2>1. PICK s \in {"SUBMITTED", "UNKNOWN", "REJECTED", "FAILED", "CANCELLED"} :
          status' = [status EXCEPT ![o] = s]
    BY <1>4 DEF Moves
  <2>2. Phases' = [Phases EXCEPT ![o] = PhaseOf(s)] /\ Phases[o] = "open"
    BY <1>1, <1>4, <2>1, PhaseChange DEF Moves, Phases, Phase, UNRESOLVED_DB_ORDER_STATUSES
  <2>3. CASE s \in {"SUBMITTED", "UNKNOWN"}
    <3>1. PhaseOf(s) = "open"
      BY <2>3, PhaseFacts DEF UNRESOLVED_DB_ORDER_STATUSES
    <3>2. Phases' = Phases
      BY <2>2, <3>1 DEF Phases
    <3>. QED  BY <1>4, <3>2 DEF Moves, Promise!promiseVars, Phases
  <2>4. CASE s \in {"REJECTED", "FAILED", "CANCELLED"}
    <3>1. PhaseOf(s) = "closed"
      BY <2>4, PhaseFacts
    <3>. QED  BY <1>4, <2>2, <3>1 DEF Moves, Promise!Close, Phases
  <2>. QED  BY <2>3, <2>4
<1>5. ASSUME NEW o \in Orders, Books(o)
      PROVE  Promise!Book(o) \/ Promise!BookLate(o)
  <2>1. /\ filled_qty[o] \in Nat /\ Qty[o] \in Nat
        /\ filled_qty' = [filled_qty EXCEPT ![o] = @ + 1]
        /\ filled_qty[o] + 1 <= Qty[o]
        /\ status[o] \in UNRESOLVED_DB_ORDER_STATUSES \union {"CANCELLED"}
        /\ status[o] = "CANCELLED" => filled_qty[o] + 1 < Qty[o]
    BY <1>1, <1>5, OrdersAssumption DEF Books, TypeOK
  <2>2. Phases' = [Phases EXCEPT ![o] = PhaseOf(SummaryStatus(o, filled_qty[o] + 1))]
    BY <1>1, <1>5, PhaseChange DEF Books
  <2>3. CASE status[o] = "CANCELLED"
    <3>1. SummaryStatus(o, filled_qty[o] + 1) = "CANCELLED"
      BY <2>3 DEF SummaryStatus
    <3>2. Phases[o] = "closed"
      BY <2>3 DEF Phases, Phase, UNRESOLVED_DB_ORDER_STATUSES
    <3>3. PhaseOf("CANCELLED") = "closed"
      BY PhaseFacts
    <3>4. Phases' = Phases
      BY <2>2, <3>1, <3>2, <3>3 DEF Phases
    <3>. QED  BY <2>1, <2>3, <3>2, <3>4 DEF Promise!BookLate, Phases
  <2>4. CASE status[o] \in UNRESOLVED_DB_ORDER_STATUSES
    <3>1. Phases[o] = "open" /\ status[o] # "CANCELLED"
      BY <2>4 DEF Phases, Phase, UNRESOLVED_DB_ORDER_STATUSES
    <3>2. PhaseOf(SummaryStatus(o, filled_qty[o] + 1)) =
            IF filled_qty[o] + 1 = Qty[o] THEN "complete" ELSE "open"
      <4>1. SummaryStatus(o, filled_qty[o] + 1) =
              IF filled_qty[o] + 1 = Qty[o] THEN "FILLED" ELSE "PARTIAL"
        BY <3>1 DEF SummaryStatus
      <4>2. PhaseOf("PARTIAL") = "open" /\ PhaseOf("FILLED") = "complete"
        BY PhaseFacts DEF UNRESOLVED_DB_ORDER_STATUSES
      <4>. QED  BY <4>1, <4>2
    <3>3. Phases' = [Phases EXCEPT ![o] =
                       IF filled_qty[o] + 1 = Qty[o] THEN "complete" ELSE "open"]
      BY <2>2, <3>2
    <3>4. filled_qty[o] < Qty[o]
      BY <2>1
    <3>. QED  BY <2>1, <3>1, <3>3, <3>4 DEF Promise!Book, Phases
  <2>. QED  BY <2>1, <2>3, <2>4
<1>. QED  BY <1>2, <1>3, <1>4, <1>5, RowSteps DEF Promise!Next

\* The ledger keeps what OrderPromise promises: an order opens once, is booked
\* share by share, completes with its last share or is closed early, and
\* neither is undone, whatever the workers, the broker and the crashes do.
THEOREM LedgerKeepsPromise == Spec => PromiseKept
BY Invariance, PromiseInit, PromiseStep, PTL DEF Spec, PromiseKept, Promise!Spec
=============================================================================
