---------------------------- MODULE OrderLedger ----------------------------
(***************************************************************************)
(* The life of the orders of one symbol: OrderService places and cancels   *)
(* them, OrderMaintenanceService synchronises, finalises and cancels them, *)
(* ManualExecutionImportService books their fills, and the broker and the  *)
(* exchange, which the program only sees through POST replies and order    *)
(* inquiries, execute them.                                                *)
(*                                                                         *)
(* A worker is one run of one script: the polling loop, the maintenance    *)
(* script, the stale cancel script, the execution import.  Several run at  *)
(* once, because each script takes a runtime lock of its own name.  Every  *)
(* database transaction is one step; between two of them, and around every *)
(* call of the broker, other workers and the exchange move.                *)
(*                                                                         *)
(* Quantities are counted in shares and the exchange executes one share at *)
(* a time, so the i-th share of an order is its execution number i.        *)
(* Prices are left out.                                                    *)
(***************************************************************************)
EXTENDS Integers, FiniteSets, OrderStatus

CONSTANTS
  Orders,         \* client order ids, each generated once (UNIQUE in orders)
  Workers,        \* runs of the scripts that may be in progress at once
  NoOrder,        \* the order of an idle worker
  Qty,            \* Qty[o] is the quantity of order o
  Side,           \* Side[o] is "buy" or "sell"
  InitPosition,   \* shares held, locally and at the broker, at the start
  MaxCrashes      \* bound on the number of worker crashes

ASSUME OrdersAssumption ==
  /\ NoOrder \notin Orders
  /\ Qty \in [Orders -> Nat \ {0}]
  /\ Side \in [Orders -> {"buy", "sell"}]

ASSUME BoundsAssumption == InitPosition \in Nat /\ MaxCrashes \in Nat

VARIABLES
  (* the local database *)
  status,         \* status[o]: the orders row of o, "ABSENT" before it exists
  order_no,       \* order_no[o]: the row has a kis_order_no
  filled_qty,     \* filled_qty[o]: the fill summary kept in the row
  executions,     \* executions[o]: execution numbers in the executions table
  position,       \* positions.qty of the symbol
  today,          \* the orders requested on the current trade date
  (* the broker and the exchange *)
  brokerState,    \* brokerState[o]: "none", "working" or "cancelled"
  brokerFilled,   \* brokerFilled[o]: shares of o the exchange has executed
  holdings,       \* shares in the account
  sellable,       \* shares not tied up in a working sell order
  (* the workers *)
  proc,           \* proc[w]: where w stands and what it remembers
  crashes         \* crashes so far

dbVars == <<status, order_no, filled_qty, executions, position, today>>
brokerVars == <<brokerState, brokerFilled, holdings, sellable>>
vars == <<status, order_no, filled_qty, executions, position, today,
          brokerState, brokerFilled, holdings, sellable, proc, crashes>>

\* A worker at pc, working on order o, that remembers saw (a reply, a status
\* or an action) and num (a broker quantity or an execution number).
Job(pc, o, saw, num) == [pc |-> pc, ord |-> o, saw |-> saw, num |-> num]
Idle == Job("idle", NoOrder, "none", 0)

At(w, pc) == proc[w].pc = pc
Goto(w, job) == proc' = [proc EXCEPT ![w] = job]

Init ==
  /\ status = [o \in Orders |-> "ABSENT"]
  /\ order_no = [o \in Orders |-> FALSE]
  /\ filled_qty = [o \in Orders |-> 0]
  /\ executions = [o \in Orders |-> {}]
  /\ position = InitPosition
  /\ today = {}
  /\ brokerState = [o \in Orders |-> "none"]
  /\ brokerFilled = [o \in Orders |-> 0]
  /\ holdings = InitPosition
  /\ sellable = InitPosition
  /\ proc = [w \in Workers |-> Idle]
  /\ crashes = 0

-----------------------------------------------------------------------------
(* storage/repositories/orders.py: the writes, each inside a transaction   *)

ExecutedQty(o) == Cardinality(executions[o])

\* The status column after an update to target: assert_transition_allowed
\* raises, and the transaction leaves the row alone, when it is not allowed.
Mark(o, target) ==
  [status EXCEPT ![o] = IF TransitionAllowed(@, target) THEN target ELSE @]

\* mark_cancelled also refreshes the fill summary from the executions.
MarkCancelled(o) ==
  /\ status' = Mark(o, "CANCELLED")
  /\ filled_qty' = [filled_qty EXCEPT ![o] =
       IF TransitionAllowed(status[o], "CANCELLED") THEN ExecutedQty(o) ELSE @]

\* Faulty variant (mutant) of SummaryStatus: the last share but one completes
\* the order.
SummaryStatusTooEarly(o, n) ==
  CASE status[o] = "CANCELLED" -> "CANCELLED"
    [] status[o] # "CANCELLED" /\ n + 1 >= Qty[o] -> "FILLED"
    [] OTHER -> "PARTIAL"

\* sync_execution_summary with n shares executed: the status it moves the row
\* to, and whether it commits at all.
SummaryStatus(o, n) ==
  CASE status[o] = "CANCELLED" -> "CANCELLED"
    [] status[o] # "CANCELLED" /\ n = Qty[o] -> "FILLED"
    [] OTHER -> "PARTIAL"

SummaryCommits(o, n) ==
  /\ n <= Qty[o]
  /\ status[o] \notin {"REJECTED", "FAILED"}
  /\ TransitionAllowed(status[o], SummaryStatus(o, n))

SyncExecutionSummary(o, n) ==
  /\ status' = [status EXCEPT ![o] = SummaryStatus(o, n)]
  /\ filled_qty' = [filled_qty EXCEPT ![o] = n]

-----------------------------------------------------------------------------
(* services/order_service.py: OrderService.place_order                     *)

\* Mutant of PlaceCreate: without the UNIQUE client_order_id a new order takes
\* the row of an old one.
PlaceCreateReplaces(w, o) ==
  /\ At(w, "idle")
  /\ status' = [status EXCEPT ![o] = "PENDING"]
  /\ today' = today \union {o}
  /\ Goto(w, Job("pre_trade", o, "none", 0))
  /\ UNCHANGED <<order_no, filled_qty, executions, position, brokerVars, crashes>>

\* _create_pending_order: the row is committed before anything is sent.
PlaceCreate(w, o) ==
  /\ At(w, "idle")
  /\ status[o] = "ABSENT"
  /\ status' = [status EXCEPT ![o] = "PENDING"]
  /\ today' = today \union {o}
  /\ Goto(w, Job("pre_trade", o, "none", 0))
  /\ UNCHANGED <<order_no, filled_qty, executions, position, brokerVars, crashes>>

\* _check_pre_trade: a sell order needs its quantity in the local position.
PreTradeOk(o) == Side[o] = "sell" => position >= Qty[o]

PlaceFailed(w) ==
  LET o == proc[w].ord IN
  /\ At(w, "pre_trade")
  /\ ~PreTradeOk(o)
  /\ status' = Mark(o, "FAILED")
  /\ Goto(w, Idle)
  /\ UNCHANGED <<order_no, filled_qty, executions, position, today,
                 brokerVars, crashes>>

PlaceChecked(w) ==
  LET o == proc[w].ord IN
  /\ At(w, "pre_trade")
  /\ PreTradeOk(o)
  /\ Goto(w, Job("post", o, "none", 0))
  /\ UNCHANGED <<dbVars, brokerVars, crashes>>

\* The one POST of an order, never repeated: either the broker takes it ...
PostTaken(w, http) ==
  LET o == proc[w].ord IN
  /\ At(w, "post")
  /\ http \in MayHaveBeenTaken
  /\ Side[o] = "sell" => sellable >= Qty[o]
  /\ brokerState' = [brokerState EXCEPT ![o] = "working"]
  /\ sellable' = IF Side[o] = "sell" THEN sellable - Qty[o] ELSE sellable
  /\ Goto(w, Job("posted", o, PlaceReply(http), 0))
  /\ UNCHANGED <<dbVars, brokerFilled, holdings, crashes>>

\* ... or it does not.
PostLost(w, http) ==
  LET o == proc[w].ord IN
  /\ At(w, "post")
  /\ http \in MayHaveBeenLost
  /\ Goto(w, Job("posted", o, PlaceReply(http), 0))
  /\ UNCHANGED <<dbVars, brokerVars, crashes>>

\* mark_submitted, _finalize_rejected or _finalize_unknown.
PlaceFinish(w) ==
  LET o == proc[w].ord
      target == StatusAfterPlace(proc[w].saw)
  IN
  /\ At(w, "posted")
  /\ status' = Mark(o, target)
  /\ order_no' = [order_no EXCEPT ![o] =
       \/ @
       \/ target = "SUBMITTED" /\ TransitionAllowed(status[o], target)]
  /\ Goto(w, Idle)
  /\ UNCHANGED <<filled_qty, executions, position, today, brokerVars, crashes>>

-----------------------------------------------------------------------------
(* services/order_service.py: OrderService.cancel_order                    *)

\* The row cancel_order reads allows the POST.
Cancellable(o) == status[o] \in {"SUBMITTED", "PARTIAL"} /\ order_no[o]

\* The exchange may still execute o.
BrokerOpen(o) == brokerState[o] = "working" /\ brokerFilled[o] < Qty[o]

\* The broker takes the cancel order; what remains of a sell order is sellable
\* again.  The reply arrives, or is lost and nothing changes locally.
CancelTaken(w, reply) ==
  LET o == proc[w].ord IN
  /\ At(w, "cancel")
  /\ BrokerOpen(o)
  /\ brokerState' = [brokerState EXCEPT ![o] = "cancelled"]
  /\ sellable' = IF Side[o] = "sell"
                 THEN sellable + (Qty[o] - brokerFilled[o]) ELSE sellable
  /\ Goto(w, IF reply = "ok" THEN Job("cancelled", o, "none", 0) ELSE Idle)
  /\ UNCHANGED <<dbVars, brokerFilled, holdings, crashes>>

\* Mutant of CancelNotTaken: a failed cancel request is taken for a success.
CancelNotTakenIgnored(w) ==
  /\ At(w, "cancel")
  /\ Goto(w, Job("cancelled", proc[w].ord, "none", 0))
  /\ UNCHANGED <<dbVars, brokerVars, crashes>>

\* The broker refuses the cancel order, or never gets it: REJECTED or UNKNOWN
\* for the caller, no change of the row.
CancelNotTaken(w) ==
  /\ At(w, "cancel")
  /\ Goto(w, Idle)
  /\ UNCHANGED <<dbVars, brokerVars, crashes>>

\* The second transaction of cancel_order.
CancelFinish(w) ==
  /\ At(w, "cancelled")
  /\ MarkCancelled(proc[w].ord)
  /\ Goto(w, Idle)
  /\ UNCHANGED <<order_no, executions, position, today, brokerVars, crashes>>

\* scripts/cancel_stale_buy_orders.py: the buy orders of today, without the
\* maintenance pass that would exclude those waiting for their executions.
CancelScript(w, o) ==
  /\ At(w, "idle")
  /\ Side[o] = "buy"
  /\ o \in today
  /\ Cancellable(o)
  /\ Goto(w, Job("cancel", o, "none", 0))
  /\ UNCHANGED <<dbVars, brokerVars, crashes>>

-----------------------------------------------------------------------------
(* services/unresolved_order_sync_service.py: the first step of a          *)
(* maintenance pass, for one order                                         *)

\* find_unresolved returned the row: a PARTIAL order waits for its executions
\* whatever the broker says, and an order without a kis_order_no is skipped.
SyncStart(w, o) ==
  /\ At(w, "idle")
  /\ o \in today
  /\ status[o] \in UNRESOLVED_DB_ORDER_STATUSES
  /\ Goto(w, CASE status[o] = "PARTIAL" -> Job("finalize", o, "none", 0)
              [] status[o] # "PARTIAL" /\ ~order_no[o] -> Job("stale", o, "none", 0)
              [] OTHER -> Job("lookup", o, status[o], 0))
  /\ UNCHANGED <<dbVars, brokerVars, crashes>>

\* Mutant of SafeAction: a cancellation at the broker is not picked up.
SafeActionNoCancel(current, view, filled) ==
  CASE filled > 0 -> "RECOVERY_REQUIRED"
    [] filled = 0 /\ view = "ACCEPTED" /\ current = "UNKNOWN" -> "MARK_SUBMITTED"
    [] OTHER -> "NONE"

\* _resolve_safe_action, for the status read by SyncStart.
SafeAction(current, view, filled) ==
  CASE filled > 0 \/ view \in {"PARTIAL", "FILLED"} -> "RECOVERY_REQUIRED"
    [] filled = 0 /\ view = "CANCELLED" -> "MARK_CANCELLED"
    [] filled = 0 /\ view = "ACCEPTED" /\ current = "UNKNOWN" -> "MARK_SUBMITTED"
    [] OTHER -> "NONE"

\* _load_broker_order_info finds the order; the inquiries only list the orders
\* of the current day.
SyncLookup(w) ==
  LET o == proc[w].ord
      filled == brokerFilled[o]
      view == BrokerOrderStatus(Qty[o], filled, brokerState[o] = "cancelled")
      action == SafeAction(proc[w].saw, view, filled)
  IN
  /\ At(w, "lookup")
  /\ o \in today
  /\ Goto(w, CASE action = "NONE" -> Job("stale", o, "none", 0)
              [] action = "RECOVERY_REQUIRED" -> Job("finalize", o, view, filled)
              [] OTHER -> Job("sync_apply", o, action, 0))
  /\ UNCHANGED <<dbVars, brokerVars, crashes>>

\* The inquiry, which reads one page, does not list the order.
SyncNoMatch(w) ==
  /\ At(w, "lookup")
  /\ Goto(w, Job("stale", proc[w].ord, "none", 0))
  /\ UNCHANGED <<dbVars, brokerVars, crashes>>

\* The inquiry fails: ServiceError ends the pass.
SyncLookupFails(w) ==
  /\ At(w, "lookup")
  /\ Goto(w, Idle)
  /\ UNCHANGED <<dbVars, brokerVars, crashes>>

SyncTarget(action) ==
  IF action = "MARK_CANCELLED" THEN "CANCELLED" ELSE "SUBMITTED"

\* _apply_action, in a transaction of its own after the inquiry.  A refused
\* transition raises and ends the pass.
SyncApply(w) ==
  LET o == proc[w].ord
      target == SyncTarget(proc[w].saw)
  IN
  /\ At(w, "sync_apply")
  /\ status' = Mark(o, target)
  /\ filled_qty' = [filled_qty EXCEPT ![o] =
       IF target = "CANCELLED" /\ TransitionAllowed(status[o], target)
       THEN ExecutedQty(o) ELSE @]
  /\ Goto(w, IF TransitionAllowed(status[o], target)
             THEN Job("stale", o, "none", 0) ELSE Idle)
  /\ UNCHANGED <<order_no, executions, position, today, brokerVars, crashes>>

-----------------------------------------------------------------------------
(* services/execution_recovery_finalize_service.py: the second step of a   *)
(* maintenance pass, for an order the first one left to its executions     *)

\* _resolve_target_status: the status the local executions justify when they
\* agree with what the broker said, "none" when they do not.
FinalTarget(o, view, filled) ==
  LET n == ExecutedQty(o) IN
  CASE n > 0 /\ n = filled /\ view = "FILLED" /\ n = Qty[o] -> "FILLED"
    [] n > 0 /\ n = filled /\ view = "PARTIAL" /\ n < Qty[o] -> "PARTIAL"
    [] n > 0 /\ n = filled /\ view = "CANCELLED" /\ n < Qty[o] -> "CANCELLED"
    [] OTHER -> "none"

FinalizeReady(w) ==
  LET o == proc[w].ord
      target == FinalTarget(o, proc[w].saw, proc[w].num)
  IN
  /\ At(w, "finalize")
  /\ target # "none"
  /\ Goto(w, Job("finalize_apply", o, target, 0))
  /\ UNCHANGED <<dbVars, brokerVars, crashes>>

\* MANUAL_RECOVERY_REQUIRED: the executions do not agree, or the entry lots of
\* a timing-2 order do not, which this module leaves open.  The order is in the
\* skip set of the stale cancels, so the pass is over for it.
FinalizeManual(w) ==
  /\ At(w, "finalize")
  /\ Goto(w, Idle)
  /\ UNCHANGED <<dbVars, brokerVars, crashes>>

\* sync_execution_summary(closed_at) inside _apply_recovery: it does nothing for
\* an order without executions, and without closed_at an order that turns out
\* full cannot be closed.
RecoveryCommits(o, target) ==
  /\ ExecutedQty(o) > 0
  /\ SummaryCommits(o, ExecutedQty(o))
  /\ SummaryStatus(o, ExecutedQty(o)) = "FILLED" =>
       target = "FILLED" \/ status[o] = "FILLED"

\* Mutant of FinalizeApply: the target computed before the transaction is
\* written as it stands.
FinalizeApplyStale(w) ==
  LET o == proc[w].ord
      target == proc[w].saw
  IN
  /\ At(w, "finalize_apply")
  /\ status' = [status EXCEPT ![o] = target]
  /\ filled_qty' = [filled_qty EXCEPT ![o] = ExecutedQty(o)]
  /\ Goto(w, Job("stale", o, "none", 0))
  /\ UNCHANGED <<order_no, executions, position, today, brokerVars, crashes>>

\* _apply_recovery: its own transaction, against whatever the row is by now; a
\* row that ends in another status than the target raises and ends the pass.
FinalizeApply(w) ==
  LET o == proc[w].ord
      target == proc[w].saw
  IN
  /\ At(w, "finalize_apply")
  /\ CASE target = "CANCELLED" -> MarkCancelled(o)
       [] target # "CANCELLED" /\ RecoveryCommits(o, target) ->
            SyncExecutionSummary(o, ExecutedQty(o))
       [] OTHER -> UNCHANGED <<status, filled_qty>>
  /\ Goto(w, IF status'[o] = target THEN Job("stale", o, "none", 0) ELSE Idle)
  /\ UNCHANGED <<order_no, executions, position, today, brokerVars, crashes>>

-----------------------------------------------------------------------------
(* services/stale_buy_order_cancel_service.py and its sell counterpart: the *)
(* last step of a maintenance pass                                         *)

\* The row is read again; the order is as old as the timeout.
StaleCancel(w) ==
  LET o == proc[w].ord IN
  /\ At(w, "stale")
  /\ o \in today
  /\ Cancellable(o)
  /\ Goto(w, Job("cancel", o, "none", 0))
  /\ UNCHANGED <<dbVars, brokerVars, crashes>>

\* The order is younger than the timeout, or not cancellable.
StaleSkip(w) ==
  /\ At(w, "stale")
  /\ Goto(w, Idle)
  /\ UNCHANGED <<dbVars, brokerVars, crashes>>

-----------------------------------------------------------------------------
(* services/manual_execution_import_service.py                             *)

\* Mutant of IMPORTABLE_STATUSES: fills of a cancelled order are refused.
IMPORTABLE_STATUSES_OpenOnly == {"SUBMITTED", "UNKNOWN", "PARTIAL"}

IMPORTABLE_STATUSES == {"SUBMITTED", "UNKNOWN", "PARTIAL", "CANCELLED"}

\* One more execution fits the order as it stands.
RoomForExecution(o) ==
  LET projected == ExecutedQty(o) + 1 IN
  /\ status[o] \in IMPORTABLE_STATUSES
  /\ projected <= Qty[o]
  /\ status[o] = "CANCELLED" => projected < Qty[o]

\* _evaluate_item: the operator enters execution i, which the exchange made.
ImportStart(w, o, i) ==
  /\ At(w, "idle")
  /\ i \in 1..brokerFilled[o]
  /\ i \notin executions[o]
  /\ RoomForExecution(o)
  /\ Goto(w, Job("import", o, "none", i))
  /\ UNCHANGED <<dbVars, brokerVars, crashes>>

\* Mutants of ImportCommits: the result of insert_if_new is not looked at; the
\* position may become negative.
ImportCommitsTwice(o, i) ==
  /\ i > 0
  /\ Side[o] = "sell" => position >= 1
  /\ status[o] \notin {"REJECTED", "FAILED"}

ImportCommitsShort(o, i) ==
  i \notin executions[o] /\ SummaryCommits(o, ExecutedQty(o) + 1)

\* What _apply_import needs to commit: the execution is still new, the position
\* does not become negative, and the fill summary is accepted.
ImportCommits(o, i) ==
  /\ i \notin executions[o]
  /\ Side[o] = "sell" => position >= 1
  /\ SummaryCommits(o, ExecutedQty(o) + 1)

\* insert_if_new, apply_execution and sync_execution_summary, one transaction.
ImportApply(w) ==
  LET o == proc[w].ord
      i == proc[w].num
  IN
  /\ At(w, "import")
  /\ ImportCommits(o, i)
  /\ executions' = [executions EXCEPT ![o] = @ \union {i}]
  /\ position' = IF Side[o] = "buy" THEN position + 1 ELSE position - 1
  /\ SyncExecutionSummary(o, ExecutedQty(o) + 1)
  /\ Goto(w, Idle)
  /\ UNCHANGED <<order_no, today, brokerVars, crashes>>

ImportRollback(w) ==
  /\ At(w, "import")
  /\ ~ImportCommits(proc[w].ord, proc[w].num)
  /\ Goto(w, Idle)
  /\ UNCHANGED <<dbVars, brokerVars, crashes>>

-----------------------------------------------------------------------------
(* The exchange, the account and the machine                               *)

BrokerFill(o) ==
  /\ BrokerOpen(o)
  /\ brokerFilled' = [brokerFilled EXCEPT ![o] = @ + 1]
  /\ IF Side[o] = "buy"
       THEN holdings' = holdings + 1 /\ sellable' = sellable + 1
       ELSE holdings' = holdings - 1 /\ UNCHANGED sellable
  /\ UNCHANGED <<dbVars, brokerState, proc, crashes>>

\* Cancelled by the exchange, or by the owner of the account elsewhere.
BrokerClose(o) ==
  /\ BrokerOpen(o)
  /\ brokerState' = [brokerState EXCEPT ![o] = "cancelled"]
  /\ sellable' = IF Side[o] = "sell"
                 THEN sellable + (Qty[o] - brokerFilled[o]) ELSE sellable
  /\ UNCHANGED <<dbVars, brokerFilled, holdings, proc, crashes>>

\* Orders are good for a day: the exchange drops what is open, and the services
\* that compare the request date with the trade date no longer see the rows.
NewTradeDay ==
  /\ today # {}
  /\ today' = {}
  /\ brokerState' = [o \in Orders |->
                       IF BrokerOpen(o) THEN "cancelled" ELSE brokerState[o]]
  /\ sellable' = holdings
  /\ UNCHANGED <<status, order_no, filled_qty, executions, position,
                 brokerFilled, holdings, proc, crashes>>

\* The process of a worker dies: its transactions so far stay, its memory goes.
Crash(w) ==
  /\ ~At(w, "idle")
  /\ crashes < MaxCrashes
  /\ crashes' = crashes + 1
  /\ Goto(w, Idle)
  /\ UNCHANGED <<dbVars, brokerVars>>

-----------------------------------------------------------------------------
Place(w) ==
  \/ PlaceFailed(w) \/ PlaceChecked(w)
  \/ \E http \in HttpOutcome : PostTaken(w, http) \/ PostLost(w, http)
  \/ PlaceFinish(w)

Cancel(w) ==
  \/ \E reply \in {"ok", "lost"} : CancelTaken(w, reply)
  \/ CancelNotTaken(w)
  \/ CancelFinish(w)

Maintain(w) ==
  \/ SyncLookup(w) \/ SyncNoMatch(w) \/ SyncLookupFails(w) \/ SyncApply(w)
  \/ FinalizeReady(w) \/ FinalizeManual(w) \/ FinalizeApply(w)
  \/ StaleCancel(w) \/ StaleSkip(w)

Import(w) == ImportApply(w) \/ ImportRollback(w)

\* A worker that is busy goes on with what it does.
Continue(w) == Place(w) \/ Cancel(w) \/ Maintain(w) \/ Import(w)

\* An idle worker takes up an order.
Begin(w, o) ==
  \/ PlaceCreate(w, o) \/ CancelScript(w, o) \/ SyncStart(w, o)
  \/ \E i \in 1..Qty[o] : ImportStart(w, o, i)

Environment ==
  \/ \E o \in Orders : BrokerFill(o) \/ BrokerClose(o)
  \/ NewTradeDay

Next ==
  \/ \E w \in Workers : Continue(w) \/ Crash(w)
  \/ \E w \in Workers, o \in Orders : Begin(w, o)
  \/ Environment

Spec == Init /\ [][Next]_vars

(***************************************************************************)
(* Fairness.  A process that runs goes on running.  The polling loop       *)
(* repeats the maintenance pass over every unresolved order, and an order  *)
(* inquiry that may be answered is not refused for ever.  The operator     *)
(* follows the recovery procedure of the runbook: an execution that can be *)
(* imported is, some day.  Nothing is assumed of the exchange, of the      *)
(* cancel script, of cancel requests or of the placing of orders.          *)
(***************************************************************************)
Fairness ==
  /\ \A w \in Workers : WF_vars(Continue(w))
  /\ \A o \in Orders :
       /\ SF_vars(\E w \in Workers : SyncStart(w, o))
       /\ SF_vars(\E w \in Workers : proc[w].ord = o /\ SyncLookup(w))
       /\ SF_vars(\E w \in Workers, i \in 1..Qty[o] : ImportStart(w, o, i))

FairSpec == Spec /\ Fairness

-----------------------------------------------------------------------------
(* Properties                                                              *)

ProcState ==
  {"idle", "pre_trade", "post", "posted", "cancel", "cancelled", "lookup",
   "sync_apply", "finalize", "finalize_apply", "stale", "import"}

\* What a worker remembers: a reply, a status of the row or of the broker, or
\* the action the sync decided on.
Memory ==
  {"none"} \union PlaceReplies \union DbOrderStatus
    \union {"ACCEPTED", "MARK_CANCELLED", "MARK_SUBMITTED"}

\* Type invariant.
TypeOK ==
  /\ status \in [Orders -> DbOrderStatus \union {"ABSENT"}]
  /\ order_no \in [Orders -> BOOLEAN]
  /\ filled_qty \in [Orders -> Nat]
  /\ executions \in [Orders -> SUBSET Nat]
  /\ position \in Nat
  /\ today \in SUBSET Orders
  /\ brokerState \in [Orders -> {"none", "working", "cancelled"}]
  /\ brokerFilled \in [Orders -> Nat]
  /\ holdings \in Int
  /\ sellable \in Int
  /\ proc \in [Workers -> [pc : ProcState, ord : Orders \union {NoOrder},
                           saw : Memory, num : Nat]]
  /\ crashes \in 0..MaxCrashes

\* An order the exchange may still execute is one the program still looks at:
\* its row is unresolved, so the sync, the stale cancel and the reconciliation
\* gate (find_unresolved) see it.  It must survive every interleaving of
\* cancels, syncs, imports and crashes.  The exception is a REJECTED row; see
\* RejectedNeverLive.
LiveOrdersTracked ==
  \A o \in Orders :
    BrokerOpen(o) => status[o] \in UNRESOLVED_DB_ORDER_STATUSES \union {"REJECTED"}

\* The order's summary, its status and its executions tell one story, whichever
\* worker wrote last: filled_qty counts the executions, FILLED means all of
\* them, PARTIAL some but not all, a cancelled order is never complete, and an
\* order that was refused, failed or is not confirmed has none.
FillAccounting ==
  \A o \in Orders :
    /\ filled_qty[o] = ExecutedQty(o)
    /\ status[o] = "FILLED" <=> ExecutedQty(o) = Qty[o]
    /\ status[o] = "PARTIAL" => ExecutedQty(o) \in 1..(Qty[o] - 1)
    /\ status[o] \in {"ABSENT", "PENDING", "SUBMITTED", "UNKNOWN",
                      "REJECTED", "FAILED"} => executions[o] = {}

\* A fill of an order the broker confirmed is never stranded: as long as it is
\* not booked, the row is in a status the import accepts, and a CANCELLED row
\* still has room for it, although the cancel and the fill race.
UnbookedFillsStayImportable ==
  \A o \in Orders :
    order_no[o] /\ ExecutedQty(o) < brokerFilled[o] =>
      /\ status[o] \in IMPORTABLE_STATUSES
      /\ status[o] = "CANCELLED" => brokerFilled[o] < Qty[o]

\* The shares booked to the orders of one side.
Booked(side) ==
  UNION {{o} \X executions[o] : o \in {p \in Orders : Side[p] = side}}

\* positions and executions are two books of the same trades: the position is
\* where it started, plus the shares bought, minus the shares sold, after
\* every import, duplicate, rollback and crash.
LedgerBalance ==
  position = InitPosition + Cardinality(Booked("buy")) - Cardinality(Booked("sell"))

\* The ledger implements OrderPromise: the status of a row is the phase of the
\* order and its fill summary what is booked to it.
Phase(o) ==
  CASE status[o] = "ABSENT" -> "absent"
    [] status[o] \in UNRESOLVED_DB_ORDER_STATUSES -> "open"
    [] status[o] = "FILLED" -> "complete"
    [] OTHER -> "closed"

Promise == INSTANCE OrderPromise
             WITH phase <- [o \in Orders |-> Phase(o)], booked <- filled_qty

PromiseKept == Promise!Spec

\* An order the broker confirmed and that ended at the exchange without a single
\* fill does not stay unresolved (it would block the position reconciliation
\* and count as exposure for the rest of the day), unless the trade date passes
\* first.  An order with fills waits for the import instead.
CancelledAtBrokerGetsClosed ==
  \A o \in Orders :
    (order_no[o] /\ o \in today /\ brokerState[o] = "cancelled" /\ brokerFilled[o] = 0)
      ~> (status[o] \in TERMINAL_DB_ORDER_STATUSES \/ o \notin today)

\* Every fill of a buy order the broker confirmed is booked in the end, in spite
\* of lost replies, cancels that race with it, the change of the trade date and
\* crashes.  (A sell order may wait for ever: when what it sold are the shares of
\* a buy order stranded in PENDING or REJECTED, the local position would become
\* negative.)
FillsGetBooked ==
  \A o \in Orders : \A n \in 1..Qty[o] :
    (Side[o] = "buy" /\ order_no[o] /\ brokerFilled[o] >= n)
      ~> (ExecutedQty(o) >= n)

-----------------------------------------------------------------------------
(* What the repository says and the code does not do                       *)

\* broker/kis/order.py:12 and the models: a POST that fails in the network
\* leaves an order UNKNOWN.  So an order that is REJECTED, which nothing will
\* look at again, was refused by the broker and is not live.
RejectedNeverLive ==
  \A o \in Orders : status[o] = "REJECTED" => brokerState[o] = "none"

\* docs/project_spec.md:15: after a restart the state of the orders can be
\* recovered.  So an order the broker took does not stay PENDING for ever.
PendingIsRecovered ==
  \A o \in Orders :
    (status[o] = "PENDING" /\ brokerState[o] # "none") ~> (status[o] # "PENDING")

=============================================================================
