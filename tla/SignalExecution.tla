-------------------------- MODULE SignalExecution --------------------------
(***************************************************************************)
(* BuySignalExecutionService and SellSignalExecutionService over the       *)
(* tables of SignalTables: an executor loads the pending signals, keeps    *)
(* one per symbol, asks TradingRiskGuardService, decides about each signal *)
(* in turn, places an order or not, and consumes the signal with an audit  *)
(* row.  Every transaction and every call of the broker is a step; the     *)
(* rest of the system moves between two steps.                             *)
(*                                                                         *)
(* An executor is one running script.  The scripts that execute signals    *)
(* (the polling loop, the cycle script, the two execution scripts) take    *)
(* locks of different names, so the constant says which may run at once.   *)
(***************************************************************************)
EXTENDS SignalTables, Functions

CONSTANTS
  Executors,      \* the scripts that execute signals at the same time
  NoSignal,
  Budget,         \* per_order_budget
  MaxHoldings,    \* max_holdings
  MaxDailyOrders  \* max_daily_order_count

ASSUME ExecutionAssumption ==
  /\ NoSignal \notin Signals
  /\ {Budget, MaxHoldings, MaxDailyOrders} \subseteq Nat \ {0}
  /\ Cardinality({x \in Symbols : InitPosition[x] > 0}) <= MaxHoldings

VARIABLES
  proc,           \* proc[p]: where executor p stands and what it remembers
  overlapped      \* history: two passes have been under way at once

vars == <<found, log, acted, stale, sellQty, audit, orders, position, lots,
          cash, switches, crashes, lossReached, clock, proc, overlapped>>

\* What the buy service reads once, before its loop over the candidates.
NoSnapshot == [live |-> {}, unresolved |-> {}, active |-> {}, cash |-> 0,
               count |-> 0]

Idle == [pc |-> "idle", side |-> "buy", superseded |-> {}, todo |-> {},
         snapshot |-> NoSnapshot, signal |-> NoSignal, qty |-> 0,
         reason |-> "none", order |-> 0]

Init ==
  /\ TablesInit
  /\ proc = [p \in Executors |-> Idle]
  /\ overlapped = FALSE

At(p, pc) == proc[p].pc = pc

-----------------------------------------------------------------------------
(* execute_pending_signals: loading, and the superseded candidates         *)

TriggersOf(side) == IF side = "buy" THEN BuyTriggers ELSE SellTriggers

\* A superseded buy signal is consumed; of the sell signals only those of a
\* whole position, a lot-level one waits for a later pass.
ConsumedWhenSuperseded(side, s) == side = "buy" \/ LotOf[s] = 0

\* The pass belongs to the current trade date, or raises at once.
Start(p, side) ==
  LET candidates == PendingCandidates(TriggersOf(side)) IN
  /\ At(p, "idle")
  /\ clock # "next_day"
  /\ candidates # {}
  /\ proc' = [proc EXCEPT ![p] = [Idle EXCEPT
       !.pc = "superseded", !.side = side, !.todo = Primary(candidates),
       !.superseded = {s \in Superseded(candidates) :
                         ConsumedWhenSuperseded(side, s)}]]
  /\ UNCHANGED tableVars

ConsumeSuperseded(p) ==
  /\ At(p, "superseded")
  /\ \E s \in proc[p].superseded :
       /\ Consume(s, "SUPERSEDED_BY_HIGHER_PRIORITY", 0)
       /\ proc' = [proc EXCEPT ![p].superseded = @ \ {s}]
  /\ UNCHANGED <<found, log, stale, sellQty, orders, position, lots, cash,
                 switches, crashes, lossReached, clock>>

-----------------------------------------------------------------------------
(* services/trading_risk_guard_service.py                                  *)

\* count_requested_for_trade_date: every row, whatever became of the order.
OrdersToday == Len(orders)

BuyBlockedByGuard ==
  CASE killSwitch -> "KILL_SWITCH_ENABLED"
    [] ~killSwitch /\ lossReached -> "MAX_DAILY_LOSS_REACHED"
    [] ~killSwitch /\ ~lossReached /\ OrdersToday >= MaxDailyOrders ->
         "MAX_DAILY_ORDER_COUNT_REACHED"
    [] OTHER -> "none"

SellBlockedByGuard == IF killSwitch THEN "KILL_SWITCH_ENABLED" ELSE "none"

GuardOf(side) ==
  IF side = "buy" THEN BuyBlockedByGuard ELSE SellBlockedByGuard

\* A blocked pass consumes its buy signals and leaves its sell signals.
Guard(p) ==
  LET reason == GuardOf(proc[p].side) IN
  /\ At(p, "superseded")
  /\ proc[p].superseded = {}
  /\ proc' = [proc EXCEPT ![p] =
       CASE reason = "none" /\ proc[p].side = "buy" ->
              [@ EXCEPT !.pc = "balance", !.snapshot.count = OrdersToday]
         [] reason = "none" /\ proc[p].side = "sell" ->
              [@ EXCEPT !.pc = "evaluate"]
         [] reason # "none" /\ proc[p].side = "buy" ->
              [@ EXCEPT !.pc = "blocked", !.reason = reason]
         [] OTHER -> Idle]
  /\ UNCHANGED tableVars

\* The pass goes on with the next candidate, or is over.
Advance(record, s) ==
  IF record.todo = {s} THEN Idle
  ELSE [record EXCEPT !.todo = @ \ {s}, !.signal = NoSignal, !.order = 0,
          !.qty = 0, !.reason = IF record.pc = "blocked" THEN @ ELSE "none",
          !.pc = IF record.pc = "blocked" THEN "blocked" ELSE "evaluate"]

ConsumeBlocked(p) ==
  LET s == First(proc[p].todo) IN
  /\ At(p, "blocked")
  /\ Consume(s, proc[p].reason, 0)
  /\ proc' = [proc EXCEPT ![p] = Advance(@, s)]
  /\ UNCHANGED <<found, log, stale, sellQty, orders, position, lots, cash,
                 switches, crashes, lossReached, clock>>

-----------------------------------------------------------------------------
(* services/buy_signal_execution_service.py                                *)

\* _load_balance: the inquiry of the available cash.
LoadBalance(p) ==
  /\ At(p, "balance")
  /\ proc' = [proc EXCEPT ![p].pc = "snapshot", ![p].snapshot.cash = cash]
  /\ UNCHANGED tableVars

\* Then the positions and the unresolved orders.
Snapshot(p) ==
  /\ At(p, "snapshot")
  /\ proc' = [proc EXCEPT ![p].pc = "evaluate",
       ![p].snapshot.live = LiveSymbols,
       ![p].snapshot.unresolved = UnresolvedSymbols("buy"),
       ![p].snapshot.active = LiveSymbols \union UnresolvedSymbols("buy")]
  /\ UNCHANGED tableVars

\* _evaluate_signal_age_guard
TooOld(s) == MaxSignalAge /\ s \in stale

\* Mutant of LivePositionBlock: any open lot of the symbol lets it be bought.
LivePositionBlockAnySlot(s, live) ==
  IF SymbolOf[s] \in live /\ OpenSlots(SymbolOf[s]) = {}
  THEN "LIVE_POSITION_WITHOUT_TIMING2_LOT" ELSE "none"

\* _resolve_live_position_block: a held symbol takes one more entry, of the
\* other 30-second slot.
LivePositionBlock(s, live) ==
  LET slots == OpenSlots(SymbolOf[s]) \intersect TIMING2_30S_ENTRY_SLOTS IN
  CASE SymbolOf[s] \notin live -> "none"
    [] SymbolOf[s] \in live /\ StrategyOf[s] \notin TIMING2_30S_ENTRY_SLOTS ->
         "LIVE_POSITION_EXISTS"
    [] OTHER ->
         CASE StrategyOf[s] \in slots -> "TIMING2_ENTRY_SLOT_ALREADY_USED"
           [] slots = {} -> "LIVE_POSITION_WITHOUT_TIMING2_LOT"
           [] OTHER -> "none"

\* The budget of an order, or what is left of the cash.
PlannedQty(s, available) ==
  (IF Budget < available THEN Budget ELSE available) \div Price[SymbolOf[s]]

\* _evaluate_primary_candidate: the reason not to buy, "none" to buy.  A
\* symbol that is active already does not count against max_holdings again.
BuyBlock(s, snapshot) ==
  LET held == LivePositionBlock(s, snapshot.live) IN
  CASE clock = "next_day" -> "TRADE_DATE_MISMATCH"
    [] clock = "early" -> "BEFORE_START_TIME"
    [] clock \in {"afternoon", "closed"} -> "AFTER_CUTOFF_TIME"
    [] OTHER ->
  CASE TooOld(s) -> "STALE_SIGNAL_AGE_EXCEEDED"
    [] ~TooOld(s) /\ held # "none" -> held
    [] OTHER ->
  CASE SymbolOf[s] \in snapshot.unresolved -> "UNRESOLVED_BUY_ORDER_EXISTS"
    [] SymbolOf[s] \notin snapshot.active /\
         Cardinality(snapshot.active) >= MaxHoldings -> "MAX_HOLDINGS_REACHED"
    [] OTHER ->
  CASE snapshot.count >= MaxDailyOrders -> "MAX_DAILY_ORDER_COUNT_REACHED"
    [] snapshot.count < MaxDailyOrders /\ PlannedQty(s, snapshot.cash) = 0 ->
         "INSUFFICIENT_AVAILABLE_CASH"
    [] OTHER -> "none"

EvaluateBuy(p) ==
  LET s == First(proc[p].todo)
      reason == BuyBlock(s, proc[p].snapshot)
  IN
  /\ At(p, "evaluate")
  /\ proc[p].side = "buy"
  /\ proc' = [proc EXCEPT ![p].signal = s, ![p].reason = reason,
       ![p].pc = IF reason = "none" THEN "place" ELSE "consume",
       ![p].qty = IF reason = "none"
                  THEN PlannedQty(s, proc[p].snapshot.cash) ELSE 0]
  /\ UNCHANGED tableVars

\* Mutant of Reserve: the pass keeps the money only.
ReserveCash(record) ==
  [record EXCEPT !.snapshot.cash =
     @ - record.qty * Price[SymbolOf[record.signal]]]

\* After an order was SUBMITTED or is UNKNOWN the pass counts it, and keeps its
\* symbol and its money for itself.
Reserve(record) ==
  LET x == SymbolOf[record.signal]
      left == record.snapshot.cash - record.qty * Price[x]
  IN [record EXCEPT !.snapshot.cash = IF left > 0 THEN left ELSE 0,
        !.snapshot.active = @ \union {x},
        !.snapshot.unresolved = @ \union {x},
        !.snapshot.count = @ + 1]

-----------------------------------------------------------------------------
(* services/sell_signal_execution_service.py                               *)

\* Mutant of LotBlock: the position is not compared.
LotBlockOfLot(s) ==
  IF LotOf[s] \in 1..Len(lots) /\ sellQty[s] <= lots[LotOf[s]].remaining
  THEN "none" ELSE "ENTRY_LOT_NOT_OPEN"

\* _evaluate_lot_guard: the lot is open and holds the quantity of the signal.
LotBlock(s) ==
  CASE ~(LotOf[s] \in 1..Len(lots) /\ IsOpen(lots[LotOf[s]])) ->
         "ENTRY_LOT_NOT_OPEN"
    [] LotOf[s] \in 1..Len(lots) /\ IsOpen(lots[LotOf[s]])
         /\ sellQty[s] > lots[LotOf[s]].remaining ->
         "SELL_QTY_EXCEEDS_LOT_REMAINING"
    [] OTHER -> IF sellQty[s] > position[SymbolOf[s]]
                THEN "SELL_QTY_EXCEEDS_LIVE_POSITION" ELSE "none"

\* _evaluate_primary_candidate, against the tables as they are now.
SellBlock(s) ==
  LET lot == IF LotOf[s] = 0 THEN "none" ELSE LotBlock(s) IN
  CASE clock = "next_day" -> "TRADE_DATE_MISMATCH"
    [] clock = "early" -> "BEFORE_START_TIME"
    [] clock = "closed" -> "AFTER_CUTOFF_TIME"
    [] OTHER ->
  CASE TooOld(s) -> "STALE_SIGNAL_AGE_EXCEEDED"
    [] ~TooOld(s) /\ position[SymbolOf[s]] = 0 -> "LIVE_POSITION_MISSING"
    [] OTHER ->
  CASE lot # "none" -> lot
    [] lot = "none" /\ SymbolOf[s] \in UnresolvedSymbols("sell") ->
         "UNRESOLVED_SELL_ORDER_EXISTS"
    [] OTHER -> "none"

\* Mutant of SellOrderQty: the quantity of the payload, for every signal.
SellOrderQtyOfPayload(s) == sellQty[s]

\* A lot-level signal sells its quantity, any other the whole position.
SellOrderQty(s) == IF LotOf[s] = 0 THEN position[SymbolOf[s]] ELSE sellQty[s]

EvaluateSell(p) ==
  LET s == First(proc[p].todo)
      reason == SellBlock(s)
  IN
  /\ At(p, "evaluate")
  /\ proc[p].side = "sell"
  /\ proc' = [proc EXCEPT ![p].signal = s, ![p].reason = reason,
       ![p].pc = IF reason = "none" THEN "place" ELSE "consume",
       ![p].qty = IF reason = "none" THEN SellOrderQty(s) ELSE 0]
  /\ UNCHANGED tableVars

\* Mutant of ShouldConsume: only an order that is under way.
ShouldConsumeSubmitted(s, reason) == reason = "SUBMITTED"

\* _should_consume_signal: what became an order, and what will never become
\* one.  Everything else stays pending for the next pass.
ShouldConsume(s, reason) ==
  \/ reason \in {"SUBMITTED", "UNKNOWN", "REJECTED", "FAILED",
                 "ENTRY_LOT_NOT_OPEN", "LIVE_POSITION_MISSING",
                 "STALE_SIGNAL_AGE_EXCEEDED"}
  \/ reason = "UNRESOLVED_SELL_ORDER_EXISTS" /\ LotOf[s] = 0

-----------------------------------------------------------------------------
(* Placing the order: the current price, and OrderService.place_order      *)

\* The row is committed before the order is sent.
Place(p) ==
  LET s == proc[p].signal IN
  /\ At(p, "place")
  /\ orders' = Append(orders,
       [signal |-> s, symbol |-> SymbolOf[s], side |-> proc[p].side,
        qty |-> proc[p].qty, status |-> "PENDING", numbered |-> FALSE,
        broker |-> "none", filled |-> 0, booked |-> 0, late |-> FALSE])
  /\ proc' = [proc EXCEPT ![p].order = Len(orders) + 1,
       ![p].pc = IF proc[p].side = "sell" THEN "pre_trade" ELSE "post"]
  /\ UNCHANGED <<found, log, acted, stale, sellQty, audit, position, lots,
                 cash, switches, crashes, lossReached, clock>>

\* _check_pre_trade: a sell order beyond the local position FAILED before it is
\* sent.
PreTrade(p) ==
  LET i == proc[p].order
      covered == orders[i].qty <= position[orders[i].symbol]
  IN
  /\ At(p, "pre_trade")
  /\ orders' = IF covered THEN orders
               ELSE [orders EXCEPT ![i].status = "FAILED"]
  /\ proc' = [proc EXCEPT ![p].pc = IF covered THEN "post" ELSE "consume",
                          ![p].reason = IF covered THEN @ ELSE "FAILED"]
  /\ UNCHANGED <<found, log, acted, stale, sellQty, audit, position, lots,
                 cash, switches, crashes, lossReached, clock>>

\* The POST: the broker takes the order, and reserves what a buy order costs,
\* or it does not.
Post(p, taken) ==
  LET i == proc[p].order IN
  /\ At(p, "post")
  /\ taken => Acceptable(i)
  /\ orders' = [orders EXCEPT ![i].broker = IF taken THEN "working" ELSE "none"]
  /\ cash' = IF taken /\ proc[p].side = "buy"
             THEN cash - Worth(i, orders[i].qty) ELSE cash
  /\ proc' = [proc EXCEPT ![p].pc = "posted"]
  /\ UNCHANGED <<found, log, acted, stale, sellQty, audit, position, lots,
                 switches, crashes, lossReached, clock>>

\* What the service makes of the reply: a number means SUBMITTED, a lost reply
\* is taken for a refusal (OrderStatus has the cases), anything else is UNKNOWN.
Replies(taken) ==
  {"UNKNOWN", "REJECTED"} \union (IF taken THEN {"SUBMITTED"} ELSE {})

Replied(p, outcome) ==
  LET i == proc[p].order IN
  /\ At(p, "posted")
  /\ outcome \in Replies(orders[i].broker # "none")
  /\ orders' = [orders EXCEPT ![i].status = outcome,
                              ![i].numbered = outcome = "SUBMITTED"]
  /\ proc' = [proc EXCEPT ![p] =
       [(IF proc[p].side = "buy" /\ outcome # "REJECTED" THEN Reserve(@) ELSE @)
          EXCEPT !.pc = "consume", !.reason = outcome]]
  /\ UNCHANGED <<found, log, acted, stale, sellQty, audit, position, lots,
                 cash, switches, crashes, lossReached, clock>>

\* Every buy signal that was decided about is consumed.
ConsumeDecided(p) ==
  LET s == proc[p].signal IN
  /\ At(p, "consume")
  /\ IF proc[p].side = "buy" \/ ShouldConsume(s, proc[p].reason)
     THEN Consume(s, proc[p].reason, proc[p].order)
     ELSE UNCHANGED <<acted, audit>>
  /\ proc' = [proc EXCEPT ![p] = Advance(@, s)]
  /\ UNCHANGED <<found, log, stale, sellQty, orders, position, lots, cash,
                 switches, crashes, lossReached, clock>>

-----------------------------------------------------------------------------

\* The balance or the price cannot be had: ServiceError ends the pass, and what
\* it has not decided stays pending.
PassFails(p) ==
  /\ proc[p].pc \in {"balance", "place"}
  /\ proc' = [proc EXCEPT ![p] = Idle]
  /\ UNCHANGED tableVars

\* The process dies; its lock expires and another takes its place.
Crash(p) ==
  /\ ~At(p, "idle")
  /\ Mishaps < MaxMishaps
  /\ crashes' = crashes + 1
  /\ proc' = [proc EXCEPT ![p] = Idle]
  /\ UNCHANGED <<found, log, acted, stale, sellQty, audit, orders, position,
                 lots, cash, switches, lossReached, clock>>

Step(p) ==
  \/ \E side \in {"buy", "sell"} : Start(p, side)
  \/ ConsumeSuperseded(p)
  \/ Guard(p)
  \/ ConsumeBlocked(p)
  \/ LoadBalance(p)
  \/ Snapshot(p)
  \/ EvaluateBuy(p)
  \/ EvaluateSell(p)
  \/ Place(p)
  \/ PreTrade(p)
  \/ \E taken \in BOOLEAN : Post(p, taken)
  \/ \E outcome \in {"SUBMITTED", "UNKNOWN", "REJECTED"} : Replied(p, outcome)
  \/ ConsumeDecided(p)

\* Two passes are under way.
Overlap == \E p, q \in Executors : p # q /\ ~At(p, "idle") /\ ~At(q, "idle")

Next ==
  /\ \/ \E p \in Executors : Step(p) \/ PassFails(p) \/ Crash(p)
     \/ Environment /\ UNCHANGED proc
  /\ overlapped' = (overlapped \/ Overlap')

Spec == Init /\ [][Next]_vars

-----------------------------------------------------------------------------
(* Properties                                                              *)

\* The orders nobody has resolved, whatever the executors look for.
InFlight(side, x) ==
  {i \in 1..Len(orders) :
     orders[i].side = side /\ orders[i].symbol = x /\ orders[i].status \in Unresolved}
Outstanding(S) ==
  SumFunctionOnSet([i \in DOMAIN orders |-> orders[i].qty - orders[i].booked], S)
Remaining(L) == SumFunctionOnSet([l \in DOMAIN lots |-> lots[l].remaining], L)

\* Type invariant.
TypeOK ==
  /\ acted \subseteq Signals /\ stale \subseteq Signals
  /\ sellQty \in [Signals -> Nat]
  /\ \A i \in 1..Len(orders) :
       /\ orders[i].symbol = SymbolOf[orders[i].signal]
       /\ orders[i].qty \in Nat \ {0}
       /\ orders[i].filled \in 0..orders[i].qty
       /\ orders[i].booked \in 0..orders[i].filled
  /\ \A l \in 1..Len(lots) : lots[l].remaining \in 0..lots[l].total
  /\ position \in [Symbols -> Nat]
  /\ cash \in Nat
  /\ \A p \in Executors : proc[p].todo \subseteq Signals

\* As long as no two passes have overlapped, a symbol never has two unresolved
\* orders of one side, whatever crashes and however late and in how many parts
\* an order is resolved (UNRESOLVED_BUY_ORDER_EXISTS and
\* UNRESOLVED_SELL_ORDER_EXISTS, read at different moments).
OneOrderInFlight ==
  \/ overlapped
  \/ \A x \in Symbols : \A side \in {"buy", "sell"} :
       Cardinality(InFlight(side, x)) <= 1

\* What the histories below except: a position-level sell of x was booked, or
\* an order of x was CANCELLED before its fills were imported.
SoldAsPosition(x) ==
  \E i \in 1..Len(orders) :
    /\ orders[i].symbol = x
    /\ StrategyOf[orders[i].signal] \in PositionExits
    /\ orders[i].booked > 0

FillsLate(side, x) == \E i \in Orders(side, x) : orders[i].late

\* The entries of a 30-second slot of x: the open lots and the unresolved buy
\* orders, where a partly imported order and its own lot are one.
Entries(x, slot) ==
  {i \in InFlight("buy", x) : StrategyOf[orders[i].signal] = slot}
Holders(x, slot) ==
  {l \in 1..Len(lots) : lots[l].symbol = x /\ lots[l].slot = slot
     /\ IsOpen(lots[l]) /\ lots[l].order \notin Entries(x, slot)}

\* As long as no two passes have overlapped, a slot is entered once at a time:
\* crashes between order and acted flag, old snapshots and imports in parts do
\* not lead to a second open lot or to an order beside one.  The exceptions are
\* a position-level sell, which leaves the lot of what it sold open, and fills
\* of a cancelled buy that were imported late.
SlotEnteredOnce ==
  \/ overlapped
  \/ \A x \in Symbols : \A slot \in TIMING2_30S_ENTRY_SLOTS :
       \/ SoldAsPosition(x)
       \/ FillsLate("buy", x)
       \/ Cardinality(Entries(x, slot)) + Cardinality(Holders(x, slot)) <= 1

\* The position covers what its unresolved sell orders may still sell, so that
\* no fill is refused for want of shares, unless two passes have overlapped or
\* fills of a cancelled sell were imported late; and it covers what its open
\* lots hold, unless a position-level sell reduced the position and no lot.
PositionCovers ==
  \A x \in Symbols :
    /\ \/ overlapped
       \/ FillsLate("sell", x)
       \/ Outstanding(InFlight("sell", x)) <= position[x]
    /\ \/ SoldAsPosition(x)
       \/ Remaining({l \in 1..Len(lots) : lots[l].symbol = x}) <= position[x]

\* Every order carries the audit row of its signal, or its executor is still
\* about to write it, or has crashed: at most one order is lost per crash,
\* however many executors there are.
OrdersAudited ==
  Cardinality({i \in 1..Len(orders) :
    /\ \A a \in audit : a.order # i
    /\ \A p \in Executors : proc[p].order # i}) <= crashes

BuyOrders == {i \in 1..Len(orders) : orders[i].side = "buy"}

\* Buys the limits lose sight of: REJECTED here and taken there, or CANCELLED
\* before their fills were imported.
Astray ==
  \E i \in BuyOrders :
    orders[i].late \/ (orders[i].status = "REJECTED" /\ orders[i].broker # "none")

\* The orders of the day that the broker has taken or may have taken.
Counted ==
  {i \in 1..Len(orders) :
     \/ orders[i].status \notin {"REJECTED", "FAILED"}
     \/ orders[i].broker # "none"}

\* The symbols the account holds, is about to hold or is buying.
Exposed ==
  LiveSymbols \union UnresolvedSymbols("buy")
    \union {orders[i].symbol :
              i \in {j \in BuyOrders : BrokerOpen(j) \/ orders[j].booked < orders[j].filled}}

\* As long as no two passes have overlapped and no buy has gone astray, the
\* limits of the buy side hold over all the passes, and the fills, cancels and
\* imports that come between them: max_holdings bounds the symbols the account
\* holds or is buying; no buy order costs more than the account has left,
\* however many orders are sent on the one balance a pass has read; and it is
\* created while the orders of the day are below max_daily_order_count.
BuysWithinLimits ==
  [][ \/ overlapped'
      \/ Astray'
      \/ /\ Cardinality(Exposed') <= MaxHoldings
         /\ \A i \in BuyOrders' \ BuyOrders :
              /\ Worth(i, orders[i].qty)' <= cash
              /\ Cardinality(Counted) < MaxDailyOrders ]_vars

-----------------------------------------------------------------------------
(* What the repository says and the code does not do                       *)

\* docs/project_spec.md:14: no order is sent twice.  So without a crash a signal
\* is ordered for once, over all the passes that read it.
SignalOrderedOnce ==
  crashes = 0 =>
    \A i, j \in 1..Len(orders) : orders[i].signal = orders[j].signal => i = j
=============================================================================
