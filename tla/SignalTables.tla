---------------------------- MODULE SignalTables ----------------------------
(***************************************************************************)
(* What the execution of trading signals reads and writes on one trade     *)
(* date: the signals table with its audit rows, the kill switch, the       *)
(* orders, positions and entry lots, and the account's cash.               *)
(*                                                                         *)
(* A signal of the model is what the scanners identify it by: a strategy,  *)
(* a symbol and, for a lot-level exit, a lot.  They record it at most once *)
(* a day, so the row of a signal appears in the log at most once; its      *)
(* position in the log stands for scanned_at and id.  Which service moves  *)
(* an order, and what it went by, is the subject of OrderLedger: here an   *)
(* order is filled and cancelled at the broker, and marked CANCELLED and   *)
(* imported in the tables, in any order those services leave.  The price   *)
(* of a symbol does not move between quote and fill.                       *)
(***************************************************************************)
EXTENDS Integers, Sequences, FiniteSets, Functions

CONSTANTS
  Signals,        \* the signals that may be recorded today
  Symbols,
  SymbolOf,       \* SymbolOf[s] is the symbol of signal s
  StrategyOf,     \* StrategyOf[s] is the strategy that records it
  LotOf,          \* LotOf[s] is the lot of a lot-level exit, 0 otherwise
  Days,           \* the sets of signals whose conditions a day may meet
  Periods,        \* the parts of the day that pass, in order
  SignalLimit,    \* signal_limit: how many unacted rows a pass inspects
  MaxSignalAge,   \* max_signal_age_seconds is configured
  Price,          \* Price[x] is the price of one share of symbol x
  InitCash,       \* available cash of the account in the morning
  InitPosition,   \* InitPosition[x]: shares of x held in the morning
  InitLots,       \* the entry lots in the morning, a sequence of Lot records
  MaxMishaps      \* bound on crashes, changes of the switch, stale signals

BuyTriggers ==
  {"timing1", "timing2", "timing2_morning", "timing2_range"}
LotExits == {"lot_stop_loss", "lot_ma_break", "lot_take_profit"}
PositionExits == {"sell_stop_loss", "sell_take_profit", "sell_macd"}
SellTriggers == LotExits \union PositionExits
Strategies == BuyTriggers \union SellTriggers \union {"setup"}

\* Buy orders are sent in the morning, sell orders until the afternoon ends.
Clock == {"early", "morning", "afternoon", "closed", "next_day"}

\* The slots of the two 30-second strategies of timing 2.
TIMING2_30S_ENTRY_SLOTS == {"timing2_morning", "timing2_range"}

ASSUME TablesAssumption ==
  /\ SymbolOf \in [Signals -> Symbols]
  /\ StrategyOf \in [Signals -> Strategies]
  /\ LotOf \in [Signals -> Nat]
  /\ \A s \in Signals : StrategyOf[s] \in LotExits <=> LotOf[s] > 0
  /\ Days \subseteq SUBSET Signals
  /\ \A i \in 1..Len(Periods) : Periods[i] \in Clock
  /\ SignalLimit \in Nat \ {0}
  /\ MaxSignalAge \in BOOLEAN
  /\ Price \in [Symbols -> Nat \ {0}]
  /\ InitCash \in Nat
  /\ IsFiniteSet(Symbols)
  /\ InitPosition \in [Symbols -> Nat]
  /\ MaxMishaps \in Nat

\* The lots of the morning: at most one open lot of each 30-second slot of a
\* symbol, and a position that holds what its lots hold.
ASSUME MorningAssumption ==
  /\ InitLots \in Seq([symbol : Symbols, slot : Strategies, total : Nat \ {0},
                       remaining : Nat, order : {0}])
  /\ \A l \in DOMAIN InitLots : InitLots[l].remaining <= InitLots[l].total
  /\ \A l, k \in DOMAIN InitLots :
       /\ InitLots[l].symbol = InitLots[k].symbol
       /\ InitLots[l].slot = InitLots[k].slot
       /\ InitLots[l].slot \in TIMING2_30S_ENTRY_SLOTS
       /\ InitLots[l].remaining > 0 /\ InitLots[k].remaining > 0
       => l = k
  /\ \A x \in Symbols :
       SumFunctionOnSet([l \in DOMAIN InitLots |-> InitLots[l].remaining],
                        {l \in DOMAIN InitLots : InitLots[l].symbol = x})
         <= InitPosition[x]

VARIABLES
  found,          \* the signals whose conditions this day meets
  log,            \* rows of the signals table that are not execution audits
  acted,          \* the signals marked acted
  stale,          \* the signals older than max_signal_age_seconds
  sellQty,        \* sellQty[s]: sell_qty in the payload of a lot-level exit
  audit,          \* execution audits: the signal, the reason, its order or 0
  orders,         \* the orders of the day, in the order of their rows
  position,       \* position[x]: positions.qty of symbol x
  lots,           \* the entry_lots table
  cash,           \* cash at the broker not spent or reserved by an order
  switches,       \* how often the kill switch was changed
  crashes,        \* how many executors have died
  lossReached,    \* the realised loss of the day has reached max_daily_loss
  clock           \* the part of the day

tableVars == <<found, log, acted, stale, sellQty, audit, orders, position,
               lots, cash, switches, crashes, lossReached, clock>>

\* trading_controls: the switch is off in the morning.
killSwitch == switches % 2 = 1

Mishaps == crashes + switches + Cardinality(stale)

\* How the entry lot of one buy order stands.
Lot(symbol, slot, total, remaining, order) ==
  [symbol |-> symbol, slot |-> slot, total |-> total,
   remaining |-> remaining, order |-> order]

\* EntryLotRepository.apply_sell_to_lot closes a lot at zero.
IsOpen(lot) == lot.remaining > 0

\* One row of the signals table: a recorded signal, or the audit row that the
\* clean-up of stale signals leaves unacted.
Recorded(s) == [kind |-> "signal", signal |-> s]
CleanupAudit(s) == [kind |-> "cleanup", signal |-> s]

TablesInit ==
  /\ found \in Days
  /\ log = <<>>
  /\ acted = {}
  /\ stale = {}
  /\ sellQty = [s \in Signals |-> 0]
  /\ audit = {}
  /\ orders = <<>>
  /\ position = InitPosition
  /\ lots = InitLots
  /\ cash = InitCash
  /\ switches = 0
  /\ crashes = 0
  /\ lossReached = FALSE
  /\ clock = Periods[1]

-----------------------------------------------------------------------------
(* storage/repositories/signals.py                                         *)

IsRecorded(s) == Recorded(s) \in {log[i] : i \in 1..Len(log)}
IsPending(s) == IsRecorded(s) /\ s \notin acted
Scanned(s) == CHOOSE i \in 1..Len(log) : log[i] = Recorded(s)

\* list_unacted: the oldest rows, of every strategy, that are not acted.
UnactedRows ==
  {i \in 1..Len(log) : log[i].kind = "cleanup" \/ log[i].signal \notin acted}
ListUnacted(limit) ==
  {i \in UnactedRows : Cardinality({j \in UnactedRows : j <= i}) <= limit}

\* _load_pending_candidates of either service: the rows of its own strategies
\* among those list_unacted returns.
PendingCandidates(strategies) ==
  {log[i].signal : i \in {j \in ListUnacted(SignalLimit) :
     log[j].kind = "signal" /\ StrategyOf[log[j].signal] \in strategies}}

\* The lower, the sooner.  The two services rank their own strategies.
Priority(strategy) ==
  CASE strategy \in {"timing1", "sell_stop_loss", "lot_stop_loss"} -> 0
    [] strategy \in {"timing2", "timing2_morning", "timing2_range",
                     "lot_ma_break"} -> 1
    [] strategy \in {"sell_take_profit", "lot_take_profit"} -> 2
    [] OTHER -> 3

Before(s, t) ==
  \/ Priority(StrategyOf[s]) < Priority(StrategyOf[t])
  \/ /\ Priority(StrategyOf[s]) = Priority(StrategyOf[t])
     /\ Scanned(s) < Scanned(t)

\* _split_candidates: the first candidate of every symbol, in turn, and the
\* others, which lost to it.
IsWinner(s, candidates) ==
  \A t \in candidates : SymbolOf[t] = SymbolOf[s] => t = s \/ Before(s, t)
Primary(candidates) == {s \in candidates : IsWinner(s, candidates)}
Superseded(candidates) == candidates \ Primary(candidates)
First(S) == CHOOSE s \in S : \A t \in S : t = s \/ Before(s, t)

\* _persist_consumed_signal: the audit row and both acted flags in one
\* transaction.
Consume(s, reason, order) ==
  /\ acted' = acted \union {s}
  /\ audit' = audit \union {[signal |-> s, reason |-> reason, order |-> order]}

-----------------------------------------------------------------------------
(* storage/repositories/orders.py and entry_lots.py                        *)

Unresolved == {"PENDING", "SUBMITTED", "UNKNOWN", "PARTIAL"}

\* Mutant of FindUnresolved: an order nobody knows about does not count.
FindUnresolvedKnown(side) ==
  {i \in 1..Len(orders) :
     orders[i].side = side /\ orders[i].status \in Unresolved \ {"UNKNOWN"}}

\* find_unresolved, one side.
FindUnresolved(side) ==
  {i \in 1..Len(orders) :
     orders[i].side = side /\ orders[i].status \in Unresolved}
UnresolvedSymbols(side) == {orders[i].symbol : i \in FindUnresolved(side)}

LiveSymbols == {x \in Symbols : position[x] > 0}

OpenSlots(x) ==
  {lots[l].slot : l \in {k \in 1..Len(lots) :
                           lots[k].symbol = x /\ IsOpen(lots[k])}}

-----------------------------------------------------------------------------
(* Everything that moves the tables from outside the execution passes      *)

\* The buy trigger scans, and the scan of setups: a signal is recorded once a
\* day.  Nobody marks a setup acted.
RecordSignal(s) ==
  /\ s \in found
  /\ ~IsRecorded(s)
  /\ StrategyOf[s] \in BuyTriggers \union {"setup"}
  /\ log' = Append(log, Recorded(s))
  /\ UNCHANGED <<found, acted, stale, sellQty, audit, orders, position, lots,
                 cash, switches, crashes, lossReached, clock>>

\* The position-level sell scans walk the positions table.
RecordPositionExit(s) ==
  /\ s \in found
  /\ ~IsRecorded(s)
  /\ StrategyOf[s] \in PositionExits
  /\ position[SymbolOf[s]] > 0
  /\ log' = Append(log, Recorded(s))
  /\ UNCHANGED <<found, acted, stale, sellQty, audit, orders, position, lots,
                 cash, switches, crashes, lossReached, clock>>

\* Timing2LotExitEvaluator: a stop loss or a broken average sells the lot, a
\* take profit half of it, rounded up, and only once.
ExitQty(strategy, lot) ==
  IF strategy = "lot_take_profit" THEN (lot.remaining + 1) \div 2
                                  ELSE lot.remaining

\* Timing2LotExitScanService.scan: the open lots of the 30-second slots.  The
\* quantity is what the lot holds now, whatever order is under way.
RecordLotExit(s) ==
  /\ s \in found
  /\ ~IsRecorded(s)
  /\ StrategyOf[s] \in LotExits
  /\ LotOf[s] \in 1..Len(lots)
  /\ LET lot == lots[LotOf[s]] IN
     /\ lot.symbol = SymbolOf[s]
     /\ lot.slot \in TIMING2_30S_ENTRY_SLOTS
     /\ IsOpen(lot)
     /\ StrategyOf[s] = "lot_take_profit" => lot.remaining = lot.total
     /\ sellQty' = [sellQty EXCEPT ![s] = ExitQty(StrategyOf[s], lot)]
  /\ log' = Append(log, Recorded(s))
  /\ UNCHANGED <<found, acted, stale, audit, orders, position, lots, cash,
                 switches, crashes, lossReached, clock>>

\* A pending signal becomes older than max_signal_age_seconds.
SignalAges(s) ==
  /\ MaxSignalAge
  /\ IsPending(s)
  /\ s \notin stale
  /\ Mishaps < MaxMishaps
  /\ stale' = stale \union {s}
  /\ UNCHANGED <<found, log, acted, sellQty, audit, orders, position, lots,
                 cash, switches, crashes, lossReached, clock>>

\* StaleExecutionSignalCleanupService, one stale trigger: it is marked acted
\* and an audit row of its own, unacted, joins the table.
CleanupStaleSignal(s) ==
  /\ IsPending(s)
  /\ s \in stale
  /\ StrategyOf[s] \in BuyTriggers \union SellTriggers
  /\ clock # "next_day"
  /\ acted' = acted \union {s}
  /\ log' = Append(log, CleanupAudit(s))
  /\ UNCHANGED <<found, stale, sellQty, audit, orders, position, lots, cash,
                 switches, crashes, lossReached, clock>>

\* scripts/set_kill_switch.py
SetKillSwitch(on) ==
  /\ killSwitch # on
  /\ Mishaps < MaxMishaps
  /\ switches' = switches + 1
  /\ UNCHANGED <<found, log, acted, stale, sellQty, audit, orders, position,
                 lots, cash, crashes, lossReached, clock>>

\* The executions booked today make the realised loss reach max_daily_loss.
LossReached ==
  /\ ~lossReached
  /\ \E i \in 1..Len(orders) : orders[i].side = "sell" /\ orders[i].booked > 0
  /\ lossReached' = TRUE
  /\ UNCHANGED <<found, log, acted, stale, sellQty, audit, orders, position,
                 lots, cash, switches, crashes, clock>>

TimePasses ==
  /\ \E i \in 1..(Len(Periods) - 1) :
       clock = Periods[i] /\ clock' = Periods[i + 1]
  /\ UNCHANGED <<found, log, acted, stale, sellQty, audit, orders, position,
                 lots, cash, switches, crashes, lossReached>>

-----------------------------------------------------------------------------
(* The broker                                                              *)

Orders(side, x) ==
  {i \in 1..Len(orders) : orders[i].side = side /\ orders[i].symbol = x}
Filled(S) == SumFunctionOnSet([i \in DOMAIN orders |-> orders[i].filled], S)

\* The exchange may still execute the order.
BrokerOpen(i) == orders[i].broker = "working" /\ orders[i].filled < orders[i].qty

\* What is left of the order, and what a buy order of the size costs.
Rest(i) == orders[i].qty - orders[i].filled
Worth(i, n) == n * Price[orders[i].symbol]

\* The shares of x the account may still offer: those it holds, less those its
\* working sell orders offer already.
Sellable(x) ==
  InitPosition[x] + Filled(Orders("buy", x)) - Filled(Orders("sell", x))
    - SumFunctionOnSet([i \in DOMAIN orders |-> Rest(i)],
                       {i \in Orders("sell", x) : BrokerOpen(i)})

\* The broker takes an order the account can pay, or has the shares for.
Acceptable(i) ==
  IF orders[i].side = "buy" THEN Worth(i, orders[i].qty) <= cash
  ELSE orders[i].qty <= Sellable(orders[i].symbol)

\* n more shares of the order are executed.
Fill(i, n) ==
  /\ BrokerOpen(i)
  /\ n \in 1..Rest(i)
  /\ orders' = [orders EXCEPT ![i].filled = @ + n]
  /\ cash' = IF orders[i].side = "sell" THEN cash + Worth(i, n) ELSE cash
  /\ UNCHANGED <<found, log, acted, stale, sellQty, audit, position, lots,
                 switches, crashes, lossReached, clock>>

\* What is left of the order is cancelled: by the stale cancels of the
\* program, by the owner of the account or by the exchange.
BrokerCancels(i) ==
  /\ BrokerOpen(i)
  /\ orders' = [orders EXCEPT ![i].broker = "cancelled"]
  /\ cash' = IF orders[i].side = "buy" THEN cash + Worth(i, Rest(i)) ELSE cash
  /\ UNCHANGED <<found, log, acted, stale, sellQty, audit, position, lots,
                 switches, crashes, lossReached, clock>>

-----------------------------------------------------------------------------
(* The local tables follow: maintenance, cancels and imports               *)

\* mark_cancelled, by the transaction behind a cancel, the sync or the recovery
\* (OrderLedger says when each of them comes to it): the order has a number.
\* Fills that are not imported yet come late.
MarkCancelled(i) ==
  /\ orders[i].status \in {"SUBMITTED", "PARTIAL"}
  /\ orders[i].numbered
  /\ orders[i].broker = "cancelled"
  /\ orders' = [orders EXCEPT ![i].status = "CANCELLED",
                              ![i].late = orders[i].booked < orders[i].filled]
  /\ UNCHANGED <<found, log, acted, stale, sellQty, audit, position, lots,
                 cash, switches, crashes, lossReached, clock>>

\* apply_buy_execution: one lot per order, which grows with every import and
\* which nothing can be added to once it is closed.
LotsAfterBuy(i, n) ==
  LET own == {l \in 1..Len(lots) : lots[l].order = i} IN
  IF own = {}
  THEN {Append(lots,
          Lot(orders[i].symbol, StrategyOf[orders[i].signal], n, n, i))}
  ELSE {[lots EXCEPT ![l].total = @ + n, ![l].remaining = @ + n] :
          l \in {k \in own : IsOpen(lots[k])}}

\* The lot a lot-level sell order names, through the audit row that mentions
\* the order.
AuditedLot(i) ==
  {LotOf[a.signal] : a \in {b \in audit : b.order = i}}

\* An execution of a lot-level sell order reduces its lot, and cannot be
\* imported before its audit row exists; one of a position-level order reduces
\* no lot.
LotsAfterSell(i, n) ==
  IF StrategyOf[orders[i].signal] \in PositionExits THEN {lots}
  ELSE {[lots EXCEPT ![l].remaining = @ - n] :
          l \in {k \in AuditedLot(i) : n <= lots[k].remaining}}

IMPORTABLE_STATUSES == {"SUBMITTED", "UNKNOWN", "PARTIAL", "CANCELLED"}

\* _project_status
StatusAfterImport(i, n) ==
  CASE orders[i].status = "CANCELLED" -> "CANCELLED"
    [] orders[i].status # "CANCELLED" /\ orders[i].booked + n = orders[i].qty -> "FILLED"
    [] OTHER -> "PARTIAL"

\* ManualExecutionImportService: n executed shares are booked to the order, the
\* position and the lot, in one transaction.
Import(i, n) ==
  LET o == orders[i] IN
  /\ o.status \in IMPORTABLE_STATUSES
  /\ n \in 1..(o.filled - o.booked)
  /\ orders' = [orders EXCEPT ![i].booked = @ + n,
                              ![i].status = StatusAfterImport(i, n)]
  /\ \/ /\ o.side = "buy"
        /\ position' = [position EXCEPT ![o.symbol] = @ + n]
        /\ lots' \in LotsAfterBuy(i, n)
     \/ /\ o.side = "sell"
        /\ n <= position[o.symbol]
        /\ position' = [position EXCEPT ![o.symbol] = @ - n]
        /\ lots' \in LotsAfterSell(i, n)
  /\ UNCHANGED <<found, log, acted, stale, sellQty, audit, cash, switches,
                 crashes, lossReached, clock>>

OrderMoves(i) ==
  \/ \E n \in 1..Rest(i) : Fill(i, n)
  \/ BrokerCancels(i)
  \/ MarkCancelled(i)
  \/ \E n \in 1..orders[i].filled : Import(i, n)

Environment ==
  \/ \E s \in Signals :
       \/ RecordSignal(s)
       \/ RecordPositionExit(s)
       \/ RecordLotExit(s)
       \/ SignalAges(s)
       \/ CleanupStaleSignal(s)
  \/ \E on \in BOOLEAN : SetKillSwitch(on)
  \/ LossReached
  \/ TimePasses
  \/ \E i \in 1..Len(orders) : OrderMoves(i)
=============================================================================
