---------------------------- MODULE PositionLedger ----------------------------
(***************************************************************************)
(* How fills at the broker become positions and entry lots: the manual     *)
(* import of executions, the finalisation of recovered orders with its     *)
(* checks of the lots, the audit row that ties a lot-level sell to its     *)
(* lot, and the reconciliation of positions with the broker's balance,     *)
(* which runs beside all of that under no lock.                            *)
(*                                                                         *)
(* OrderLedger follows one order through every reply of the broker; here   *)
(* an order that exists was taken, and the subject is what several orders  *)
(* of a symbol do to its position and its lots.  An operator imports what  *)
(* the broker reports missing, in one row or in several, at the actual     *)
(* prices.                                                                 *)
(***************************************************************************)
EXTENDS OrderStatus, Integers, FiniteSets, Functions

CONSTANTS
  Orders,
  Symbols,
  SymbolOf,       \* SymbolOf[o] is the symbol of order o
  KindOf,         \* KindOf[o]: what strategy placed order o
  BuyQty,         \* BuyQty[o] is the quantity of a buy order
  Prices,         \* the prices executions may have
  NoLot,
  MaxOutside,     \* bound on the trades made outside this program
  MaxCrashes,     \* bound on the crashes before an audit row is written
  MaxReconciles   \* bound on the reconciliations that read the balance

ASSUME PositionAssumption ==
  /\ IsFiniteSet(Orders)
  /\ SymbolOf \in [Orders -> Symbols]
  /\ KindOf \in [Orders -> {"buy", "timing2_buy", "lot_sell", "sell"}]
  /\ BuyQty \in [Orders -> Nat \ {0}]
  /\ Prices \subseteq Nat \ {0}
  /\ NoLot \notin Orders
  /\ {MaxOutside, MaxCrashes, MaxReconciles} \subseteq Nat

VARIABLES
  orders,         \* the orders table, with what the broker knows of each order
  position,       \* the positions table: quantity and average price
  lots,           \* the entry_lots table, by entry order
  audit,          \* the sell execution audits, by order
  broker,         \* broker[x]: shares of x in the account
  outside,        \* outside[x]: shares traded outside and not adopted yet
  reconcile,      \* where the reconciliation stands and what it has read
  doubtful,       \* history: a reconciliation has met fills not yet imported
  trades,         \* how many trades were made outside
  crashes         \* how many sell passes died before their audit row

vars == <<orders, position, lots, audit, broker, outside, reconcile, doubtful,
          trades, crashes>>

Buys == {o \in Orders : KindOf[o] \in {"buy", "timing2_buy"}}
LotSells == {o \in Orders : KindOf[o] = "lot_sell"}
SideOf(o) == IF o \in Buys THEN "buy" ELSE "sell"

\* An order row, and the order at the broker: its fills so far, whether the
\* rest can still fill; imported shares, what they cost and in how many rows.
NoOrder == [status |-> "none", qty |-> 0, filled |-> 0, open |-> FALSE,
            imported |-> 0, notional |-> 0, rows |-> 0, lot |-> NoLot]

EmptyLot == [total |-> 0, remaining |-> 0, sold |-> 0, avg |-> 0]
NoAudit == [lot |-> NoLot, remaining |-> 0, sold |-> 0]

ReconcileIdle == [pc |-> "idle", allowed |-> FALSE, balance |-> {},
                  outside |-> [x \in Symbols |-> 0], diffs |-> {},
                  dirty |-> FALSE, outcome |-> "none", count |-> 0]

Init ==
  /\ orders = [o \in Orders |-> NoOrder]
  /\ position = [x \in Symbols |-> [qty |-> 0, avg |-> 0]]
  /\ lots = [o \in Buys |-> EmptyLot]
  /\ audit = [o \in LotSells |-> NoAudit]
  /\ broker = [x \in Symbols |-> 0]
  /\ outside = [x \in Symbols |-> 0]
  /\ reconcile = ReconcileIdle
  /\ doubtful = FALSE
  /\ trades = 0
  /\ crashes = 0

IsUnresolved(o) == orders[o].status \in UNRESOLVED_DB_ORDER_STATUSES
UnresolvedOrders == {o \in Orders : IsUnresolved(o)}
Missing(o) == orders[o].filled - orders[o].imported

IsOpenLot(l) == lots[l].remaining > 0
IsClosedLot(l) == lots[l].total > 0 /\ lots[l].remaining = 0
OpenLots(x) == {l \in Buys : SymbolOf[l] = x /\ IsOpenLot(l)}

\* (total_notional + total_qty // 2) // total_qty: a half is rounded up.
RoundedAverage(notional, qty) == (notional + qty \div 2) \div qty

\* Python's round() of a quotient: a half goes to the even neighbour.
RoundHalfEven(notional, qty) ==
  LET q == notional \div qty
      twice == 2 * (notional % qty)
  IN IF twice > qty \/ (twice = qty /\ q % 2 = 1) THEN q + 1 ELSE q

-----------------------------------------------------------------------------
(* Orders are placed, fill and end at the broker                           *)

Placed(o, qty, lot) ==
  orders' = [orders EXCEPT ![o] =
    [NoOrder EXCEPT !.status = "SUBMITTED", !.qty = qty, !.open = TRUE,
                    !.lot = lot]]

\* UNRESOLVED_BUY_ORDER_EXISTS, UNRESOLVED_SELL_ORDER_EXISTS
NoneInFlight(o) ==
  \A p \in UnresolvedOrders :
    SymbolOf[p] # SymbolOf[o] \/ SideOf(p) # SideOf(o)

PlaceBuy(o) ==
  /\ o \in Buys
  /\ orders[o].status = "none"
  /\ NoneInFlight(o)
  /\ Placed(o, BuyQty[o], NoLot)
  /\ UNCHANGED <<position, lots, audit, broker, outside, reconcile, doubtful,
                 trades, crashes>>

\* A lot-level sell of the rest of a lot, or of half of a whole one.
PlaceLotSell(o, l) ==
  /\ o \in LotSells
  /\ orders[o].status = "none"
  /\ l \in OpenLots(SymbolOf[o])
  /\ NoneInFlight(o)
  /\ \E qty \in {lots[l].remaining} \union
         {(k + 1) \div 2 : k \in {lots[l].total} \intersect {lots[l].remaining}} :
       /\ qty <= position[SymbolOf[o]].qty
       /\ Placed(o, qty, l)
  /\ UNCHANGED <<position, lots, audit, broker, outside, reconcile, doubtful,
                 trades, crashes>>

PlacePositionSell(o) ==
  /\ KindOf[o] = "sell"
  /\ orders[o].status = "none"
  /\ position[SymbolOf[o]].qty > 0
  /\ NoneInFlight(o)
  /\ Placed(o, position[SymbolOf[o]].qty, NoLot)
  /\ UNCHANGED <<position, lots, audit, broker, outside, reconcile, doubtful,
                 trades, crashes>>

\* _build_lot_audit_payload: what the lot holds once the order was answered.
WriteAudit(o) ==
  /\ o \in LotSells
  /\ orders[o].lot # NoLot
  /\ audit[o].lot = NoLot
  /\ audit' = [audit EXCEPT ![o] =
       [lot |-> orders[o].lot, remaining |-> lots[orders[o].lot].remaining,
        sold |-> lots[orders[o].lot].sold]]
  /\ UNCHANGED <<orders, position, lots, broker, outside, reconcile, doubtful,
                 trades, crashes>>

\* The sell pass dies between the order and its audit row; the row is never
\* written, and nothing else names the lot of the order.
CrashBeforeAudit(o) ==
  /\ o \in LotSells
  /\ crashes < MaxCrashes
  /\ orders[o].lot # NoLot
  /\ audit[o].lot = NoLot
  /\ orders' = [orders EXCEPT ![o].lot = NoLot]
  /\ crashes' = crashes + 1
  /\ UNCHANGED <<position, lots, audit, broker, outside, reconcile, doubtful,
                 trades>>

\* Any move of a fill while a reconciliation is under way.
Dirty == [reconcile EXCEPT !.dirty = @ \/ reconcile.pc # "idle"]

BrokerFill(o) ==
  LET x == SymbolOf[o] IN
  /\ orders[o].open
  /\ SideOf(o) = "sell" => broker[x] > 0
  /\ orders' = [orders EXCEPT ![o].filled = @ + 1,
                  ![o].open = orders[o].filled + 1 < orders[o].qty]
  /\ broker' = [broker EXCEPT ![x] = IF SideOf(o) = "buy" THEN @ + 1 ELSE @ - 1]
  /\ reconcile' = Dirty
  /\ UNCHANGED <<position, lots, audit, outside, doubtful, trades, crashes>>

\* The market closes, or the order is cancelled outside the program.
BrokerEnds(o) ==
  /\ orders[o].open
  /\ orders' = [orders EXCEPT ![o].open = FALSE]
  /\ UNCHANGED <<position, lots, audit, broker, outside, reconcile, doubtful,
                 trades, crashes>>

\* A stale order is cancelled, whatever of it has filled unseen.
CancelStale(o) ==
  /\ orders[o].open
  /\ orders[o].status \in {"SUBMITTED", "PARTIAL"}
  /\ orders' = [orders EXCEPT ![o].open = FALSE, ![o].status = "CANCELLED"]
  /\ UNCHANGED <<position, lots, audit, broker, outside, reconcile, doubtful,
                 trades, crashes>>

\* A share bought or sold by hand.
TradeOutside(x) ==
  /\ trades < MaxOutside
  /\ trades' = trades + 1
  /\ \E n \in {-1, 1} :
       /\ broker[x] + n >= 0
       /\ broker' = [broker EXCEPT ![x] = @ + n]
       /\ outside' = [outside EXCEPT ![x] = @ + n]
  /\ UNCHANGED <<orders, position, lots, audit, reconcile, doubtful, crashes>>

-----------------------------------------------------------------------------
(* The recovery review and the import draft                                *)

\* _resolve_manual_reason_code, and what the recovery review recommends.
ManualReason(o) ==
  CASE orders[o].rows = 0 -> "LOCAL_EXECUTIONS_MISSING"
    [] orders[o].rows > 0 /\ Missing(o) # 0 -> "LOCAL_BROKER_FILLED_QTY_MISMATCH"
    [] OTHER -> "ENTRY_LOT_MISMATCH"

Recommendation(reason) ==
  CASE reason = "LOCAL_EXECUTIONS_MISSING" -> "IMPORT_MISSING_EXECUTIONS"
    [] reason = "LOCAL_BROKER_FILLED_QTY_MISMATCH" -> "RECONCILE_EXECUTION_QTY"
    [] OTHER -> "REVIEW_ORDER_MANUALLY"

\* Mutant of DraftQty: it offers what the broker has filled.
DraftQtyFilled(o) ==
  IF Recommendation(ManualReason(o)) = "REVIEW_ORDER_MANUALLY" THEN 0
  ELSE orders[o].filled

\* The import draft offers only what the broker has and the ledger has not.
DraftQty(o) ==
  IF Recommendation(ManualReason(o)) = "REVIEW_ORDER_MANUALLY" THEN 0
  ELSE Missing(o)

\* An order that left the sync pass is looked up by hand.
Offered(o) == IF IsUnresolved(o) THEN DraftQty(o) ELSE Missing(o)

-----------------------------------------------------------------------------
(* services/manual_execution_import_service.py                             *)

ImportableStatuses == {"SUBMITTED", "UNKNOWN", "PARTIAL", "CANCELLED"}

\* PositionRepository.apply_execution
Booked(pos, side, n, price) ==
  CASE side = "buy" ->
         [qty |-> pos.qty + n,
          avg |-> IF pos.qty = 0 THEN price
                  ELSE RoundHalfEven(pos.qty * pos.avg + n * price, pos.qty + n)]
    [] side = "sell" ->
         [qty |-> pos.qty - n, avg |-> IF pos.qty = n THEN 0 ELSE pos.avg]

\* EntryLotRepository.apply_buy_execution: the fills of an order share a lot.
LotAfterBuy(lot, n, price) ==
  [lot EXCEPT !.total = @ + n, !.remaining = @ + n,
              !.avg = RoundedAverage(lot.total * @ + n * price, lot.total + n)]

\* apply_sell_to_lot
LotAfterSell(lot, n) == [lot EXCEPT !.remaining = @ - n, !.sold = @ + n]

\* Mutant of LotImport: a cancelled order moves the position only.
LotImportOfLive(o, n, price) ==
  CASE orders[o].status = "CANCELLED" -> {lots}
    [] orders[o].status # "CANCELLED" /\ o \in Buys ->
         {[lots EXCEPT ![o] = LotAfterBuy(@, n, price)]}
    [] OTHER -> {[lots EXCEPT ![l] = LotAfterSell(@, n)] :
                   l \in {audit[k].lot : k \in {o} \intersect LotSells} \ {NoLot}}

\* The entry lots after the import, none when a lot refuses it: a closed lot
\* takes no more shares, and a lot-level sell needs its audit and an open lot
\* that still holds as much.  Any other sell changes no lot.
LotImport(o, n, price) ==
  CASE o \in Buys /\ ~IsClosedLot(o) ->
         {[lots EXCEPT ![o] = LotAfterBuy(@, n, price)]}
    [] o \in Buys /\ IsClosedLot(o) -> {}
    [] o \in LotSells ->
         {[lots EXCEPT ![l] = LotAfterSell(@, n)] :
            l \in {k \in {audit[o].lot} \ {NoLot} : n <= lots[k].remaining}}
    [] OTHER -> {lots}

\* _evaluate_item: a cancelled order keeps a remainder.
Importable(o, n) ==
  /\ orders[o].status \in ImportableStatuses
  /\ orders[o].imported + n <= orders[o].qty
  /\ orders[o].status = "CANCELLED" => orders[o].imported + n < orders[o].qty

\* The status sync_execution_summary leaves.
StatusAfterImport(o, n) ==
  CASE orders[o].status = "CANCELLED" -> "CANCELLED"
    [] orders[o].status # "CANCELLED" /\ orders[o].imported + n = orders[o].qty ->
         "FILLED"
    [] OTHER -> "PARTIAL"

\* _apply_import, one transaction: the execution row, the position, the lot and
\* the order.
ImportExecution(o, n, price) ==
  LET x == SymbolOf[o] IN
  /\ n \in 1..Offered(o)
  /\ Importable(o, n)
  /\ SideOf(o) = "sell" => n <= position[x].qty
  /\ lots' \in LotImport(o, n, price)
  /\ position' = [position EXCEPT ![x] = Booked(@, SideOf(o), n, price)]
  /\ orders' = [orders EXCEPT ![o].imported = @ + n, ![o].rows = @ + 1,
                  ![o].notional = @ + n * price,
                  ![o].status = StatusAfterImport(o, n)]
  /\ reconcile' = Dirty
  /\ UNCHANGED <<audit, broker, outside, doubtful, trades, crashes>>

-----------------------------------------------------------------------------
(* services/execution_recovery_finalize_service.py                         *)

\* What the sync pass hands over: the status of the order inquiry.
BrokerStatus(o) ==
  BrokerOrderStatus(orders[o].qty, orders[o].filled,
                    ~orders[o].open /\ orders[o].filled < orders[o].qty)

\* Mutant of TargetStatus: an order cancelled after a fill is left alone.
TargetStatusOfFills(o) ==
  IF orders[o].rows > 0 /\ Missing(o) = 0 /\ BrokerStatus(o) = "FILLED"
  THEN "FILLED" ELSE "none"

\* _resolve_target_status: "none" unless local executions and the broker agree
\* on a quantity that fits the status.
TargetStatus(o) ==
  IF orders[o].rows = 0 \/ Missing(o) # 0 THEN "none"
  ELSE CASE BrokerStatus(o) = "FILLED" -> "FILLED"
         [] BrokerStatus(o) = "PARTIAL" -> "PARTIAL"
         [] BrokerStatus(o) = "CANCELLED" -> "CANCELLED"
         [] OTHER -> "none"

\* _resolve_timing2_buy_lot_block: the lot is compared with the executions.
BuyLotAgrees(o) ==
  KindOf[o] = "timing2_buy" =>
    /\ lots[o].total = orders[o].imported
    /\ lots[o].avg = RoundedAverage(orders[o].notional, orders[o].imported)

\* _resolve_timing2_lot_sell_block: the lot is what the audit row remembers,
\* less the executions of this order.
SellLotAgrees(o) ==
  o \in LotSells =>
    /\ audit[o].lot # NoLot
    /\ orders[o].imported <= audit[o].remaining
    /\ lots[audit[o].lot].remaining = audit[o].remaining - orders[o].imported
    /\ lots[audit[o].lot].sold = audit[o].sold + orders[o].imported

Recoverable(o) == TargetStatus(o) # "none" /\ BuyLotAgrees(o) /\ SellLotAgrees(o)

\* _apply_recovery
Finalize(o) ==
  /\ IsUnresolved(o)
  /\ Recoverable(o)
  /\ orders' = [orders EXCEPT ![o].status = TargetStatus(o)]
  /\ UNCHANGED <<position, lots, audit, broker, outside, reconcile, doubtful,
                 trades, crashes>>

\* UnresolvedOrderSyncService marks an order that ended without a fill.
SyncCancelled(o) ==
  /\ IsUnresolved(o)
  /\ BrokerStatus(o) = "CANCELLED"
  /\ orders[o].filled = 0
  /\ orders' = [orders EXCEPT ![o].status = "CANCELLED"]
  /\ UNCHANGED <<position, lots, audit, broker, outside, reconcile, doubtful,
                 trades, crashes>>

-----------------------------------------------------------------------------
(* services/reconcile_service.py                                           *)

Finish(outcome) ==
  [ReconcileIdle EXCEPT !.outcome = outcome, !.count = reconcile.count]

\* Mutant of Blocked: only orders without any execution block.
BlockedByUntouched ==
  \E o \in UnresolvedOrders : orders[o].status = "SUBMITTED"

\* UNRESOLVED_ORDERS_EXIST
Blocked == UnresolvedOrders # {}

\* The gate: allow_unresolved_orders lets the reconciliation go on regardless.
ReconcileGate(allow) ==
  /\ reconcile.pc = "idle"
  /\ reconcile.count < MaxReconciles
  /\ reconcile' =
       IF Blocked /\ ~allow THEN Finish("BLOCKED")
       ELSE [ReconcileIdle EXCEPT !.pc = "balance", !.allowed = allow,
                                  !.count = reconcile.count + 1]
  /\ UNCHANGED <<orders, position, lots, audit, broker, outside, doubtful,
                 trades, crashes>>

\* The balance inquiry, outside any transaction.  The broker's average is its
\* own: any of the prices.
ReconcileBalance ==
  /\ reconcile.pc = "balance"
  /\ \E avg \in [Symbols -> Prices] :
       reconcile' = [reconcile EXCEPT !.pc = "diff", !.outside = outside,
         !.balance = [x \in Symbols |->
           [qty |-> broker[x], avg |-> IF broker[x] = 0 THEN 0 ELSE avg[x]]]]
  /\ UNCHANGED <<orders, position, lots, audit, broker, outside, doubtful,
                 trades, crashes>>

\* _compute_diffs: quantity and average both count.
Diffs == {x \in Symbols : position[x] # reconcile.balance[x]}

\* OPEN_ENTRY_LOT_POSITION_MISMATCH: one symbol stops all of them.
LotConflict == \E x \in Diffs : OpenLots(x) # {}

ReconcileDiff ==
  /\ reconcile.pc = "diff"
  /\ reconcile' = CASE LotConflict -> Finish("BLOCKED")
                    [] ~LotConflict /\ Diffs = {} -> Finish("RECONCILED")
                    [] OTHER -> [reconcile EXCEPT !.pc = "write",
                                                  !.diffs = Diffs]
  /\ UNCHANGED <<orders, position, lots, audit, broker, outside, doubtful,
                 trades, crashes>>

\* Fills the reconciliation adopts with the balance and the import will book
\* again: of an order that ended before, of one placed since the gate, or of
\* one that allow_unresolved_orders has let pass.
Doubt ==
  \/ reconcile.dirty
  \/ \E o \in Orders : Missing(o) > 0 /\ (reconcile.allowed \/ ~IsUnresolved(o))

\* upsert_from_broker or clear for every difference, in one transaction.
ReconcileWrite ==
  /\ reconcile.pc = "write"
  /\ position' = [x \in Symbols |-> IF x \in reconcile.diffs
                                    THEN reconcile.balance[x] ELSE position[x]]
  /\ outside' = [x \in Symbols |-> IF x \in reconcile.diffs
                    THEN outside[x] - reconcile.outside[x] ELSE outside[x]]
  /\ doubtful' = (doubtful \/ Doubt)
  /\ reconcile' = Finish("RECONCILED")
  /\ UNCHANGED <<orders, lots, audit, broker, trades, crashes>>

-----------------------------------------------------------------------------

Next ==
  \/ \E o \in Orders :
       \/ PlaceBuy(o)
       \/ \E l \in Buys : PlaceLotSell(o, l)
       \/ PlacePositionSell(o)
       \/ WriteAudit(o)
       \/ CrashBeforeAudit(o)
       \/ BrokerFill(o)
       \/ BrokerEnds(o)
       \/ CancelStale(o)
       \/ \E n \in 1..orders[o].qty, price \in Prices : ImportExecution(o, n, price)
       \/ Finalize(o)
       \/ SyncCancelled(o)
  \/ \E x \in Symbols : TradeOutside(x)
  \/ \E allow \in BOOLEAN : ReconcileGate(allow)
  \/ ReconcileBalance
  \/ ReconcileDiff
  \/ ReconcileWrite

Spec == Init /\ [][Next]_vars

-----------------------------------------------------------------------------
(* Properties                                                              *)

MissingOf(x, side) ==
  SumFunctionOnSet([o \in Orders |-> Missing(o)],
                   {o \in Orders : SymbolOf[o] = x /\ SideOf(o) = side})
RemainingOf(x) == SumFunctionOnSet([l \in Buys |-> lots[l].remaining], OpenLots(x))

\* Type invariant.
TypeOK ==
  /\ \A o \in Orders :
       /\ orders[o].status \in DbOrderStatus \union {"none"}
       /\ orders[o].filled \in 0..orders[o].qty
       /\ orders[o].imported \in 0..orders[o].filled
  /\ \A x \in Symbols : position[x].qty \in Nat
  /\ \A l \in Buys : lots[l].remaining \in 0..lots[l].total
  /\ reconcile.pc \in {"idle", "balance", "diff", "write"}

\* Whatever is traded, filled, imported and reconciled in whatever order, the
\* position plus what is still to be imported and adopted is what the account
\* holds; only a reconciliation that ran into fills nobody had imported breaks
\* this, and the gate on unresolved orders keeps the others out.
AccountsAgree ==
  ~doubtful =>
    \A x \in Symbols :
      position[x].qty + MissingOf(x, "buy") - MissingOf(x, "sell") + outside[x]
        = broker[x]

\* The lot of a buy order holds every share imported for it and not sold by a
\* lot-level order, also when the order was cancelled before its fills came in;
\* and the position covers its open lots: a reconciliation never takes the
\* shares of an open lot away.  A position-level sell may, for it reduces no lot.
LotsAgree ==
  /\ \A l \in Buys :
       /\ lots[l].total = orders[l].imported
       /\ lots[l].sold =
            SumFunctionOnSet([o \in Orders |-> orders[o].imported],
                             {o \in LotSells : audit[o].lot = l})
       /\ lots[l].remaining = lots[l].total - lots[l].sold
  /\ ~doubtful =>
    \A x \in Symbols :
      \/ \E o \in Orders : /\ SymbolOf[o] = x /\ KindOf[o] = "sell"
                           /\ orders[o].imported > 0
      \/ RemainingOf(x) <= position[x].qty

\* An unresolved order that has ended at the broker can still be resolved: a
\* fill is left to import, or the recovery or the sync would finish it.
Resolvable(o) ==
  \/ Recoverable(o)
  \/ BrokerStatus(o) = "CANCELLED" /\ orders[o].filled = 0
  \/ /\ Missing(o) > 0
     /\ Importable(o, 1)
     /\ LotImport(o, 1, 1) # {}
     /\ SideOf(o) = "sell" => position[SymbolOf[o]].qty > 0

Ended(o) == IsUnresolved(o) /\ ~orders[o].open

\* Why an order may be stuck: its audit row was lost, its lot was sold before
\* its last fills came in, its lot moved while it was under way or before its
\* audit row was written, three rows were averaged in turn, or it sold shares
\* that the ledger has not booked yet.
LotMoved(o) ==
  /\ o \in LotSells
  /\ audit[o].lot # NoLot
  /\ \/ lots[audit[o].lot].sold # audit[o].sold + orders[o].imported
     \/ lots[audit[o].lot].total # audit[o].remaining + audit[o].sold
     \/ audit[o].remaining < orders[o].qty
StuckFor(o) ==
  \/ o \in LotSells /\ audit[o].lot = NoLot
  \/ o \in Buys /\ IsClosedLot(o)
  \/ LotMoved(o)
  \/ orders[o].rows > 2
  \/ /\ SideOf(o) = "sell"
     /\ outside[SymbolOf[o]] > 0 \/ MissingOf(SymbolOf[o], "buy") > 0

\* Every unresolved order that has ended can be resolved by the programs of the
\* repository, except for the reasons above.
StuckOnlyForAReason ==
  ~doubtful =>
    \A o \in Orders : Ended(o) => Resolvable(o) \/ StuckFor(o)

=============================================================================
