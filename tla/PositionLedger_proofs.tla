------------------------ MODULE PositionLedger_proofs ------------------------
(***************************************************************************)
(* Proofs about PositionLedger, for any number of orders, symbols, prices, *)
(* trades outside, crashes and reconciliations.                            *)
(*                                                                         *)
(* The inductive invariant says of every symbol what its position, the     *)
(* fills to import and the trades to adopt come to, of every lot what the  *)
(* imports made of it, and of a reconciliation under way what its old      *)
(* balance still says of the account.                                      *)
(***************************************************************************)
EXTENDS PositionLedger, Sums_proofs

-----------------------------------------------------------------------------
(* The inductive invariant                                                 *)

Statuses == {"none", "SUBMITTED", "PARTIAL", "FILLED", "CANCELLED"}
OrderRow ==
  [status : Statuses, qty : Nat, filled : Nat, open : BOOLEAN, imported : Nat,
   notional : Nat, rows : Nat, lot : Buys \union {NoLot}]
LotRow == [total : Nat, remaining : Nat, sold : Nat, avg : Nat]
AuditRow == [lot : Buys \union {NoLot}, remaining : Nat, sold : Nat]

Typed ==
  /\ orders \in [Orders -> OrderRow]
  /\ DOMAIN position = Symbols /\ \A x \in Symbols : position[x].qty \in Nat
  /\ lots \in [Buys -> LotRow]
  /\ audit \in [LotSells -> AuditRow]
  /\ broker \in [Symbols -> Nat]
  /\ outside \in [Symbols -> Int]
  /\ doubtful \in BOOLEAN

OrdersSound ==
  \A o \in Orders :
    /\ orders[o].filled <= orders[o].qty /\ orders[o].imported <= orders[o].filled
    /\ orders[o].open => orders[o].filled < orders[o].qty
    /\ orders[o].status = "none" => orders[o] = NoOrder
    /\ orders[o].status # "none" => orders[o].qty > 0
    /\ orders[o].rows = 0 <=> orders[o].imported = 0
    /\ orders[o].rows = 0 => orders[o].notional = 0
    /\ orders[o].lot # NoLot => o \in LotSells /\ SymbolOf[orders[o].lot] = SymbolOf[o]

AuditSound ==
  \A o \in LotSells :
    /\ audit[o].lot = NoLot => orders[o].imported = 0
    /\ audit[o].lot # NoLot => SymbolOf[audit[o].lot] = SymbolOf[o]

\* What the lot-level sells booked of a lot.
SoldOf(l) ==
  SumFunctionOnSet([o \in Orders |-> orders[o].imported],
                   {o \in LotSells : audit[o].lot = l})

LotsSound ==
  \A l \in Buys :
    /\ lots[l].total = orders[l].imported
    /\ lots[l].sold = SoldOf(l)
    /\ lots[l].remaining = lots[l].total - lots[l].sold

\* Up to two rows the average of the lot is that of the executions.
AveragesSound ==
  \A l \in Buys :
    /\ orders[l].rows = 1 => lots[l].avg * lots[l].total = orders[l].notional
    /\ orders[l].rows \in {1, 2} =>
         lots[l].avg = RoundedAverage(orders[l].notional, orders[l].imported)

\* What a symbol has to import, adopt and hold.
Accounts(x) ==
  position[x].qty + MissingOf(x, "buy") - MissingOf(x, "sell") + outside[x] = broker[x]

LotsOf(x) == {l \in Buys : SymbolOf[l] = x}
LotShares(x) == SumFunctionOnSet([l \in Buys |-> lots[l].remaining], LotsOf(x))

SoldAsPosition(x) ==
  \E o \in Orders : SymbolOf[o] = x /\ KindOf[o] = "sell" /\ orders[o].imported > 0

\* A reconciliation that no fill has crossed: its balance is the account less
\* the trades outside since, the gate it passed still holds, and the positions
\* it is about to overwrite have no open lot.
ReconcileSound ==
  /\ DOMAIN reconcile =
       {"pc", "allowed", "balance", "outside", "diffs", "dirty", "outcome", "count"}
  /\ reconcile.pc \in {"idle", "balance", "diff", "write"}
  /\ reconcile.allowed \in BOOLEAN /\ reconcile.dirty \in BOOLEAN
  /\ reconcile.outside \in [Symbols -> Int]
  /\ reconcile.pc \in {"diff", "write"} =>
       \A x \in Symbols : reconcile.balance[x].qty \in Nat
  /\ reconcile.pc \in {"diff", "write"} /\ ~reconcile.dirty =>
       \A x \in Symbols :
         reconcile.balance[x].qty - reconcile.outside[x] = broker[x] - outside[x]
  /\ reconcile.pc # "idle" /\ ~reconcile.dirty /\ ~reconcile.allowed =>
       \A o \in Orders : IsUnresolved(o) => orders[o].filled = 0
  /\ reconcile.pc = "write" /\ ~reconcile.dirty =>
       \A x \in reconcile.diffs : OpenLots(x) = {}

IInv ==
  /\ Typed
  /\ OrdersSound /\ AuditSound /\ LotsSound /\ AveragesSound /\ ReconcileSound
  /\ ~doubtful =>
       \A x \in Symbols : Accounts(x) /\ (SoldAsPosition(x) \/ LotShares(x) <= position[x].qty)

-----------------------------------------------------------------------------
(* Orders, lots and what they add up to                                    *)

LEMMA Constants ==
  /\ IsFiniteSet(Orders) /\ IsFiniteSet(Buys) /\ IsFiniteSet(LotSells)
  /\ Buys \subseteq Orders /\ LotSells \subseteq Orders /\ Buys \intersect LotSells = {}
  /\ SymbolOf \in [Orders -> Symbols] /\ NoLot \notin Orders
  /\ \A o \in Orders : /\ SideOf(o) = "buy" <=> o \in Buys
                       /\ SideOf(o) = "sell" <=> o \notin Buys
                       /\ o \in Buys \/ o \in LotSells \/ KindOf[o] = "sell"
                       /\ KindOf[o] = "sell" => o \notin Buys /\ o \notin LotSells
                       /\ BuyQty[o] \in Nat \ {0}
  /\ Prices \subseteq Nat \ {0}
<1>1. Buys \subseteq Orders /\ LotSells \subseteq Orders /\ Buys \intersect LotSells = {}
  BY DEF Buys, LotSells
<1>2. \A o \in Orders : /\ o \in Buys \/ o \in LotSells \/ KindOf[o] = "sell"
                        /\ KindOf[o] = "sell" => o \notin Buys /\ o \notin LotSells
  BY PositionAssumption DEF Buys, LotSells
<1>. QED  BY <1>1, <1>2, PositionAssumption, FS_Subset DEF SideOf

LEMMA Rows ==
  ASSUME Typed
  PROVE  /\ \A o \in Orders :
              /\ orders[o] \in OrderRow /\ orders[o].status \in Statuses
              /\ orders[o].qty \in Nat /\ orders[o].filled \in Nat /\ orders[o].open \in BOOLEAN
              /\ orders[o].imported \in Nat /\ orders[o].notional \in Nat /\ orders[o].rows \in Nat
              /\ orders[o].lot \in Buys \union {NoLot} /\ Missing(o) \in Int
         /\ \A l \in Buys :
              /\ lots[l] \in LotRow /\ lots[l].total \in Nat /\ lots[l].remaining \in Nat
              /\ lots[l].sold \in Nat /\ lots[l].avg \in Nat
         /\ \A o \in LotSells :
              /\ audit[o] \in AuditRow /\ audit[o].lot \in Buys \union {NoLot}
              /\ audit[o].remaining \in Nat /\ audit[o].sold \in Nat
<1>1. \A o \in Orders : orders[o] \in OrderRow
  BY DEF Typed
<1>2. \A r \in OrderRow : /\ r.status \in Statuses /\ r.qty \in Nat /\ r.filled \in Nat
                          /\ r.open \in BOOLEAN /\ r.imported \in Nat /\ r.notional \in Nat
                          /\ r.rows \in Nat /\ r.lot \in Buys \union {NoLot}
  BY DEF OrderRow
<1>3. \A o \in Orders : Missing(o) \in Int
  BY <1>1, <1>2 DEF Missing
<1>4. \A l \in Buys : lots[l] \in LotRow
  BY DEF Typed
<1>5. \A r \in LotRow : r.total \in Nat /\ r.remaining \in Nat /\ r.sold \in Nat /\ r.avg \in Nat
  BY DEF LotRow
<1>6. \A o \in LotSells : audit[o] \in AuditRow
  BY DEF Typed
<1>7. \A r \in AuditRow : r.lot \in Buys \union {NoLot} /\ r.remaining \in Nat /\ r.sold \in Nat
  BY DEF AuditRow
<1>. QED  BY <1>1, <1>2, <1>3, <1>4, <1>5, <1>6, <1>7

OrdersOf(x, side) == {o \in Orders : SymbolOf[o] = x /\ SideOf(o) = side}

LEMMA MissingSum ==
  /\ \A x, side : /\ OrdersOf(x, side) \in SUBSET Orders /\ IsFiniteSet(OrdersOf(x, side))
                  /\ MissingOf(x, side) = Sum([o \in Orders |-> Missing(o)], OrdersOf(x, side))
BY Constants, FS_Subset DEF OrdersOf, MissingOf, Sum

\* The fills to import of one order change, or of none.
LEMMA MissingMoves ==
  ASSUME Typed, Typed', NEW o \in Orders,
         \A p \in Orders : p # o => Missing(p)' = Missing(p)
  PROVE  \A x, side : LET d == Missing(o)' - Missing(o) IN
           /\ MissingOf(x, side) \in Int /\ MissingOf(x, side)' \in Int
           /\ SymbolOf[o] = x /\ SideOf(o) = side =>
                MissingOf(x, side)' = MissingOf(x, side) + d
           /\ ~(SymbolOf[o] = x /\ SideOf(o) = side) =>
                MissingOf(x, side)' = MissingOf(x, side)
<1>. SUFFICES ASSUME NEW x, NEW side
              PROVE  LET d == Missing(o)' - Missing(o) IN
           /\ MissingOf(x, side) \in Int /\ MissingOf(x, side)' \in Int
           /\ SymbolOf[o] = x /\ SideOf(o) = side =>
                MissingOf(x, side)' = MissingOf(x, side) + d
           /\ ~(SymbolOf[o] = x /\ SideOf(o) = side) =>
                MissingOf(x, side)' = MissingOf(x, side)
  OBVIOUS
<1>1. PICK f : f = [p \in Orders |-> Missing(p)]
  OBVIOUS
<1>2. PICK g : g = [p \in Orders |-> Missing(p)']
  OBVIOUS
<1>3. PICK S : S = OrdersOf(x, side)
  OBVIOUS
<1>4. S \in SUBSET Orders /\ IsFiniteSet(S)
  BY <1>3, MissingSum
<1>5. MissingOf(x, side) = Sum(f, S)
  BY <1>1, <1>3, MissingSum
<1>6. MissingOf(x, side)' = Sum(g, S)
  BY <1>2, <1>3 DEF MissingOf, Sum, OrdersOf, SideOf, Buys
<1>7. \A p \in Orders : f[p] = Missing(p) /\ g[p] = Missing(p)' /\ f[p] \in Int /\ g[p] \in Int
  <2>1. \A p \in Orders : Missing(p) \in Int
    BY Rows
  <2>2. \A p \in Orders : Missing(p)' \in Int
    BY <2>1, Rows DEF Typed, OrderRow, Missing
  <2>. QED  BY <1>1, <1>2, <2>1, <2>2
<1>8. /\ Sum(f, S) \in Int /\ Sum(g, S) \in Int
      /\ o \in S => Sum(g, S) = Sum(f, S) + g[o] - f[o]
      /\ o \notin S => Sum(g, S) = Sum(f, S)
  <2>1. \A p \in S : f[p] \in Int /\ g[p] \in Int /\ (p # o => g[p] = f[p])
    BY <1>4, <1>7
  <2>. QED  BY <1>4, <2>1, SumChange
<1>9. o \in S <=> SymbolOf[o] = x /\ SideOf(o) = side
  BY <1>3 DEF OrdersOf
<1>. QED  BY <1>5, <1>6, <1>7, <1>8, <1>9

LEMMA MissingKept ==
  ASSUME Typed, Typed', \A p \in Orders : Missing(p)' = Missing(p)
  PROVE  \A x, side : MissingOf(x, side)' = MissingOf(x, side) /\ MissingOf(x, side) \in Int
<1>. SUFFICES ASSUME NEW x, NEW side
              PROVE  MissingOf(x, side)' = MissingOf(x, side) /\ MissingOf(x, side) \in Int
  OBVIOUS
<1>1. [p \in Orders |-> Missing(p)'] = [p \in Orders |-> Missing(p)]
  OBVIOUS
<1>2. MissingOf(x, side)' = MissingOf(x, side)
  BY <1>1 DEF MissingOf, SideOf, Buys
<1>3. PICK f : f = [p \in Orders |-> Missing(p)]
  OBVIOUS
<1>4. \A p \in OrdersOf(x, side) : f[p] \in Int
  BY <1>3, Rows DEF OrdersOf
<1>5. Sum(f, OrdersOf(x, side)) \in Int
  BY <1>4, MissingSum, SumSame
<1>. QED  BY <1>2, <1>3, <1>5, MissingSum

-----------------------------------------------------------------------------
(* Steps that book nothing                                                 *)

LEMMA BooksKept ==
  ASSUME IInv, UNCHANGED <<lots, audit>>,
         \A o \in Orders : /\ orders'[o].imported = orders[o].imported
                           /\ orders'[o].rows = orders[o].rows
                           /\ orders'[o].notional = orders[o].notional
  PROVE  /\ AuditSound' /\ LotsSound' /\ AveragesSound'
         /\ \A x : /\ SoldAsPosition(x)' = SoldAsPosition(x) /\ LotShares(x)' = LotShares(x)
                   /\ OpenLots(x)' = OpenLots(x)
<1>1. LotSells' = LotSells /\ Buys' = Buys /\ Buys \subseteq Orders /\ LotSells \subseteq Orders
  BY Constants DEF Buys, LotSells
<1>2. AuditSound'
  BY <1>1 DEF IInv, AuditSound
<1>3. \A l : SoldOf(l)' = SoldOf(l)
  <2>1. [o \in Orders |-> orders'[o].imported] = [o \in Orders |-> orders[o].imported]
    OBVIOUS
  <2>. QED  BY <1>1, <2>1 DEF SoldOf
<1>4. LotsSound'
  BY <1>1, <1>3 DEF IInv, LotsSound
<1>5. AveragesSound'
  BY <1>1 DEF IInv, AveragesSound
<1>6. \A x : SoldAsPosition(x)' = SoldAsPosition(x)
  BY DEF SoldAsPosition
<1>7. \A x : LotShares(x)' = LotShares(x)
  BY <1>1 DEF LotShares, LotsOf
<1>8. \A x : OpenLots(x)' = OpenLots(x)
  BY <1>1 DEF OpenLots, IsOpenLot
<1>. QED  BY <1>2, <1>4, <1>5, <1>6, <1>7, <1>8

\* One order moves on without a fill or a booking.
LEMMA OrderStepKeeps ==
  ASSUME IInv, NEW o \in Orders, NEW r \in OrderRow, orders' = [orders EXCEPT ![o] = r],
         r.filled = orders[o].filled, r.imported = orders[o].imported,
         r.rows = orders[o].rows, r.notional = orders[o].notional,
         r.filled <= r.qty, r.qty > 0, r.open => r.filled < r.qty, r.status # "none",
         r.lot # NoLot => o \in LotSells /\ SymbolOf[r.lot] = SymbolOf[o],
         r.status \in UNRESOLVED_DB_ORDER_STATUSES => IsUnresolved(o) \/ r.filled = 0,
         UNCHANGED <<position, lots, audit, broker, outside, reconcile, doubtful>>
  PROVE  IInv'
<1>1. Typed /\ Typed'
  <2>1. orders' \in [Orders -> OrderRow]
    BY DEF IInv, Typed
  <2>. QED  BY <2>1 DEF IInv, Typed, LotSells, Buys, OrderRow, LotRow, AuditRow
<1>2. orders'[o] = r /\ \A p \in Orders : p # o => orders'[p] = orders[p]
  BY <1>1 DEF Typed
<1>3. \A p \in Orders : /\ orders'[p].imported = orders[p].imported
                        /\ orders'[p].rows = orders[p].rows
                        /\ orders'[p].notional = orders[p].notional
                        /\ orders'[p].filled = orders[p].filled
  BY <1>2
<1>4. /\ AuditSound' /\ LotsSound' /\ AveragesSound'
      /\ \A x : /\ SoldAsPosition(x)' = SoldAsPosition(x) /\ LotShares(x)' = LotShares(x)
                /\ OpenLots(x)' = OpenLots(x)
  BY <1>3, BooksKept
<1>5. OrdersSound'
  <2>1. SUFFICES ASSUME NEW p \in Orders
                 PROVE  /\ orders'[p].filled <= orders'[p].qty
                        /\ orders'[p].imported <= orders'[p].filled
                        /\ orders'[p].open => orders'[p].filled < orders'[p].qty
                        /\ orders'[p].status = "none" => orders'[p] = NoOrder
                        /\ orders'[p].status # "none" => orders'[p].qty > 0
                        /\ orders'[p].rows = 0 <=> orders'[p].imported = 0
                        /\ orders'[p].rows = 0 => orders'[p].notional = 0
                        /\ orders'[p].lot # NoLot =>
                             p \in LotSells /\ SymbolOf[orders'[p].lot] = SymbolOf[p]
    BY DEF OrdersSound, LotSells
  <2>2. CASE p = o
    BY <1>2, <2>2 DEF IInv, OrdersSound
  <2>3. CASE p # o
    BY <1>2, <2>3 DEF IInv, OrdersSound
  <2>. QED  BY <2>2, <2>3
<1>6. ReconcileSound'
  <2>1. \A p \in Orders : IsUnresolved(p)' => IsUnresolved(p) \/ orders'[p].filled = 0
    BY <1>2 DEF IsUnresolved
  <2>2. \A p \in Orders : IsUnresolved(p)' /\ (IsUnresolved(p) => orders[p].filled = 0)
                            => orders'[p].filled = 0
    BY <1>3, <2>1
  <2>. QED  BY <1>4, <2>2 DEF IInv, ReconcileSound
<1>7. \A x : Accounts(x)' = Accounts(x)
  <2>1. \A p \in Orders : Missing(p)' = Missing(p)
    BY <1>3 DEF Missing
  <2>2. \A x, side : MissingOf(x, side)' = MissingOf(x, side)
    BY <1>1, <2>1, MissingKept
  <2>. QED  BY <2>2 DEF Accounts
<1>. QED  BY <1>1, <1>4, <1>5, <1>6, <1>7 DEF IInv

LEMMA PlacedKeeps ==
  ASSUME IInv, NEW o \in Orders, orders[o].status = "none", NEW qty \in Nat \ {0},
         NEW lot \in Buys \union {NoLot},
         lot # NoLot => o \in LotSells /\ SymbolOf[lot] = SymbolOf[o],
         Placed(o, qty, lot),
         UNCHANGED <<position, lots, audit, broker, outside, reconcile, doubtful>>
  PROVE  IInv'
<1>1. PICK r : r = [NoOrder EXCEPT !.status = "SUBMITTED", !.qty = qty, !.open = TRUE, !.lot = lot]
  OBVIOUS
<1>2. r \in OrderRow /\ r.filled = 0 /\ r.imported = 0 /\ r.rows = 0 /\ r.notional = 0
      /\ r.qty = qty /\ r.open = TRUE /\ r.status = "SUBMITTED" /\ r.lot = lot
  BY <1>1 DEF NoOrder, OrderRow, Statuses
<1>3. orders[o].filled = 0 /\ orders[o].imported = 0 /\ orders[o].rows = 0 /\ orders[o].notional = 0
  BY DEF IInv, OrdersSound, NoOrder
<1>4. orders' = [orders EXCEPT ![o] = r]
  BY <1>1 DEF Placed
<1>5. /\ r.filled = orders[o].filled /\ r.imported = orders[o].imported
      /\ r.rows = orders[o].rows /\ r.notional = orders[o].notional
      /\ r.filled <= r.qty /\ r.qty > 0 /\ r.filled < r.qty /\ r.status # "none"
      /\ r.lot # NoLot => o \in LotSells /\ SymbolOf[r.lot] = SymbolOf[o]
  BY <1>2, <1>3
<1>. QED  BY <1>2, <1>4, <1>5, OrderStepKeeps

LEMMA PlaceKeeps ==
  ASSUME IInv, NEW o \in Orders,
         PlaceBuy(o) \/ PlacePositionSell(o) \/ \E l \in Buys : PlaceLotSell(o, l)
  PROVE  IInv'
<1>1. CASE PlaceBuy(o)
  BY <1>1, PlacedKeeps, Constants DEF PlaceBuy
<1>2. CASE PlacePositionSell(o)
  <2>1. position[SymbolOf[o]].qty \in Nat
    BY Constants DEF IInv, Typed
  <2>. QED  BY <1>2, <2>1, PlacedKeeps DEF PlacePositionSell
<1>3. ASSUME NEW l \in Buys, PlaceLotSell(o, l) PROVE IInv'
  <2>1. /\ lots[l].remaining \in Nat /\ lots[l].total \in Nat /\ lots[l].remaining > 0
        /\ SymbolOf[l] = SymbolOf[o] /\ o \in LotSells /\ orders[o].status = "none"
    BY <1>3, Rows DEF IInv, PlaceLotSell, OpenLots, IsOpenLot
  <2>2. PICK qty \in {lots[l].remaining} \union
           {(k + 1) \div 2 : k \in {lots[l].total} \intersect {lots[l].remaining}} :
             Placed(o, qty, l)
    BY <1>3 DEF PlaceLotSell
  <2>3. qty \in Nat \ {0}
    BY <2>1, <2>2
  <2>. QED  BY <1>3, <2>1, <2>2, <2>3, PlacedKeeps DEF PlaceLotSell
<1>. QED  BY <1>1, <1>2, <1>3

\* The order ends at the broker, is cancelled, finalised, or loses its lot.
LEMMA EndsKeep ==
  ASSUME IInv, NEW o \in Orders,
         BrokerEnds(o) \/ CancelStale(o) \/ Finalize(o) \/ SyncCancelled(o) \/ CrashBeforeAudit(o)
  PROVE  IInv'
<1>1. /\ orders[o] \in OrderRow /\ orders \in [Orders -> OrderRow]
      /\ orders[o].filled <= orders[o].qty
      /\ orders[o].open => orders[o].filled < orders[o].qty
      /\ orders[o].lot # NoLot => o \in LotSells /\ SymbolOf[orders[o].lot] = SymbolOf[o]
  BY Rows DEF IInv, OrdersSound, Typed
<1>2. UNCHANGED <<position, lots, audit, broker, outside, reconcile, doubtful>>
  BY DEF BrokerEnds, CancelStale, Finalize, SyncCancelled, CrashBeforeAudit
<1>3. orders[o].status # "none" /\ orders[o].qty > 0
  <2>1. orders[o].open \/ IsUnresolved(o) \/ orders[o].lot # NoLot
    BY DEF BrokerEnds, CancelStale, Finalize, SyncCancelled, CrashBeforeAudit
  <2>2. orders[o].status # "none"
    BY <2>1 DEF IInv, OrdersSound, NoOrder, IsUnresolved, UNRESOLVED_DB_ORDER_STATUSES
  <2>. QED  BY <2>2 DEF IInv, OrdersSound
<1>4. CASE BrokerEnds(o)
  <2>1. PICK r : r = [orders[o] EXCEPT !.open = FALSE]
    OBVIOUS
  <2>2. /\ r \in OrderRow /\ orders' = [orders EXCEPT ![o] = r]
        /\ r.filled = orders[o].filled /\ r.imported = orders[o].imported /\ r.rows = orders[o].rows
        /\ r.notional = orders[o].notional /\ r.qty = orders[o].qty /\ r.lot = orders[o].lot
        /\ r.status = orders[o].status /\ r.open = FALSE
    BY <1>1, <1>4, <2>1 DEF BrokerEnds, OrderRow
  <2>. QED  BY <1>1, <1>2, <1>3, <2>2, OrderStepKeeps DEF IsUnresolved
<1>5. ASSUME NEW st \in Statuses, st # "none", NEW b \in BOOLEAN, b => orders[o].open,
             orders' = [orders EXCEPT ![o] = [orders[o] EXCEPT !.open = b, !.status = st]],
             st \in UNRESOLVED_DB_ORDER_STATUSES => IsUnresolved(o)
      PROVE  IInv'
  <2>1. PICK r : r = [orders[o] EXCEPT !.open = b, !.status = st]
    OBVIOUS
  <2>2. /\ r \in OrderRow /\ orders' = [orders EXCEPT ![o] = r]
        /\ r.filled = orders[o].filled /\ r.imported = orders[o].imported /\ r.rows = orders[o].rows
        /\ r.notional = orders[o].notional /\ r.qty = orders[o].qty /\ r.lot = orders[o].lot
        /\ r.status = st /\ r.open = b
    BY <1>1, <1>5, <2>1 DEF OrderRow
  <2>3. r.open => r.filled < r.qty
    <3>1. r.open => b
      BY <2>2, Zenon
    <3>2. r.open => orders[o].open
      BY <1>5, <3>1, Zenon
    <3>. QED  BY <1>1, <2>2, <3>2
  <2>4. /\ r.filled <= r.qty /\ r.qty > 0 /\ r.status # "none"
        /\ r.lot # NoLot => o \in LotSells /\ SymbolOf[r.lot] = SymbolOf[o]
        /\ r.status \in UNRESOLVED_DB_ORDER_STATUSES => IsUnresolved(o) \/ r.filled = 0
    BY <1>1, <1>3, <1>5, <2>2
  <2>. QED  BY <1>2, <2>2, <2>3, <2>4, OrderStepKeeps
<1>6. CASE CancelStale(o)
  <2>1. orders' = [orders EXCEPT ![o] = [orders[o] EXCEPT !.open = FALSE, !.status = "CANCELLED"]]
    BY <1>1, <1>6 DEF CancelStale
  <2>. QED  BY <1>5, <2>1 DEF Statuses, UNRESOLVED_DB_ORDER_STATUSES
<1>7. CASE Finalize(o) \/ SyncCancelled(o)
  <2>1. PICK st \in {"FILLED", "PARTIAL", "CANCELLED"} : orders' = [orders EXCEPT ![o].status = st]
    BY <1>7 DEF Finalize, SyncCancelled, Recoverable, TargetStatus
  <2>2. IsUnresolved(o)
    BY <1>7 DEF Finalize, SyncCancelled
  <2>3. PICK b \in BOOLEAN : b = orders[o].open
    BY <1>1 DEF OrderRow
  <2>4. [orders[o] EXCEPT !.status = st] = [orders[o] EXCEPT !.open = b, !.status = st]
    BY <1>1, <2>3 DEF OrderRow
  <2>5. orders' = [orders EXCEPT ![o] = [orders[o] EXCEPT !.status = st]]
    BY <1>1, <2>1
  <2>6. orders' = [orders EXCEPT ![o] = [orders[o] EXCEPT !.open = b, !.status = st]]
    BY <2>4, <2>5
  <2>. QED  BY <1>5, <2>2, <2>3, <2>6 DEF Statuses
<1>8. CASE CrashBeforeAudit(o)
  <2>1. PICK r : r = [orders[o] EXCEPT !.lot = NoLot]
    OBVIOUS
  <2>2. /\ r \in OrderRow /\ orders' = [orders EXCEPT ![o] = r]
        /\ r.filled = orders[o].filled /\ r.imported = orders[o].imported /\ r.rows = orders[o].rows
        /\ r.notional = orders[o].notional /\ r.qty = orders[o].qty /\ r.lot = NoLot
        /\ r.status = orders[o].status /\ r.open = orders[o].open
    BY <1>1, <1>8, <2>1 DEF CrashBeforeAudit, OrderRow
  <2>. QED  BY <1>1, <1>2, <1>3, <2>2, OrderStepKeeps DEF IsUnresolved
<1>. QED  BY <1>4, <1>6, <1>7, <1>8

LEMMA WriteAuditKeeps ==
  ASSUME IInv, NEW o \in Orders, WriteAudit(o)
  PROVE  IInv'
<1>1. /\ Typed /\ o \in LotSells /\ orders[o].lot \in Buys /\ audit[o].lot = NoLot
      /\ orders[o].imported = 0
      /\ lots[orders[o].lot].remaining \in Nat /\ lots[orders[o].lot].sold \in Nat
  BY Rows DEF IInv, WriteAudit, AuditSound
<1>2. PICK a : a = [lot |-> orders[o].lot, remaining |-> lots[orders[o].lot].remaining,
                    sold |-> lots[orders[o].lot].sold]
  OBVIOUS
<1>3. /\ a \in AuditRow /\ a.lot = orders[o].lot /\ audit' = [audit EXCEPT ![o] = a]
      /\ UNCHANGED <<orders, position, lots, broker, outside, reconcile, doubtful>>
  BY <1>1, <1>2 DEF WriteAudit, AuditRow
<1>4. audit'[o] = a /\ \A p \in LotSells : p # o => audit'[p] = audit[p]
  BY <1>1, <1>3 DEF Typed
<1>5. Typed'
  <2>1. audit' \in [LotSells -> AuditRow]
    BY <1>1, <1>3 DEF Typed
  <2>. QED  BY <1>1, <1>3, <2>1 DEF Typed
<1>6. AuditSound'
  <2>1. SymbolOf[a.lot] = SymbolOf[o] /\ a.lot # NoLot
    BY <1>1, <1>3, Constants DEF IInv, OrdersSound
  <2>2. SUFFICES ASSUME NEW p \in LotSells
                 PROVE  /\ audit'[p].lot = NoLot => orders'[p].imported = 0
                        /\ audit'[p].lot # NoLot => SymbolOf[audit'[p].lot] = SymbolOf[p]
    BY DEF AuditSound
  <2>. QED  BY <1>3, <1>4, <2>1 DEF IInv, AuditSound
<1>7. ASSUME NEW l \in Buys PROVE SoldOf(l)' = SoldOf(l)
  <2>1. PICK f : f = [p \in Orders |-> orders[p].imported]
    OBVIOUS
  <2>2. PICK R : R = {p \in LotSells : audit[p].lot = l}
    OBVIOUS
  <2>3. PICK S : S = {p \in LotSells : audit'[p].lot = l}
    OBVIOUS
  <2>4. R \subseteq S
    <3>1. o \notin R
      BY <1>1, <1>7, <2>2, Constants
    <3>. QED  BY <1>4, <2>2, <2>3, <3>1
  <2>5. S \subseteq Orders /\ IsFiniteSet(S)
    BY <2>3, Constants, FS_Subset
  <2>6. \A p \in S : f[p] \in Int
    BY <1>1, <2>1, <2>5, Rows
  <2>7. \A p \in S : p \notin R => f[p] = 0
    BY <1>1, <1>4, <2>1, <2>2, <2>3
  <2>8. Sum(f, S) = Sum(f, R)
    BY <2>4, <2>5, <2>6, <2>7, SumSub
  <2>. QED  BY <1>3, <2>1, <2>2, <2>3, <2>8 DEF SoldOf, Sum
<1>8. LotsSound'
  BY <1>3, <1>7 DEF IInv, LotsSound
<1>9. OrdersSound' /\ AveragesSound' /\ ReconcileSound'
  BY <1>3 DEF IInv, OrdersSound, AveragesSound, ReconcileSound, IsUnresolved, OpenLots, IsOpenLot
<1>10. \A x : /\ Accounts(x)' = Accounts(x)
              /\ SoldAsPosition(x)' = SoldAsPosition(x) /\ LotShares(x)' = LotShares(x)
  BY <1>3 DEF Accounts, MissingOf, Missing, SoldAsPosition, LotShares
<1>. QED  BY <1>3, <1>5, <1>6, <1>8, <1>9, <1>10 DEF IInv

LEMMA DirtyKeeps ==
  ASSUME ReconcileSound, reconcile' = Dirty
  PROVE  ReconcileSound'
<1>1. PICK d \in BOOLEAN : d = (reconcile.dirty \/ reconcile.pc # "idle")
  OBVIOUS
<1>2. reconcile' = [reconcile EXCEPT !.dirty = d]
  BY <1>1 DEF Dirty
<1>3. /\ DOMAIN reconcile' = DOMAIN reconcile /\ reconcile'.pc = reconcile.pc
      /\ reconcile'.allowed = reconcile.allowed /\ reconcile'.outside = reconcile.outside
      /\ reconcile'.balance = reconcile.balance /\ reconcile'.dirty = d
  BY <1>2 DEF ReconcileSound
<1>4. reconcile.pc = "idle" \/ d
  BY <1>1
<1>. QED  BY <1>3, <1>4 DEF ReconcileSound

LEMMA BrokerFillKeeps ==
  ASSUME IInv, NEW o \in Orders, BrokerFill(o)
  PROVE  IInv'
<1>1. PICK x \in Symbols : x = SymbolOf[o]
  BY Constants
<1>2. /\ Typed /\ orders[o] \in OrderRow /\ orders[o].filled \in Nat /\ orders[o].qty \in Nat
      /\ orders[o].imported \in Nat /\ orders[o].imported <= orders[o].filled
      /\ orders[o].filled < orders[o].qty /\ orders[o].status # "none"
  BY Rows DEF IInv, BrokerFill, OrdersSound, NoOrder
<1>3. PICK b \in BOOLEAN : b = (orders[o].filled + 1 < orders[o].qty)
  <2>1. (orders[o].filled + 1 < orders[o].qty) \in BOOLEAN
    OBVIOUS
  <2>. QED  BY <2>1, Zenon
<1>3a. PICK f \in Nat : f = orders[o].filled + 1
  BY <1>2
<1>4. PICK r : r = [orders[o] EXCEPT !.filled = f, !.open = b]
  OBVIOUS
<1>5. /\ r \in OrderRow /\ r.filled = orders[o].filled + 1 /\ r.open = b
      /\ r.status = orders[o].status /\ r.qty = orders[o].qty /\ r.imported = orders[o].imported
      /\ r.rows = orders[o].rows /\ r.notional = orders[o].notional /\ r.lot = orders[o].lot
  BY <1>2, <1>3a, <1>4 DEF OrderRow
<1>6. /\ orders' = [orders EXCEPT ![o] = r]
      /\ UNCHANGED <<position, lots, audit, outside, doubtful>> /\ reconcile' = Dirty
  BY <1>3, <1>3a, <1>4 DEF BrokerFill
<1>7. orders'[o] = r /\ \A p \in Orders : p # o => orders'[p] = orders[p]
  BY <1>2, <1>6 DEF Typed
<1>8. /\ broker' \in [Symbols -> Nat] /\ \A y \in Symbols : y # x => broker'[y] = broker[y]
      /\ SideOf(o) = "buy" => broker'[x] = broker[x] + 1
      /\ SideOf(o) = "sell" => broker'[x] = broker[x] - 1
  <2>1. PICK n : n = IF SideOf(o) = "buy" THEN broker[x] + 1 ELSE broker[x] - 1
    OBVIOUS
  <2>2. broker[x] \in Nat /\ broker \in [Symbols -> Nat] /\ (SideOf(o) = "sell" => broker[x] > 0)
    BY <1>1, <1>2 DEF Typed, BrokerFill
  <2>3. SideOf(o) = "buy" \/ SideOf(o) = "sell"
    BY DEF SideOf
  <2>4. n \in Nat /\ broker' = [broker EXCEPT ![x] = n]
    BY <1>1, <2>1, <2>2, <2>3 DEF BrokerFill
  <2>. QED  BY <2>1, <2>2, <2>4
<1>9. Typed'
  <2>1. orders' \in [Orders -> OrderRow]
    BY <1>2, <1>5, <1>6 DEF Typed
  <2>. QED  BY <1>2, <1>6, <1>8, <2>1 DEF Typed
<1>10. /\ AuditSound' /\ LotsSound' /\ AveragesSound'
       /\ \A y : SoldAsPosition(y)' = SoldAsPosition(y) /\ LotShares(y)' = LotShares(y)
  <2>1. \A p \in Orders : /\ orders'[p].imported = orders[p].imported
                          /\ orders'[p].rows = orders[p].rows
                          /\ orders'[p].notional = orders[p].notional
    BY <1>5, <1>7
  <2>. QED  BY <1>6, <2>1, BooksKept
<1>11. ReconcileSound'
  BY <1>6, DirtyKeeps DEF IInv
<1>12. OrdersSound'
  <2>1. SUFFICES ASSUME NEW p \in Orders
                 PROVE  /\ orders'[p].filled <= orders'[p].qty
                        /\ orders'[p].imported <= orders'[p].filled
                        /\ orders'[p].open => orders'[p].filled < orders'[p].qty
                        /\ orders'[p].status = "none" => orders'[p] = NoOrder
                        /\ orders'[p].status # "none" => orders'[p].qty > 0
                        /\ orders'[p].rows = 0 <=> orders'[p].imported = 0
                        /\ orders'[p].rows = 0 => orders'[p].notional = 0
                        /\ orders'[p].lot # NoLot =>
                             p \in LotSells /\ SymbolOf[orders'[p].lot] = SymbolOf[p]
    BY DEF OrdersSound
  <2>2. CASE p = o
    <3>1. b => orders[o].filled + 1 < orders[o].qty
      BY <1>3, Zenon
    <3>2. orders'[p].open => orders'[p].filled < orders'[p].qty
      <4>1. r.open => b
        BY <1>5, Zenon
      <4>2. r.open => r.filled < r.qty
        BY <1>5, <3>1, <4>1
      <4>. QED  BY <1>7, <2>2, <4>2
    <3>3. r.filled <= r.qty /\ r.imported <= r.filled
      BY <1>2, <1>5
    <3>. QED  BY <1>2, <1>5, <1>7, <2>2, <3>2, <3>3 DEF IInv, OrdersSound
  <2>3. CASE p # o
    BY <1>7, <2>3 DEF IInv, OrdersSound
  <2>. QED  BY <2>2, <2>3
<1>13. ASSUME NEW y \in Symbols, Accounts(y) PROVE Accounts(y)'
  <2>1. \A p \in Orders : p # o => Missing(p)' = Missing(p)
    BY <1>7 DEF Missing
  <2>2. Missing(o)' - Missing(o) = 1
    BY <1>2, <1>5, <1>7 DEF Missing
  <2>3. \A side : /\ MissingOf(y, side) \in Int /\ MissingOf(y, side)' \in Int
                  /\ SymbolOf[o] = y /\ SideOf(o) = side =>
                       MissingOf(y, side)' = MissingOf(y, side) + 1
                  /\ ~(SymbolOf[o] = y /\ SideOf(o) = side) =>
                       MissingOf(y, side)' = MissingOf(y, side)
    BY <1>2, <1>9, <2>1, <2>2, MissingMoves
  <2>4. position[y].qty \in Nat /\ outside[y] \in Int /\ broker[y] \in Nat
    BY <1>2 DEF Typed
  <2>5. SideOf(o) = "buy" \/ SideOf(o) = "sell"
    BY DEF SideOf
  <2>6. position[y].qty + MissingOf(y, "buy") - MissingOf(y, "sell") + outside[y] = broker[y]
    BY <1>13 DEF Accounts
  <2>7. position[y].qty + MissingOf(y, "buy")' - MissingOf(y, "sell")' + outside[y] = broker'[y]
    BY <1>1, <1>8, <2>3, <2>4, <2>5, <2>6
  <2>. QED  BY <1>6, <2>7 DEF Accounts
<1>. QED  BY <1>6, <1>9, <1>10, <1>11, <1>12, <1>13 DEF IInv

LEMMA TradeOutsideKeeps ==
  ASSUME IInv, NEW x \in Symbols, TradeOutside(x)
  PROVE  IInv'
<1>1. PICK n \in {-1, 1} : /\ broker[x] + n >= 0
                           /\ broker' = [broker EXCEPT ![x] = @ + n]
                           /\ outside' = [outside EXCEPT ![x] = @ + n]
  BY DEF TradeOutside
<1>2. Typed /\ broker \in [Symbols -> Nat] /\ outside \in [Symbols -> Int]
  BY DEF IInv, Typed
<1>3. UNCHANGED <<orders, position, lots, audit, reconcile, doubtful>>
  BY DEF TradeOutside
<1>4. PICK m \in Nat : m = broker[x] + n
  BY <1>1, <1>2
<1>5. PICK k \in Int : k = outside[x] + n
  BY <1>2
<1>6. broker' = [broker EXCEPT ![x] = m] /\ outside' = [outside EXCEPT ![x] = k]
  BY <1>1, <1>2, <1>4, <1>5
<1>7. broker' \in [Symbols -> Nat] /\ outside' \in [Symbols -> Int]
  BY <1>2, <1>6
<1>8. \A y \in Symbols : broker'[y] - outside'[y] = broker[y] - outside[y]
  <2>1. SUFFICES ASSUME NEW y \in Symbols PROVE broker'[y] - outside'[y] = broker[y] - outside[y]
    OBVIOUS
  <2>2. broker[y] \in Nat /\ outside[y] \in Int
    BY <1>2
  <2>3. CASE y = x
    BY <1>2, <1>4, <1>5, <1>6, <2>2, <2>3
  <2>4. CASE y # x
    BY <1>2, <1>6, <2>4
  <2>. QED  BY <2>3, <2>4
<1>9. Typed'
  BY <1>2, <1>3, <1>7 DEF Typed
<1>10. OrdersSound' /\ ReconcileSound'
  BY <1>3, <1>8 DEF IInv, OrdersSound, ReconcileSound, IsUnresolved, OpenLots, IsOpenLot
<1>11. /\ AuditSound' /\ LotsSound' /\ AveragesSound'
       /\ \A y : SoldAsPosition(y)' = SoldAsPosition(y) /\ LotShares(y)' = LotShares(y)
  BY <1>3, BooksKept
<1>12. ASSUME NEW y \in Symbols, Accounts(y) PROVE Accounts(y)'
  <2>1. \A side : MissingOf(y, side)' = MissingOf(y, side) /\ MissingOf(y, side) \in Int
    <3>1. \A p \in Orders : Missing(p)' = Missing(p)
      BY <1>3 DEF Missing
    <3>. QED  BY <1>2, <1>9, <3>1, MissingKept
  <2>2. position[y].qty \in Nat /\ outside[y] \in Int /\ broker[y] \in Nat
        /\ outside'[y] \in Int /\ broker'[y] \in Nat
    BY <1>2, <1>7 DEF Typed
  <2>3. position[y].qty + MissingOf(y, "buy") - MissingOf(y, "sell") + outside[y] = broker[y]
    BY <1>12 DEF Accounts
  <2>4. position[y].qty + MissingOf(y, "buy") - MissingOf(y, "sell") + outside'[y] = broker'[y]
    BY <1>8, <2>1, <2>2, <2>3
  <2>. QED  BY <1>3, <2>1, <2>4 DEF Accounts
<1>. QED  BY <1>3, <1>9, <1>10, <1>11, <1>12 DEF IInv

-----------------------------------------------------------------------------
(* The reconciliation                                                      *)

LEMMA ReconcileStepKeeps ==
  ASSUME IInv, UNCHANGED <<orders, position, lots, audit, broker, outside, doubtful>>,
         ReconcileSound'
  PROVE  IInv'
<1>1. Typed' /\ OrdersSound'
  BY DEF IInv, Typed, OrdersSound
<1>2. /\ AuditSound' /\ LotsSound' /\ AveragesSound'
      /\ \A y : SoldAsPosition(y)' = SoldAsPosition(y) /\ LotShares(y)' = LotShares(y)
  BY BooksKept
<1>3. \A y : Accounts(y)' = Accounts(y)
  BY DEF Accounts, MissingOf, Missing
<1>. QED  BY <1>1, <1>2, <1>3 DEF IInv

LEMMA Finished ==
  ASSUME NEW outcome, reconcile' = Finish(outcome)
  PROVE  ReconcileSound'
<1>1. /\ DOMAIN reconcile' =
           {"pc", "allowed", "balance", "outside", "diffs", "dirty", "outcome", "count"}
      /\ reconcile'.pc = "idle" /\ reconcile'.allowed = FALSE /\ reconcile'.dirty = FALSE
      /\ reconcile'.outside = [x \in Symbols |-> 0]
  BY DEF Finish, ReconcileIdle
<1>2. reconcile'.outside \in [Symbols -> Int]
  BY <1>1
<1>. QED  BY <1>1, <1>2 DEF ReconcileSound

LEMMA GateKeeps ==
  ASSUME IInv, NEW allow \in BOOLEAN, ReconcileGate(allow)
  PROVE  IInv'
<1>1. UNCHANGED <<orders, position, lots, audit, broker, outside, doubtful>>
  BY DEF ReconcileGate
<1>2. CASE Blocked /\ ~allow
  BY <1>1, <1>2, Finished, ReconcileStepKeeps DEF ReconcileGate
<1>3. CASE ~(Blocked /\ ~allow)
  <2>1. reconcile' = [ReconcileIdle EXCEPT !.pc = "balance", !.allowed = allow,
                                           !.count = reconcile.count + 1]
    BY <1>3 DEF ReconcileGate
  <2>2. /\ DOMAIN reconcile' =
             {"pc", "allowed", "balance", "outside", "diffs", "dirty", "outcome", "count"}
        /\ reconcile'.pc = "balance" /\ reconcile'.allowed = allow /\ reconcile'.dirty = FALSE
        /\ reconcile'.outside = [x \in Symbols |-> 0]
    BY <2>1 DEF ReconcileIdle
  <2>3. allow \/ \A o \in Orders : ~IsUnresolved(o)
    BY <1>3 DEF Blocked, UnresolvedOrders
  <2>4. reconcile'.allowed \/ \A o \in Orders : ~IsUnresolved(o)'
    BY <1>1, <2>2, <2>3 DEF IsUnresolved
  <2>5. reconcile'.outside \in [Symbols -> Int]
    BY <2>2
  <2>6. ReconcileSound'
    BY <2>2, <2>4, <2>5 DEF ReconcileSound
  <2>. QED  BY <1>1, <2>6, ReconcileStepKeeps
<1>. QED  BY <1>2, <1>3

LEMMA BalanceKeeps ==
  ASSUME IInv, ReconcileBalance
  PROVE  IInv'
<1>1. UNCHANGED <<orders, position, lots, audit, broker, outside, doubtful>>
      /\ reconcile.pc = "balance"
  BY DEF ReconcileBalance
<1>2. PICK b : /\ reconcile' = [reconcile EXCEPT !.pc = "diff", !.outside = outside, !.balance = b]
               /\ \A x \in Symbols : b[x].qty = broker[x]
  <2>1. PICK avg \in [Symbols -> Prices] :
          reconcile' = [reconcile EXCEPT !.pc = "diff", !.outside = outside,
            !.balance = [x \in Symbols |->
              [qty |-> broker[x], avg |-> IF broker[x] = 0 THEN 0 ELSE avg[x]]]]
    BY DEF ReconcileBalance
  <2>2. PICK b : b = [x \in Symbols |->
              [qty |-> broker[x], avg |-> IF broker[x] = 0 THEN 0 ELSE avg[x]]]
    OBVIOUS
  <2>3. \A x \in Symbols : b[x].qty = broker[x]
    BY <2>2
  <2>. QED  BY <2>1, <2>2, <2>3
<1>3. /\ DOMAIN reconcile' = DOMAIN reconcile /\ reconcile'.pc = "diff"
      /\ reconcile'.allowed = reconcile.allowed /\ reconcile'.outside = outside
      /\ reconcile'.balance = b /\ reconcile'.dirty = reconcile.dirty
  BY <1>2 DEF IInv, ReconcileSound
<1>4. ReconcileSound'
  <2>1. \A x \in Symbols : broker[x] \in Nat /\ outside[x] \in Int
    BY DEF IInv, Typed
  <2>. QED  BY <1>1, <1>2, <1>3, <2>1 DEF IInv, Typed, ReconcileSound, IsUnresolved
<1>. QED  BY <1>1, <1>4, ReconcileStepKeeps

LEMMA DiffKeeps ==
  ASSUME IInv, ReconcileDiff
  PROVE  IInv'
<1>1. UNCHANGED <<orders, position, lots, audit, broker, outside, doubtful>>
      /\ reconcile.pc = "diff"
  BY DEF ReconcileDiff
<1>2. \/ \E outcome : reconcile' = Finish(outcome)
      \/ ~LotConflict /\ reconcile' = [reconcile EXCEPT !.pc = "write", !.diffs = Diffs]
  BY DEF ReconcileDiff
<1>3. CASE \E outcome : reconcile' = Finish(outcome)
  BY <1>1, <1>3, Finished, ReconcileStepKeeps
<1>4. CASE ~LotConflict /\ reconcile' = [reconcile EXCEPT !.pc = "write", !.diffs = Diffs]
  <2>1. /\ DOMAIN reconcile' = DOMAIN reconcile /\ reconcile'.pc = "write"
        /\ reconcile'.allowed = reconcile.allowed /\ reconcile'.outside = reconcile.outside
        /\ reconcile'.balance = reconcile.balance /\ reconcile'.dirty = reconcile.dirty
        /\ reconcile'.diffs = Diffs
    BY <1>4 DEF IInv, ReconcileSound
  <2>2. \A x \in Diffs : OpenLots(x)' = {}
    BY <1>1, <1>4 DEF LotConflict, OpenLots, IsOpenLot
  <2>3. ReconcileSound'
    BY <1>1, <2>1, <2>2 DEF IInv, ReconcileSound, IsUnresolved
  <2>. QED  BY <1>1, <2>3, ReconcileStepKeeps
<1>. QED  BY <1>2, <1>3, <1>4

\* Nothing is to import when nothing is in doubt.
LEMMA NothingMissing ==
  ASSUME IInv, reconcile.pc = "write", ~Doubt
  PROVE  /\ ~reconcile.dirty
         /\ \A o \in Orders : Missing(o) = 0
         /\ \A x, side : MissingOf(x, side) = 0
<1>1. ~reconcile.dirty
  BY DEF Doubt
<1>2. ASSUME NEW o \in Orders PROVE Missing(o) = 0
  <2>1. /\ orders[o].filled \in Nat /\ orders[o].imported \in Nat
        /\ orders[o].imported <= orders[o].filled
    BY Rows DEF IInv, OrdersSound
  <2>2. SUFFICES ASSUME Missing(o) > 0 PROVE FALSE
    BY <2>1 DEF Missing
  <2>3. ~reconcile.allowed /\ IsUnresolved(o)
    BY <2>2 DEF Doubt
  <2>4. orders[o].filled = 0
    BY <1>1, <2>3 DEF IInv, ReconcileSound
  <2>. QED  BY <2>1, <2>2, <2>4 DEF Missing
<1>3. ASSUME NEW x, NEW side PROVE MissingOf(x, side) = 0
  <2>1. PICK f : f = [o \in Orders |-> Missing(o)]
    OBVIOUS
  <2>2. \A o \in OrdersOf(x, side) : f[o] = 0
    BY <1>2, <2>1 DEF OrdersOf
  <2>3. Sum(f, OrdersOf(x, side)) = Sum(f, {})
    BY <2>2, MissingSum, SumSub
  <2>. QED  BY <2>1, <2>3, MissingSum, SumEmpty
<1>. QED  BY <1>1, <1>2, <1>3

\* What the open lots of a symbol hold is what all its lots hold.
LEMMA OpenShares ==
  ASSUME Typed
  PROVE  \A x : LotShares(x) \in Nat /\ RemainingOf(x) = LotShares(x)
<1>. SUFFICES ASSUME NEW x PROVE LotShares(x) \in Nat /\ RemainingOf(x) = LotShares(x)
  OBVIOUS
<1>1. PICK f : f = [l \in Buys |-> lots[l].remaining]
  OBVIOUS
<1>2. PICK S : S = LotsOf(x)
  OBVIOUS
<1>3. PICK R : R = OpenLots(x)
  OBVIOUS
<1>4. IsFiniteSet(S) /\ R \subseteq S /\ \A l \in S : f[l] \in Nat /\ (l \notin R => f[l] = 0)
  <2>1. S \subseteq Buys /\ IsFiniteSet(S)
    BY <1>2, Constants, FS_Subset DEF LotsOf
  <2>2. R \subseteq S
    BY <1>2, <1>3 DEF LotsOf, OpenLots
  <2>3. \A l \in S : f[l] = lots[l].remaining /\ lots[l].remaining \in Nat
    BY <1>1, <2>1, Rows
  <2>4. \A l \in S : l \notin R => ~(lots[l].remaining > 0)
    BY <1>2, <1>3 DEF LotsOf, OpenLots, IsOpenLot
  <2>. QED  BY <2>1, <2>2, <2>3, <2>4
<1>5. Sum(f, S) \in Nat /\ Sum(f, S) = Sum(f, R)
  BY <1>4, SumNat, SumSub
<1>. QED  BY <1>1, <1>2, <1>3, <1>5 DEF LotShares, RemainingOf, Sum

LEMMA WriteKeeps ==
  ASSUME IInv, ReconcileWrite
  PROVE  IInv'
<1>1. /\ Typed /\ reconcile.pc = "write" /\ UNCHANGED <<orders, lots, audit, broker>>
      /\ reconcile' = Finish("RECONCILED") /\ (doubtful' <=> doubtful \/ Doubt)
      /\ DOMAIN position' = Symbols
      /\ \A x \in Symbols :
           /\ x \in reconcile.diffs => /\ position'[x] = reconcile.balance[x]
                                       /\ outside'[x] = outside[x] - reconcile.outside[x]
           /\ x \notin reconcile.diffs => position'[x] = position[x] /\ outside'[x] = outside[x]
  BY DEF IInv, ReconcileWrite
<1>2. \A x \in Symbols : /\ reconcile.balance[x].qty \in Nat /\ reconcile.outside[x] \in Int
                         /\ outside[x] \in Int /\ broker[x] \in Nat /\ position[x].qty \in Nat
  BY <1>1 DEF IInv, ReconcileSound, Typed
<1>3. Typed'
  <2>1. outside' \in [Symbols -> Int]
    <3>1. outside' = [x \in Symbols |-> IF x \in reconcile.diffs
                                         THEN outside[x] - reconcile.outside[x] ELSE outside[x]]
      BY DEF ReconcileWrite
    <3>. QED  BY <1>2, <3>1
  <2>2. \A x \in Symbols : position'[x].qty \in Nat
    BY <1>1, <1>2
  <2>3. doubtful' \in BOOLEAN
    BY DEF ReconcileWrite
  <2>. QED  BY <1>1, <2>1, <2>2, <2>3 DEF Typed
<1>4. OrdersSound'
  BY <1>1 DEF IInv, OrdersSound
<1>5. /\ AuditSound' /\ LotsSound' /\ AveragesSound'
      /\ \A y : SoldAsPosition(y)' = SoldAsPosition(y) /\ LotShares(y)' = LotShares(y)
  BY <1>1, BooksKept
<1>6. ReconcileSound'
  BY <1>1, Finished
<1>7. ASSUME ~doubtful', NEW x \in Symbols
      PROVE  Accounts(x)' /\ (SoldAsPosition(x)' \/ LotShares(x)' <= position'[x].qty)
  <2>1. ~doubtful /\ ~Doubt
    BY <1>1, <1>7
  <2>2. ~reconcile.dirty /\ \A side : MissingOf(x, side) = 0
    BY <1>1, <2>1, NothingMissing
  <2>3. \A side : MissingOf(x, side)' = MissingOf(x, side)
    BY <1>1 DEF MissingOf, Missing, SideOf, Buys
  <2>4. Accounts(x) /\ (SoldAsPosition(x) \/ LotShares(x) <= position[x].qty)
    BY <2>1 DEF IInv
  <2>5. CASE x \in reconcile.diffs
    <3>1. reconcile.balance[x].qty - reconcile.outside[x] = broker[x] - outside[x]
      BY <1>1, <2>2 DEF IInv, ReconcileSound
    <3>2. reconcile.balance[x].qty + 0 - 0 + (outside[x] - reconcile.outside[x]) = broker[x]
      BY <1>2, <3>1
    <3>3. Accounts(x)'
      BY <1>1, <2>2, <2>3, <2>5, <3>2 DEF Accounts
    <3>4. OpenLots(x) = {}
      BY <1>1, <2>2, <2>5 DEF IInv, ReconcileSound
    <3>5. RemainingOf(x) = 0
      BY <3>4, SumEmpty DEF RemainingOf, Sum
    <3>6. LotShares(x) = 0
      BY <1>1, <3>5, OpenShares
    <3>. QED  BY <1>1, <1>2, <1>5, <2>5, <3>3, <3>6
  <2>6. CASE x \notin reconcile.diffs
    BY <1>1, <1>5, <2>3, <2>4, <2>6 DEF Accounts
  <2>. QED  BY <2>5, <2>6
<1>. QED  BY <1>3, <1>4, <1>5, <1>6, <1>7 DEF IInv

-----------------------------------------------------------------------------
(* The import of an execution                                              *)

\* The executions of one lot-level sell change.
LEMMA SoldMoves ==
  ASSUME Typed, Typed', UNCHANGED audit, NEW o \in Orders,
         \A p \in Orders : p # o => orders'[p].imported = orders[p].imported
  PROVE  \A l \in Buys :
           /\ SoldOf(l) \in Int /\ SoldOf(l)' \in Int
           /\ o \in LotSells /\ audit[o].lot = l =>
                SoldOf(l)' = SoldOf(l) + orders'[o].imported - orders[o].imported
           /\ ~(o \in LotSells /\ audit[o].lot = l) => SoldOf(l)' = SoldOf(l)
<1>. SUFFICES ASSUME NEW l \in Buys
              PROVE  /\ SoldOf(l) \in Int /\ SoldOf(l)' \in Int
                     /\ o \in LotSells /\ audit[o].lot = l =>
                          SoldOf(l)' = SoldOf(l) + orders'[o].imported - orders[o].imported
                     /\ ~(o \in LotSells /\ audit[o].lot = l) => SoldOf(l)' = SoldOf(l)
  OBVIOUS
<1>1. PICK f : f = [p \in Orders |-> orders[p].imported]
  OBVIOUS
<1>2. PICK g : g = [p \in Orders |-> orders'[p].imported]
  OBVIOUS
<1>3. PICK S : S = {p \in LotSells : audit[p].lot = l}
  OBVIOUS
<1>4. S \subseteq Orders /\ IsFiniteSet(S)
  BY <1>3, Constants, FS_Subset
<1>5. SoldOf(l) = Sum(f, S)
  BY <1>1, <1>3 DEF SoldOf, Sum
<1>6. SoldOf(l)' = Sum(g, S)
  BY <1>2, <1>3 DEF SoldOf, Sum, LotSells
<1>7. \A p \in Orders : /\ f[p] = orders[p].imported /\ g[p] = orders'[p].imported
                        /\ f[p] \in Int /\ g[p] \in Int
  <2>1. \A p \in Orders : orders[p].imported \in Int
    BY Rows
  <2>2. \A p \in Orders : orders'[p].imported \in Int
    BY DEF Typed, OrderRow
  <2>. QED  BY <1>1, <1>2, <2>1, <2>2
<1>8. /\ Sum(f, S) \in Int /\ Sum(g, S) \in Int
      /\ o \in S => Sum(g, S) = Sum(f, S) + g[o] - f[o]
      /\ o \notin S => Sum(g, S) = Sum(f, S)
  <2>1. \A p \in S : f[p] \in Int /\ g[p] \in Int /\ (p # o => g[p] = f[p])
    BY <1>4, <1>7
  <2>. QED  BY <1>4, <2>1, SumChange
<1>9. o \in S <=> o \in LotSells /\ audit[o].lot = l
  BY <1>3
<1>. QED  BY <1>5, <1>6, <1>7, <1>8, <1>9

\* What one lot holds changes.
LEMMA SharesMove ==
  ASSUME Typed, Typed', NEW l \in Buys,
         \A k \in Buys : k # l => lots'[k].remaining = lots[k].remaining
  PROVE  \A y : /\ LotShares(y) \in Int /\ LotShares(y)' \in Int
                /\ SymbolOf[l] = y =>
                     LotShares(y)' = LotShares(y) + lots'[l].remaining - lots[l].remaining
                /\ SymbolOf[l] # y => LotShares(y)' = LotShares(y)
<1>. SUFFICES ASSUME NEW y
              PROVE  /\ LotShares(y) \in Int /\ LotShares(y)' \in Int
                     /\ SymbolOf[l] = y =>
                          LotShares(y)' = LotShares(y) + lots'[l].remaining - lots[l].remaining
                     /\ SymbolOf[l] # y => LotShares(y)' = LotShares(y)
  OBVIOUS
<1>1. PICK f : f = [k \in Buys |-> lots[k].remaining]
  OBVIOUS
<1>2. PICK g : g = [k \in Buys |-> lots'[k].remaining]
  OBVIOUS
<1>3. PICK S : S = LotsOf(y)
  OBVIOUS
<1>4. S \subseteq Buys /\ IsFiniteSet(S)
  BY <1>3, Constants, FS_Subset DEF LotsOf
<1>5. LotShares(y) = Sum(f, S)
  BY <1>1, <1>3 DEF LotShares, Sum
<1>6. LotShares(y)' = Sum(g, S)
  BY <1>2, <1>3 DEF LotShares, LotsOf, Sum, Buys
<1>7. \A k \in Buys : /\ f[k] = lots[k].remaining /\ g[k] = lots'[k].remaining
                      /\ f[k] \in Int /\ g[k] \in Int
  <2>1. \A k \in Buys : lots[k].remaining \in Int
    BY Rows
  <2>2. \A k \in Buys : lots'[k].remaining \in Int
    BY DEF Typed, LotRow, Buys
  <2>. QED  BY <1>1, <1>2, <2>1, <2>2
<1>8. /\ Sum(f, S) \in Int /\ Sum(g, S) \in Int
      /\ l \in S => Sum(g, S) = Sum(f, S) + g[l] - f[l]
      /\ l \notin S => Sum(g, S) = Sum(f, S)
  <2>1. \A k \in S : f[k] \in Int /\ g[k] \in Int /\ (k # l => g[k] = f[k])
    BY <1>4, <1>7
  <2>. QED  BY <1>4, <2>1, SumChange
<1>9. l \in S <=> SymbolOf[l] = y
  BY <1>3 DEF LotsOf
<1>. QED  BY <1>5, <1>6, <1>7, <1>8, <1>9

\* The average of shares of one price is that price.
LEMMA AverageOfOne ==
  ASSUME NEW n \in Nat \ {0}, NEW price \in Nat
  PROVE  RoundedAverage(n * price, n) = price
<1>1. PICK h \in Nat : h = n \div 2 /\ h < n
  OBVIOUS
<1>2. (n * price + h) \div n = price
  BY <1>1
<1>. QED  BY <1>1, <1>2 DEF RoundedAverage

LEMMA AverageIsNat ==
  ASSUME NEW n \in Nat \ {0}, NEW a \in Nat
  PROVE  RoundedAverage(a, n) \in Nat
<1>1. PICK h \in Nat : h = n \div 2
  OBVIOUS
<1>2. (a + h) \div n \in Nat
  OBVIOUS
<1>. QED  BY <1>1, <1>2 DEF RoundedAverage

LEMMA ProductIsNat == \A a, b \in Nat : a * b \in Nat
OBVIOUS

\* The lot of a buy order after an import.
LEMMA BoughtLot ==
  ASSUME Typed, NEW o \in Buys, NEW n \in Nat \ {0}, NEW price \in Nat,
         lots' = [lots EXCEPT ![o] = LotAfterBuy(lots[o], n, price)]
  PROVE  /\ lots' \in [Buys -> LotRow] /\ \A k \in Buys : k # o => lots'[k] = lots[k]
         /\ lots'[o].total = lots[o].total + n /\ lots'[o].remaining = lots[o].remaining + n
         /\ lots'[o].sold = lots[o].sold
         /\ lots'[o].avg = RoundedAverage(lots[o].total * lots[o].avg + n * price, lots[o].total + n)
<1>1. /\ lots[o] \in LotRow /\ lots[o].total \in Nat /\ lots[o].remaining \in Nat
      /\ lots[o].sold \in Nat /\ lots[o].avg \in Nat
  BY Rows
<1>2. PICK t \in Nat \ {0} : t = lots[o].total + n
  BY <1>1
<1>3. PICK m \in Nat : m = lots[o].remaining + n
  BY <1>1
<1>4. PICK c \in Nat : c = lots[o].total * lots[o].avg + n * price
  <2>1. lots[o].total * lots[o].avg \in Nat /\ n * price \in Nat
    BY <1>1, ProductIsNat
  <2>. QED  BY <2>1
<1>5. PICK a \in Nat : a = RoundedAverage(c, t)
  BY AverageIsNat
<1>6. LotAfterBuy(lots[o], n, price) = [lots[o] EXCEPT !.total = t, !.remaining = m, !.avg = a]
  BY <1>2, <1>3, <1>4, <1>5 DEF LotAfterBuy
<1>7. PICK r : r = [lots[o] EXCEPT !.total = t, !.remaining = m, !.avg = a]
  OBVIOUS
<1>8. r \in LotRow /\ r.total = t /\ r.remaining = m /\ r.avg = a /\ r.sold = lots[o].sold
  BY <1>1, <1>7 DEF LotRow
<1>9. lots' = [lots EXCEPT ![o] = r] /\ lots \in [Buys -> LotRow]
  BY <1>6, <1>7 DEF Typed
<1>10. lots' \in [Buys -> LotRow] /\ lots'[o] = r /\ \A k \in Buys : k # o => lots'[k] = lots[k]
  BY <1>8, <1>9
<1>. QED  BY <1>2, <1>3, <1>4, <1>5, <1>8, <1>10

\* The lot of a lot-level sell after an import.
LEMMA SoldLot ==
  ASSUME Typed, NEW l \in Buys, NEW n \in Nat, n <= lots[l].remaining,
         lots' = [lots EXCEPT ![l] = LotAfterSell(lots[l], n)]
  PROVE  /\ lots' \in [Buys -> LotRow] /\ \A k \in Buys : k # l => lots'[k] = lots[k]
         /\ lots'[l].total = lots[l].total /\ lots'[l].remaining = lots[l].remaining - n
         /\ lots'[l].sold = lots[l].sold + n /\ lots'[l].avg = lots[l].avg
<1>1. /\ lots[l] \in LotRow /\ lots[l].remaining \in Nat /\ lots[l].sold \in Nat
  BY Rows
<1>2. PICK s \in Nat : s = lots[l].sold + n
  BY <1>1
<1>3. PICK m \in Nat : m = lots[l].remaining - n
  BY <1>1
<1>4. PICK r : r = [lots[l] EXCEPT !.remaining = m, !.sold = s]
  OBVIOUS
<1>5. r = LotAfterSell(lots[l], n)
  BY <1>2, <1>3, <1>4 DEF LotAfterSell
<1>6. /\ r \in LotRow /\ r.total = lots[l].total /\ r.remaining = m /\ r.avg = lots[l].avg
      /\ r.sold = s
  BY <1>1, <1>4 DEF LotRow
<1>7. lots' = [lots EXCEPT ![l] = r] /\ lots \in [Buys -> LotRow]
  BY <1>5 DEF Typed
<1>8. lots' \in [Buys -> LotRow] /\ lots'[l] = r /\ \A k \in Buys : k # l => lots'[k] = lots[k]
  BY <1>6, <1>7
<1>. QED  BY <1>2, <1>3, <1>6, <1>8

\* What the import of n shares of order o does, whatever the order.
LEMMA Imported ==
  ASSUME IInv, NEW o \in Orders, NEW n \in Nat, NEW price \in Prices, ImportExecution(o, n, price),
         lots' \in [Buys -> LotRow]
  PROVE  /\ Typed /\ Typed' /\ OrdersSound' /\ ReconcileSound'
         /\ n > 0 /\ orders[o].imported \in Nat /\ orders[o].rows \in Nat /\ orders[o].notional \in Nat
         /\ orders'[o].imported = orders[o].imported + n /\ orders'[o].rows = orders[o].rows + 1
         /\ orders'[o].notional = orders[o].notional + n * price
         /\ \A p \in Orders : p # o => orders'[p] = orders[p]
         /\ \A y \in Symbols : y # SymbolOf[o] => position'[y] = position[y]
         /\ o \in Buys => position'[SymbolOf[o]].qty = position[SymbolOf[o]].qty + n
         /\ o \notin Buys => position'[SymbolOf[o]].qty = position[SymbolOf[o]].qty - n
         /\ UNCHANGED <<audit, broker, outside, doubtful>>
<1>1. PICK x \in Symbols : x = SymbolOf[o]
  BY Constants
<1>2. /\ Typed /\ orders[o] \in OrderRow /\ orders \in [Orders -> OrderRow]
      /\ orders[o].imported \in Nat /\ orders[o].rows \in Nat /\ orders[o].notional \in Nat
      /\ orders[o].filled \in Nat /\ orders[o].qty \in Nat
      /\ orders[o].filled <= orders[o].qty
  BY Rows DEF IInv, OrdersSound, Typed
<1>3. n > 0 /\ orders[o].imported + n <= orders[o].filled
  <2>1. Offered(o) = 0 \/ Offered(o) = Missing(o)
    BY DEF Offered, DraftQty
  <2>2. n \in 1..Offered(o)
    BY DEF ImportExecution
  <2>. QED  BY <1>2, <2>1, <2>2 DEF Missing
<1>4. orders[o].status # "none" /\ orders[o].qty > 0
  BY DEF ImportExecution, Importable, ImportableStatuses, IInv, OrdersSound
<1>5. PICK i \in Nat : i = orders[o].imported + n
  BY <1>2
<1>6. PICK w \in Nat : w = orders[o].rows + 1
  BY <1>2
<1>7. PICK m \in Nat : m = orders[o].notional + n * price
  <2>1. n * price \in Nat
    BY ProductIsNat, Constants
  <2>. QED  BY <1>2, <2>1
<1>8. PICK st \in {"FILLED", "PARTIAL", "CANCELLED"} : st = StatusAfterImport(o, n)
  BY DEF StatusAfterImport
<1>9. PICK r : r = [orders[o] EXCEPT !.imported = i, !.rows = w, !.notional = m, !.status = st]
  OBVIOUS
<1>10. /\ r \in OrderRow /\ r.imported = i /\ r.rows = w /\ r.notional = m /\ r.status = st
       /\ r.filled = orders[o].filled /\ r.qty = orders[o].qty /\ r.open = orders[o].open
       /\ r.lot = orders[o].lot
  BY <1>2, <1>9 DEF OrderRow, Statuses
<1>11. orders' = [orders EXCEPT ![o] = r]
  BY <1>5, <1>6, <1>7, <1>8, <1>9 DEF ImportExecution
<1>12. orders'[o] = r /\ (\A p \in Orders : p # o => orders'[p] = orders[p])
       /\ orders' \in [Orders -> OrderRow]
  BY <1>2, <1>10, <1>11
<1>13. /\ UNCHANGED <<audit, broker, outside, doubtful>> /\ reconcile' = Dirty
       /\ position' = [position EXCEPT ![x] = Booked(position[x], SideOf(o), n, price)]
       /\ SideOf(o) = "sell" => n <= position[x].qty
  BY <1>1, <1>2 DEF ImportExecution, Typed
<1>14. /\ DOMAIN position' = Symbols /\ \A y \in Symbols : y # x => position'[y] = position[y]
       /\ position'[x].qty \in Nat
       /\ o \in Buys => position'[x].qty = position[x].qty + n
       /\ o \notin Buys => position'[x].qty = position[x].qty - n
  <2>1. DOMAIN position = Symbols /\ position[x].qty \in Nat
    BY <1>2 DEF Typed
  <2>2. position'[x] = Booked(position[x], SideOf(o), n, price)
    BY <1>13, <2>1
  <2>3. CASE o \in Buys
    <3>1. Booked(position[x], "buy", n, price).qty = position[x].qty + n
      BY DEF Booked
    <3>. QED  BY <1>13, <2>1, <2>2, <2>3, <3>1 DEF SideOf
  <2>4. CASE o \notin Buys
    <3>1. Booked(position[x], "sell", n, price).qty = position[x].qty - n
      BY DEF Booked
    <3>2. SideOf(o) = "sell"
      BY <2>4 DEF SideOf
    <3>. QED  BY <1>13, <2>1, <2>2, <2>4, <3>1, <3>2
  <2>. QED  BY <2>3, <2>4
<1>15. Typed'
  <2>1. \A y \in Symbols : position'[y].qty \in Nat
    BY <1>2, <1>14 DEF Typed
  <2>. QED  BY <1>2, <1>12, <1>13, <1>14, <2>1 DEF Typed
<1>16. ReconcileSound'
  BY <1>13, DirtyKeeps DEF IInv
<1>17. OrdersSound'
  <2>1. SUFFICES ASSUME NEW p \in Orders
                 PROVE  /\ orders'[p].filled <= orders'[p].qty
                        /\ orders'[p].imported <= orders'[p].filled
                        /\ orders'[p].open => orders'[p].filled < orders'[p].qty
                        /\ orders'[p].status = "none" => orders'[p] = NoOrder
                        /\ orders'[p].status # "none" => orders'[p].qty > 0
                        /\ orders'[p].rows = 0 <=> orders'[p].imported = 0
                        /\ orders'[p].rows = 0 => orders'[p].notional = 0
                        /\ orders'[p].lot # NoLot =>
                             p \in LotSells /\ SymbolOf[orders'[p].lot] = SymbolOf[p]
    BY DEF OrdersSound
  <2>2. CASE p = o
    <3>1. r.filled <= r.qty /\ r.imported <= r.filled /\ r.rows # 0 /\ r.imported # 0
          /\ r.status # "none" /\ r.qty > 0
      BY <1>2, <1>3, <1>4, <1>5, <1>6, <1>8, <1>10
    <3>2. /\ r.open => r.filled < r.qty
          /\ r.lot # NoLot => o \in LotSells /\ SymbolOf[r.lot] = SymbolOf[o]
      BY <1>10 DEF IInv, OrdersSound
    <3>. QED  BY <1>12, <2>2, <3>1, <3>2
  <2>3. CASE p # o
    BY <1>12, <2>3 DEF IInv, OrdersSound
  <2>. QED  BY <2>2, <2>3
<1>. QED  BY <1>1, <1>2, <1>3, <1>5, <1>6, <1>7, <1>10, <1>12, <1>13, <1>14, <1>15, <1>16, <1>17

\* An import moves shares from what is to import to the position.
LEMMA AccountsMove ==
  ASSUME IInv, NEW o \in Orders, NEW n \in Nat, NEW price \in Prices, ImportExecution(o, n, price),
         lots' \in [Buys -> LotRow], NEW y \in Symbols, Accounts(y)
  PROVE  Accounts(y)'
<1>1. /\ Typed /\ Typed' /\ orders[o].imported \in Nat
      /\ orders'[o].imported = orders[o].imported + n
      /\ \A p \in Orders : p # o => orders'[p] = orders[p]
      /\ \A z \in Symbols : z # SymbolOf[o] => position'[z] = position[z]
      /\ o \in Buys => position'[SymbolOf[o]].qty = position[SymbolOf[o]].qty + n
      /\ o \notin Buys => position'[SymbolOf[o]].qty = position[SymbolOf[o]].qty - n
      /\ UNCHANGED <<audit, broker, outside, doubtful>>
  BY Imported
<1>2. \A p \in Orders : p # o => Missing(p)' = Missing(p)
  BY <1>1 DEF Missing
<1>3. Missing(o)' - Missing(o) = 0 - n
  <2>1. orders'[o].filled = orders[o].filled /\ orders[o].filled \in Nat
    BY <1>1, Rows DEF ImportExecution, Typed, OrderRow
  <2>. QED  BY <1>1, <2>1 DEF Missing
<1>4. \A side : /\ MissingOf(y, side) \in Int /\ MissingOf(y, side)' \in Int
                /\ SymbolOf[o] = y /\ SideOf(o) = side =>
                     MissingOf(y, side)' = MissingOf(y, side) - n
                /\ ~(SymbolOf[o] = y /\ SideOf(o) = side) =>
                     MissingOf(y, side)' = MissingOf(y, side)
  <2>1. SUFFICES ASSUME NEW side
                 PROVE  /\ MissingOf(y, side) \in Int /\ MissingOf(y, side)' \in Int
                        /\ SymbolOf[o] = y /\ SideOf(o) = side =>
                             MissingOf(y, side)' = MissingOf(y, side) - n
                        /\ ~(SymbolOf[o] = y /\ SideOf(o) = side) =>
                             MissingOf(y, side)' = MissingOf(y, side)
    OBVIOUS
  <2>2. /\ MissingOf(y, side) \in Int /\ MissingOf(y, side)' \in Int
        /\ SymbolOf[o] = y /\ SideOf(o) = side =>
             MissingOf(y, side)' = MissingOf(y, side) + (Missing(o)' - Missing(o))
        /\ ~(SymbolOf[o] = y /\ SideOf(o) = side) => MissingOf(y, side)' = MissingOf(y, side)
    BY <1>1, <1>2, MissingMoves
  <2>. QED  BY <1>3, <2>2
<1>5. /\ position[y].qty \in Nat /\ outside[y] \in Int /\ broker[y] \in Nat
      /\ position'[y].qty \in Nat
  BY <1>1 DEF Typed
<1>6. position[y].qty + MissingOf(y, "buy") - MissingOf(y, "sell") + outside[y] = broker[y]
  BY DEF Accounts
<1>7. (SideOf(o) = "buy" /\ o \in Buys) \/ (SideOf(o) = "sell" /\ o \notin Buys)
  BY DEF SideOf
<1>8. position'[y].qty + MissingOf(y, "buy")' - MissingOf(y, "sell")' + outside[y] = broker[y]
  <2>1. CASE SymbolOf[o] # y
    BY <1>1, <1>4, <1>6, <2>1
  <2>2. CASE SymbolOf[o] = y /\ o \in Buys /\ SideOf(o) = "buy"
    <3>1. position'[y].qty = position[y].qty + n
      BY <1>1, <2>2
    <3>. QED  BY <1>4, <1>5, <1>6, <2>2, <3>1
  <2>3. CASE SymbolOf[o] = y /\ o \notin Buys /\ SideOf(o) = "sell"
    <3>1. position'[y].qty = position[y].qty - n
      BY <1>1, <2>3
    <3>. QED  BY <1>4, <1>5, <1>6, <2>3, <3>1
  <2>. QED  BY <1>7, <2>1, <2>2, <2>3
<1>. QED  BY <1>1, <1>8 DEF Accounts

LEMMA SoldGrows ==
  ASSUME Typed, NEW o \in Orders, NEW n \in Nat, orders'[o].imported = orders[o].imported + n,
         \A p \in Orders : p # o => orders'[p] = orders[p]
  PROVE  \A y : SoldAsPosition(y) => SoldAsPosition(y)'
<1>1. SUFFICES ASSUME NEW y, NEW p \in Orders, SymbolOf[p] = y, KindOf[p] = "sell",
                      orders[p].imported > 0
               PROVE  orders'[p].imported > 0
  BY DEF SoldAsPosition
<1>2. orders[p].imported \in Nat
  BY Rows
<1>. QED  BY <1>1, <1>2

\* The fills of a buy order grow its lot.
LEMMA ImportBuyKeeps ==
  ASSUME IInv, NEW o \in Buys, NEW n \in Nat, NEW price \in Prices, ImportExecution(o, n, price)
  PROVE  IInv'
<1>1. o \in Orders /\ o \notin LotSells /\ SymbolOf[o] \in Symbols
      /\ price \in Nat /\ price > 0
  BY Constants
<1>2. Typed /\ n > 0 /\ n \in Nat \ {0}
  BY Rows DEF IInv, ImportExecution
<1>3. lots' = [lots EXCEPT ![o] = LotAfterBuy(lots[o], n, price)]
  <2>1. lots' \in {[lots EXCEPT ![o] = LotAfterBuy(@, n, price)]}
    BY <1>1 DEF ImportExecution, LotImport
  <2>2. lots \in [Buys -> LotRow]
    BY <1>2 DEF Typed
  <2>. QED  BY <2>1, <2>2
<1>4. /\ lots' \in [Buys -> LotRow] /\ \A k \in Buys : k # o => lots'[k] = lots[k]
      /\ lots'[o].total = lots[o].total + n /\ lots'[o].remaining = lots[o].remaining + n
      /\ lots'[o].sold = lots[o].sold
      /\ lots'[o].avg = RoundedAverage(lots[o].total * lots[o].avg + n * price, lots[o].total + n)
  BY <1>1, <1>2, <1>3, BoughtLot, Zenon
<1>5. /\ Typed' /\ OrdersSound' /\ ReconcileSound'
      /\ orders[o].imported \in Nat /\ orders[o].rows \in Nat /\ orders[o].notional \in Nat
      /\ orders'[o].imported = orders[o].imported + n /\ orders'[o].rows = orders[o].rows + 1
      /\ orders'[o].notional = orders[o].notional + n * price
      /\ \A p \in Orders : p # o => orders'[p] = orders[p]
      /\ \A y \in Symbols : y # SymbolOf[o] => position'[y] = position[y]
      /\ position'[SymbolOf[o]].qty = position[SymbolOf[o]].qty + n
      /\ UNCHANGED <<audit, broker, outside, doubtful>>
  BY <1>1, <1>4, Imported
<1>6. /\ lots[o].total \in Nat /\ lots[o].remaining \in Nat /\ lots[o].sold \in Nat
      /\ lots[o].avg \in Nat
  BY <1>2, Rows
<1>7. AuditSound'
  BY <1>1, <1>5, Constants DEF IInv, AuditSound
<1>8. LotsSound'
  <2>1. SUFFICES ASSUME NEW l \in Buys
                 PROVE  /\ lots'[l].total = orders'[l].imported
                        /\ lots'[l].sold = SoldOf(l)'
                        /\ lots'[l].remaining = lots'[l].total - lots'[l].sold
    BY DEF LotsSound, Buys
  <2>2. \A p \in Orders : p # o => orders'[p].imported = orders[p].imported
    BY <1>5
  <2>3. SoldOf(l)' = SoldOf(l)
    BY <1>1, <1>2, <1>5, <2>2, SoldMoves
  <2>4. /\ lots[l].total = orders[l].imported /\ lots[l].sold = SoldOf(l)
        /\ lots[l].remaining = lots[l].total - lots[l].sold
    BY DEF IInv, LotsSound
  <2>5. CASE l = o
    BY <1>4, <1>5, <1>6, <2>3, <2>4, <2>5
  <2>6. CASE l # o
    BY <1>4, <1>5, <2>3, <2>4, <2>6, Constants
  <2>. QED  BY <2>5, <2>6
<1>9. AveragesSound'
  <2>1. SUFFICES ASSUME NEW l \in Buys
                 PROVE  /\ orders'[l].rows = 1 => lots'[l].avg * lots'[l].total = orders'[l].notional
                        /\ orders'[l].rows \in {1, 2} =>
                             lots'[l].avg = RoundedAverage(orders'[l].notional, orders'[l].imported)
    BY DEF AveragesSound, Buys
  <2>2. CASE l # o
    BY <1>4, <1>5, <2>2, Constants DEF IInv, AveragesSound
  <2>3. CASE l = o
    <3>1. lots[o].total = orders[o].imported
      BY DEF IInv, LotsSound
    <3>2. ASSUME orders[o].rows = 0
          PROVE  /\ lots'[o].avg * lots'[o].total = orders'[o].notional
                 /\ lots'[o].avg = RoundedAverage(orders'[o].notional, orders'[o].imported)
      <4>1. orders[o].imported = 0 /\ orders[o].notional = 0
        BY <1>1, <3>2 DEF IInv, OrdersSound
      <4>2. PICK a \in Nat : a = lots[o].avg
        BY <1>6
      <4>3. PICK m \in Nat : m = n * price
        BY <1>1, ProductIsNat
      <4>4. 0 * a + m = m /\ 0 + n = n /\ 0 + m = m
        BY <4>2, <4>3
      <4>5. lots'[o].avg = RoundedAverage(m, n) /\ lots'[o].total = n
            /\ orders'[o].notional = m /\ orders'[o].imported = n
        BY <1>4, <1>5, <3>1, <4>1, <4>2, <4>3, <4>4
      <4>6. RoundedAverage(m, n) = price
        BY <1>1, <1>2, <4>3, AverageOfOne
      <4>7. price * n = n * price
        BY <1>1
      <4>. QED  BY <4>3, <4>5, <4>6, <4>7
    <3>3. ASSUME orders[o].rows = 1
          PROVE  lots'[o].avg = RoundedAverage(orders'[o].notional, orders'[o].imported)
      <4>1. lots[o].avg * lots[o].total = orders[o].notional
        BY <3>3 DEF IInv, AveragesSound
      <4>2. lots[o].total * lots[o].avg = orders[o].notional
        BY <1>6, <4>1
      <4>. QED  BY <1>4, <1>5, <3>1, <4>2
    <3>4. /\ orders'[o].rows = 1 => orders[o].rows = 0
          /\ orders'[o].rows \in {1, 2} => orders[o].rows = 0 \/ orders[o].rows = 1
      BY <1>5
    <3>. QED  BY <2>3, <3>2, <3>3, <3>4, Zenon
  <2>. QED  BY <2>2, <2>3
<1>10. ASSUME NEW y \in Symbols, LotShares(y) <= position[y].qty
       PROVE  LotShares(y)' <= position'[y].qty
  <2>1. \A k \in Buys : k # o => lots'[k].remaining = lots[k].remaining
    BY <1>4
  <2>2. /\ LotShares(y) \in Int /\ LotShares(y)' \in Int
        /\ SymbolOf[o] = y =>
             LotShares(y)' = LotShares(y) + lots'[o].remaining - lots[o].remaining
        /\ SymbolOf[o] # y => LotShares(y)' = LotShares(y)
    BY <1>2, <1>5, <2>1, SharesMove
  <2>3. position[y].qty \in Nat
    BY <1>2 DEF Typed
  <2>4. CASE SymbolOf[o] = y
    <3>1. LotShares(y)' = LotShares(y) + n /\ position'[y].qty = position[y].qty + n
      BY <1>4, <1>5, <1>6, <2>2, <2>4
    <3>. QED  BY <1>10, <2>2, <2>3, <3>1
  <2>5. CASE SymbolOf[o] # y
    BY <1>5, <1>10, <2>2, <2>5
  <2>. QED  BY <2>4, <2>5
<1>11. \A y : SoldAsPosition(y) => SoldAsPosition(y)'
  BY <1>1, <1>2, <1>5, SoldGrows
<1>12. \A y \in Symbols : Accounts(y) => Accounts(y)'
  BY <1>1, <1>4, AccountsMove
<1>. QED  BY <1>5, <1>7, <1>8, <1>9, <1>10, <1>11, <1>12 DEF IInv

\* The fills of a lot-level sell reduce the lot its audit row names.
LEMMA ImportLotSellKeeps ==
  ASSUME IInv, NEW o \in LotSells, NEW n \in Nat, NEW price \in Prices,
         ImportExecution(o, n, price)
  PROVE  IInv'
<1>1. o \in Orders /\ o \notin Buys /\ SymbolOf[o] \in Symbols
  BY Constants
<1>2. Typed
  BY DEF IInv
<1>3. PICK l \in Buys : /\ l = audit[o].lot /\ n <= lots[l].remaining
                        /\ lots' = [lots EXCEPT ![l] = LotAfterSell(lots[l], n)]
  <2>1. PICK l \in {k \in {audit[o].lot} \ {NoLot} : n <= lots[k].remaining} :
          lots' = [lots EXCEPT ![l] = LotAfterSell(@, n)]
    BY <1>1 DEF ImportExecution, LotImport
  <2>2. l \in Buys /\ lots \in [Buys -> LotRow]
    BY <1>2, <2>1, Rows DEF Typed
  <2>3. lots' = [lots EXCEPT ![l] = LotAfterSell(lots[l], n)]
    BY <2>1, <2>2
  <2>. QED  BY <2>1, <2>2, <2>3
<1>4. /\ lots' \in [Buys -> LotRow] /\ \A k \in Buys : k # l => lots'[k] = lots[k]
      /\ lots'[l].total = lots[l].total /\ lots'[l].remaining = lots[l].remaining - n
      /\ lots'[l].sold = lots[l].sold + n /\ lots'[l].avg = lots[l].avg
  BY <1>2, <1>3, SoldLot
<1>5. /\ Typed' /\ OrdersSound' /\ ReconcileSound'
      /\ orders[o].imported \in Nat
      /\ orders'[o].imported = orders[o].imported + n
      /\ \A p \in Orders : p # o => orders'[p] = orders[p]
      /\ \A y \in Symbols : y # SymbolOf[o] => position'[y] = position[y]
      /\ position'[SymbolOf[o]].qty = position[SymbolOf[o]].qty - n
      /\ UNCHANGED <<audit, broker, outside, doubtful>>
  BY <1>1, <1>4, Imported
<1>6. /\ lots[l].total \in Nat /\ lots[l].remaining \in Nat /\ lots[l].sold \in Nat
  BY <1>2, Rows
<1>7. SymbolOf[l] = SymbolOf[o] /\ l # NoLot
  BY <1>3, Constants DEF IInv, AuditSound
<1>8. AuditSound'
  BY <1>3, <1>5, <1>7, Constants DEF IInv, AuditSound
<1>9. LotsSound'
  <2>1. SUFFICES ASSUME NEW k \in Buys
                 PROVE  /\ lots'[k].total = orders'[k].imported
                        /\ lots'[k].sold = SoldOf(k)'
                        /\ lots'[k].remaining = lots'[k].total - lots'[k].sold
    BY DEF LotsSound, Buys
  <2>2. \A p \in Orders : p # o => orders'[p].imported = orders[p].imported
    BY <1>5
  <2>3. /\ SoldOf(k) \in Int
        /\ k = l => SoldOf(k)' = SoldOf(k) + orders'[o].imported - orders[o].imported
        /\ k # l => SoldOf(k)' = SoldOf(k)
    BY <1>1, <1>2, <1>3, <1>5, <2>2, SoldMoves
  <2>4. /\ lots[k].total = orders[k].imported /\ lots[k].sold = SoldOf(k)
        /\ lots[k].remaining = lots[k].total - lots[k].sold
    BY DEF IInv, LotsSound
  <2>5. orders'[k] = orders[k]
    BY <1>1, <1>5, Constants
  <2>6. CASE k = l
    BY <1>4, <1>5, <1>6, <2>3, <2>4, <2>5, <2>6
  <2>7. CASE k # l
    BY <1>4, <2>3, <2>4, <2>5, <2>7
  <2>. QED  BY <2>6, <2>7
<1>10. AveragesSound'
  <2>1. SUFFICES ASSUME NEW k \in Buys
                 PROVE  /\ orders'[k].rows = 1 => lots'[k].avg * lots'[k].total = orders'[k].notional
                        /\ orders'[k].rows \in {1, 2} =>
                             lots'[k].avg = RoundedAverage(orders'[k].notional, orders'[k].imported)
    BY DEF AveragesSound, Buys
  <2>2. orders'[k] = orders[k] /\ lots'[k].avg = lots[k].avg /\ lots'[k].total = lots[k].total
    BY <1>1, <1>4, <1>5, Constants
  <2>. QED  BY <2>2 DEF IInv, AveragesSound
<1>11. ASSUME NEW y \in Symbols, LotShares(y) <= position[y].qty
       PROVE  LotShares(y)' <= position'[y].qty
  <2>1. \A k \in Buys : k # l => lots'[k].remaining = lots[k].remaining
    BY <1>4
  <2>2. /\ LotShares(y) \in Int /\ LotShares(y)' \in Int
        /\ SymbolOf[l] = y =>
             LotShares(y)' = LotShares(y) + lots'[l].remaining - lots[l].remaining
        /\ SymbolOf[l] # y => LotShares(y)' = LotShares(y)
    BY <1>2, <1>5, <2>1, SharesMove
  <2>3. position[y].qty \in Nat
    BY <1>2 DEF Typed
  <2>4. CASE SymbolOf[l] = y
    <3>1. LotShares(y)' = LotShares(y) - n /\ position'[y].qty = position[y].qty - n
      BY <1>4, <1>5, <1>6, <1>7, <2>2, <2>4
    <3>. QED  BY <1>11, <2>2, <2>3, <3>1
  <2>5. CASE SymbolOf[l] # y
    BY <1>5, <1>7, <1>11, <2>2, <2>5
  <2>. QED  BY <2>4, <2>5
<1>12. \A y : SoldAsPosition(y) => SoldAsPosition(y)'
  BY <1>1, <1>2, <1>5, SoldGrows
<1>13. \A y \in Symbols : Accounts(y) => Accounts(y)'
  BY <1>1, <1>4, AccountsMove
<1>. QED  BY <1>5, <1>8, <1>9, <1>10, <1>11, <1>12, <1>13 DEF IInv

\* The fills of a position-level sell reduce no lot.
LEMMA ImportSellKeeps ==
  ASSUME IInv, NEW o \in Orders, KindOf[o] = "sell", NEW n \in Nat, NEW price \in Prices,
         ImportExecution(o, n, price)
  PROVE  IInv'
<1>1. o \notin Buys /\ o \notin LotSells /\ SymbolOf[o] \in Symbols
  BY Constants
<1>2. Typed /\ lots' = lots /\ lots' \in [Buys -> LotRow]
  BY <1>1 DEF IInv, Typed, ImportExecution, LotImport
<1>3. /\ Typed' /\ OrdersSound' /\ ReconcileSound' /\ n > 0
      /\ orders[o].imported \in Nat
      /\ orders'[o].imported = orders[o].imported + n
      /\ \A p \in Orders : p # o => orders'[p] = orders[p]
      /\ \A y \in Symbols : y # SymbolOf[o] => position'[y] = position[y]
      /\ UNCHANGED <<audit, broker, outside, doubtful>>
  BY <1>2, Imported
<1>4. \A k \in Buys \union LotSells : k \in Orders /\ orders'[k] = orders[k]
  BY <1>1, <1>3, Constants
<1>5. AuditSound'
  BY <1>3, <1>4 DEF IInv, AuditSound
<1>6. LotsSound' /\ AveragesSound'
  <2>1. \A p \in Orders : p # o => orders'[p].imported = orders[p].imported
    BY <1>3
  <2>2. \A k \in Buys : SoldOf(k)' = SoldOf(k)
    BY <1>1, <1>2, <1>3, <2>1, SoldMoves
  <2>3. LotsSound'
    BY <1>2, <1>4, <2>2 DEF IInv, LotsSound, Buys
  <2>4. AveragesSound'
    BY <1>2, <1>4 DEF IInv, AveragesSound, Buys
  <2>. QED  BY <2>3, <2>4
<1>7. \A y : LotShares(y)' = LotShares(y)
  BY <1>2 DEF LotShares, LotsOf, Buys
<1>8. SoldAsPosition(SymbolOf[o])'
  BY <1>3 DEF SoldAsPosition
<1>9. \A y : SoldAsPosition(y) => SoldAsPosition(y)'
  BY <1>2, <1>3, SoldGrows
<1>10. \A y \in Symbols : Accounts(y) => Accounts(y)'
  BY <1>2, AccountsMove
<1>11. ASSUME NEW y \in Symbols, SoldAsPosition(y) \/ LotShares(y) <= position[y].qty
       PROVE  SoldAsPosition(y)' \/ LotShares(y)' <= position'[y].qty
  BY <1>3, <1>7, <1>8, <1>9, <1>11
<1>. QED  BY <1>3, <1>5, <1>6, <1>10, <1>11 DEF IInv

-----------------------------------------------------------------------------
(* The invariant of every behaviour                                        *)

LEMMA InitKeeps == Init => IInv
<1>. SUFFICES ASSUME Init PROVE IInv
  OBVIOUS
<1>1. /\ orders = [o \in Orders |-> NoOrder]
      /\ position = [x \in Symbols |-> [qty |-> 0, avg |-> 0]]
      /\ lots = [o \in Buys |-> EmptyLot] /\ audit = [o \in LotSells |-> NoAudit]
      /\ broker = [x \in Symbols |-> 0] /\ outside = [x \in Symbols |-> 0]
      /\ reconcile = ReconcileIdle /\ doubtful = FALSE
  BY DEF Init
<1>2. /\ NoOrder \in OrderRow /\ EmptyLot \in LotRow /\ NoAudit \in AuditRow
      /\ NoOrder.status = "none" /\ NoOrder.filled = 0 /\ NoOrder.qty = 0 /\ NoOrder.imported = 0
      /\ NoOrder.rows = 0 /\ NoOrder.notional = 0 /\ NoOrder.open = FALSE /\ NoOrder.lot = NoLot
      /\ EmptyLot.total = 0 /\ EmptyLot.remaining = 0 /\ EmptyLot.sold = 0
      /\ NoAudit.lot = NoLot
  BY DEF NoOrder, EmptyLot, NoAudit, OrderRow, Statuses, LotRow, AuditRow
<1>3. Typed
  <2>1. DOMAIN position = Symbols /\ \A x \in Symbols : position[x].qty = 0
    BY <1>1
  <2>2. orders \in [Orders -> OrderRow] /\ lots \in [Buys -> LotRow] /\ audit \in [LotSells -> AuditRow]
    BY <1>1, <1>2
  <2>3. broker \in [Symbols -> Nat] /\ outside \in [Symbols -> Int]
    BY <1>1
  <2>. QED  BY <1>1, <2>1, <2>2, <2>3 DEF Typed
<1>4. \A o \in Orders : orders[o] = NoOrder
  BY <1>1
<1>5. OrdersSound
  BY <1>2, <1>4 DEF OrdersSound
<1>6. AuditSound
  BY <1>1, <1>2, <1>4, Constants DEF AuditSound
<1>7. LotsSound
  <2>1. ASSUME NEW l \in Buys PROVE SoldOf(l) = 0
    <3>1. {o \in LotSells : audit[o].lot = l} = {}
      BY <1>1, <1>2, Constants
    <3>. QED  BY <3>1, SumEmpty DEF SoldOf, Sum
  <2>. QED  BY <1>1, <1>2, <1>4, <2>1, Constants DEF LotsSound
<1>8. AveragesSound
  BY <1>2, <1>4, Constants DEF AveragesSound
<1>9. ReconcileSound
  <2>1. /\ DOMAIN reconcile =
             {"pc", "allowed", "balance", "outside", "diffs", "dirty", "outcome", "count"}
        /\ reconcile.pc = "idle" /\ reconcile.allowed = FALSE /\ reconcile.dirty = FALSE
        /\ reconcile.outside = [x \in Symbols |-> 0]
    BY <1>1 DEF ReconcileIdle
  <2>2. reconcile.outside \in [Symbols -> Int]
    BY <2>1
  <2>. QED  BY <2>1, <2>2 DEF ReconcileSound
<1>10. ASSUME NEW x \in Symbols PROVE Accounts(x) /\ LotShares(x) <= position[x].qty
  <2>1. \A o \in Orders : Missing(o) = 0
    BY <1>2, <1>4 DEF Missing
  <2>2. ASSUME NEW side PROVE MissingOf(x, side) = 0
    <3>1. PICK f : f = [o \in Orders |-> Missing(o)]
      OBVIOUS
    <3>2. \A o \in OrdersOf(x, side) : f[o] = 0
      BY <2>1, <3>1 DEF OrdersOf
    <3>3. Sum(f, OrdersOf(x, side)) = Sum(f, {})
      BY <3>2, MissingSum, SumSub
    <3>. QED  BY <3>1, <3>3, MissingSum, SumEmpty
  <2>3. OpenLots(x) = {}
    BY <1>1, <1>2 DEF OpenLots, IsOpenLot
  <2>4. RemainingOf(x) = 0
    BY <2>3, SumEmpty DEF RemainingOf, Sum
  <2>5. LotShares(x) = 0
    BY <1>3, <2>4, OpenShares
  <2>. QED  BY <1>1, <2>2, <2>5 DEF Accounts
<1>. QED  BY <1>3, <1>5, <1>6, <1>7, <1>8, <1>9, <1>10 DEF IInv

LEMMA NextKeeps ==
  ASSUME IInv, [Next]_vars
  PROVE  IInv'
<1>1. CASE UNCHANGED vars
  <2>1. UNCHANGED <<orders, position, lots, audit, broker, outside, doubtful, reconcile>>
    BY <1>1 DEF vars
  <2>2. ReconcileSound'
    BY <2>1 DEF IInv, ReconcileSound, IsUnresolved, OpenLots, IsOpenLot
  <2>. QED  BY <2>1, <2>2, ReconcileStepKeeps
<1>2. ASSUME NEW o \in Orders,
             \/ PlaceBuy(o)
             \/ \E l \in Buys : PlaceLotSell(o, l)
             \/ PlacePositionSell(o)
      PROVE  IInv'
  BY <1>2, PlaceKeeps
<1>3. ASSUME NEW o \in Orders, WriteAudit(o) PROVE IInv'
  BY <1>3, WriteAuditKeeps
<1>4. ASSUME NEW o \in Orders,
             \/ CrashBeforeAudit(o) \/ BrokerEnds(o) \/ CancelStale(o)
             \/ Finalize(o) \/ SyncCancelled(o)
      PROVE  IInv'
  BY <1>4, EndsKeep
<1>5. ASSUME NEW o \in Orders, BrokerFill(o) PROVE IInv'
  BY <1>5, BrokerFillKeeps
<1>6. ASSUME NEW o \in Orders, NEW n \in 1..orders[o].qty, NEW price \in Prices,
             ImportExecution(o, n, price)
      PROVE  IInv'
  <2>1. n \in Nat
    BY Rows DEF IInv
  <2>2. o \in Buys \/ o \in LotSells \/ KindOf[o] = "sell"
    BY Constants
  <2>. QED  BY <1>6, <2>1, <2>2, ImportBuyKeeps, ImportLotSellKeeps, ImportSellKeeps
<1>7. ASSUME NEW x \in Symbols, TradeOutside(x) PROVE IInv'
  BY <1>7, TradeOutsideKeeps
<1>8. ASSUME NEW allow \in BOOLEAN, ReconcileGate(allow) PROVE IInv'
  BY <1>8, GateKeeps
<1>9. CASE ReconcileBalance \/ ReconcileDiff \/ ReconcileWrite
  BY <1>9, BalanceKeeps, DiffKeeps, WriteKeeps
<1>. QED  BY <1>1, <1>2, <1>3, <1>4, <1>5, <1>6, <1>7, <1>8, <1>9 DEF Next

LEMMA Inductive == Spec => []IInv
<1>1. Init => IInv
  BY InitKeeps
<1>2. IInv /\ [Next]_vars => IInv'
  BY NextKeeps
<1>. QED  BY <1>1, <1>2, PTL DEF Spec

-----------------------------------------------------------------------------
(* The properties                                                          *)

\* Orders, positions and lots keep their types: nothing is imported that the
\* broker has not filled, and no position or lot is sold below zero.
THEOREM TypeCorrect == Spec => []TypeOK
<1>1. ASSUME IInv PROVE TypeOK
  <2>1. Typed /\ OrdersSound /\ LotsSound
    BY <1>1 DEF IInv
  <2>2. ASSUME NEW o \in Orders
        PROVE  /\ orders[o].status \in DbOrderStatus \union {"none"}
               /\ orders[o].filled \in 0..orders[o].qty
               /\ orders[o].imported \in 0..orders[o].filled
    <3>1. orders[o].status \in Statuses
      BY <2>1, Rows
    <3>2. orders[o].filled \in 0..orders[o].qty /\ orders[o].imported \in 0..orders[o].filled
      BY <2>1, Rows DEF OrdersSound
    <3>. QED  BY <3>1, <3>2 DEF Statuses, DbOrderStatus
  <2>3. \A l \in Buys : lots[l].remaining \in 0..lots[l].total
    BY <2>1, Rows DEF LotsSound
  <2>4. reconcile.pc \in {"idle", "balance", "diff", "write"}
    BY <1>1 DEF IInv, ReconcileSound
  <2>. QED  BY <2>1, <2>2, <2>3, <2>4 DEF TypeOK, Typed
<1>. QED  BY <1>1, Inductive, PTL

\* The position, the fills to import and the trades to adopt come to what the
\* account holds, unless a reconciliation ran into fills nobody had imported.
THEOREM AccountsStayAgreed == Spec => []AccountsAgree
<1>1. ASSUME IInv PROVE AccountsAgree
  BY <1>1 DEF IInv, AccountsAgree, Accounts
<1>. QED  BY <1>1, Inductive, PTL

\* Every lot holds what was imported for it less what its lot-level sells
\* booked, and the position covers the open lots of its symbol unless a
\* position-level sell reduced it.
THEOREM LotsStayAgreed == Spec => []LotsAgree
<1>1. ASSUME IInv PROVE LotsAgree
  <2>1. \A l \in Buys :
          /\ lots[l].total = orders[l].imported
          /\ lots[l].sold =
               SumFunctionOnSet([o \in Orders |-> orders[o].imported],
                                {o \in LotSells : audit[o].lot = l})
          /\ lots[l].remaining = lots[l].total - lots[l].sold
    BY <1>1 DEF IInv, LotsSound, SoldOf
  <2>2. ASSUME ~doubtful, NEW x \in Symbols
        PROVE  \/ \E o \in Orders : /\ SymbolOf[o] = x /\ KindOf[o] = "sell"
                                    /\ orders[o].imported > 0
               \/ RemainingOf(x) <= position[x].qty
    <3>1. SoldAsPosition(x) \/ LotShares(x) <= position[x].qty
      BY <1>1, <2>2 DEF IInv
    <3>2. RemainingOf(x) = LotShares(x)
      BY <1>1, OpenShares DEF IInv
    <3>. QED  BY <3>1, <3>2 DEF SoldAsPosition
  <2>. QED  BY <2>1, <2>2 DEF LotsAgree
<1>. QED  BY <1>1, Inductive, PTL

-----------------------------------------------------------------------------
(* What ends can be resolved                                               *)

\* An order of which nothing has filled is cancelled by the sync pass.
LEMMA UntouchedResolves ==
  ASSUME IInv, NEW o \in Orders, Ended(o), orders[o].filled = 0
  PROVE  Resolvable(o)
<1>1. orders[o].qty > 0 /\ orders[o].qty \in Nat /\ orders[o].open = FALSE
  BY Rows DEF IInv, OrdersSound, Ended, IsUnresolved, UNRESOLVED_DB_ORDER_STATUSES
<1>2. ~orders[o].open /\ orders[o].filled < orders[o].qty
  BY <1>1
<1>3. BrokerStatus(o) = "CANCELLED"
  BY <1>2, Zenon DEF BrokerStatus, BrokerOrderStatus
<1>. QED  BY <1>3 DEF Resolvable

\* An order whose fills are all imported is finalised, for its lot agrees.
LEMMA ImportedResolves ==
  ASSUME IInv, NEW o \in Orders, Ended(o), orders[o].filled > 0, Missing(o) = 0, ~StuckFor(o)
  PROVE  Resolvable(o)
<1>1. /\ orders[o].qty \in Nat /\ orders[o].filled \in Nat /\ orders[o].imported \in Nat
      /\ orders[o].rows \in Nat /\ orders[o].open = FALSE
      /\ orders[o].filled <= orders[o].qty /\ orders[o].imported = orders[o].filled
      /\ orders[o].rows # 0 /\ orders[o].rows <= 2
  <2>1. Typed /\ OrdersSound
    BY DEF IInv
  <2>2. orders[o].rows \in Nat /\ ~(orders[o].rows > 2) /\ orders[o].open \in BOOLEAN
    BY <2>1, Rows DEF StuckFor
  <2>3. orders[o].open = FALSE
    BY <2>2, Zenon DEF Ended
  <2>. QED  BY <2>1, <2>2, <2>3, Rows DEF OrdersSound, Missing
<1>2. TargetStatus(o) # "none"
  <2>1. CASE orders[o].filled < orders[o].qty
    <3>1. ~orders[o].open /\ orders[o].filled < orders[o].qty
      BY <1>1, <2>1
    <3>2. BrokerStatus(o) = "CANCELLED"
      BY <3>1, Zenon DEF BrokerStatus, BrokerOrderStatus
    <3>. QED  BY <1>1, <3>2 DEF TargetStatus
  <2>2. CASE orders[o].filled = orders[o].qty
    <3>1. ~(orders[o].filled < orders[o].qty) /\ orders[o].filled # 0
          /\ orders[o].filled >= orders[o].qty
      BY <1>1, <2>2
    <3>2. BrokerStatus(o) = "FILLED"
      BY <3>1, Zenon DEF BrokerStatus, BrokerOrderStatus
    <3>. QED  BY <1>1, <3>2 DEF TargetStatus
  <2>. QED  BY <1>1, <2>1, <2>2
<1>3. BuyLotAgrees(o)
  <2>1. SUFFICES ASSUME KindOf[o] = "timing2_buy"
                 PROVE  /\ lots[o].total = orders[o].imported
                        /\ lots[o].avg = RoundedAverage(orders[o].notional, orders[o].imported)
    BY DEF BuyLotAgrees
  <2>2. o \in Buys
    BY <2>1 DEF Buys
  <2>3. orders[o].rows \in {1, 2}
    BY <1>1
  <2>. QED  BY <2>2, <2>3 DEF IInv, LotsSound, AveragesSound
<1>4. SellLotAgrees(o)
  <2>1. SUFFICES ASSUME o \in LotSells
                 PROVE  /\ audit[o].lot # NoLot
                        /\ orders[o].imported <= audit[o].remaining
                        /\ lots[audit[o].lot].remaining = audit[o].remaining - orders[o].imported
                        /\ lots[audit[o].lot].sold = audit[o].sold + orders[o].imported
    BY DEF SellLotAgrees
  <2>2. audit[o].lot # NoLot /\ audit[o].lot \in Buys
    BY <2>1, Rows DEF IInv, StuckFor
  <2>3. /\ lots[audit[o].lot].sold = audit[o].sold + orders[o].imported
        /\ lots[audit[o].lot].total = audit[o].remaining + audit[o].sold
    BY <2>1, <2>2 DEF StuckFor, LotMoved
  <2>4. /\ lots[audit[o].lot].remaining = lots[audit[o].lot].total - lots[audit[o].lot].sold
        /\ lots[audit[o].lot].remaining \in Nat
    BY <2>2, Rows DEF IInv, LotsSound
  <2>. QED  BY <1>1, <2>1, <2>2, <2>3, <2>4, Rows DEF IInv
<1>. QED  BY <1>2, <1>3, <1>4 DEF Resolvable, Recoverable

\* Any other order has a fill that can be imported: its lot takes it, and the
\* account would be short of shares if the position had none to sell.
LEMMA MissingResolves ==
  ASSUME IInv, ~doubtful, NEW o \in Orders, Ended(o), Missing(o) > 0, ~StuckFor(o)
  PROVE  Resolvable(o)
<1>1. /\ orders[o].qty \in Nat /\ orders[o].filled \in Nat /\ orders[o].imported \in Nat
      /\ orders[o].filled <= orders[o].qty /\ orders[o].imported + 1 <= orders[o].filled
      /\ orders[o].status \in {"SUBMITTED", "PARTIAL"}
  BY Rows DEF IInv, OrdersSound, Ended, IsUnresolved, UNRESOLVED_DB_ORDER_STATUSES, Missing,
       Statuses
<1>2. Importable(o, 1)
  BY <1>1 DEF Importable, ImportableStatuses
<1>3. LotImport(o, 1, 1) # {}
  <2>1. CASE o \in Buys
    <3>1. ~IsClosedLot(o)
      BY <2>1 DEF StuckFor
    <3>2. LotImport(o, 1, 1) = {[lots EXCEPT ![o] = LotAfterBuy(@, 1, 1)]}
      BY <2>1, <3>1, Constants DEF LotImport
    <3>. QED  BY <3>2
  <2>2. CASE o \in LotSells
    <3>1. audit[o].lot # NoLot /\ audit[o].lot \in Buys /\ o \notin Buys
      BY <2>2, Rows, Constants DEF IInv, StuckFor
    <3>2. /\ lots[audit[o].lot].sold = audit[o].sold + orders[o].imported
          /\ lots[audit[o].lot].total = audit[o].remaining + audit[o].sold
          /\ ~(audit[o].remaining < orders[o].qty)
      BY <2>2, <3>1 DEF StuckFor, LotMoved
    <3>3. /\ lots[audit[o].lot].remaining = lots[audit[o].lot].total - lots[audit[o].lot].sold
          /\ audit[o].remaining \in Nat /\ audit[o].sold \in Nat
      BY <2>2, <3>1, Rows DEF IInv, LotsSound
    <3>4. 1 <= lots[audit[o].lot].remaining
      BY <1>1, <3>2, <3>3
    <3>5. audit[o].lot \in {k \in {audit[o].lot} \ {NoLot} : 1 <= lots[k].remaining}
      BY <3>1, <3>4
    <3>. QED  BY <2>2, <3>1, <3>5, Zenon DEF LotImport
  <2>3. CASE o \notin Buys /\ o \notin LotSells
    BY <2>3, Zenon DEF LotImport
  <2>. QED  BY <2>1, <2>2, <2>3
<1>4. ASSUME SideOf(o) = "sell" PROVE position[SymbolOf[o]].qty > 0
  <2>1. PICK x \in Symbols : x = SymbolOf[o]
    BY Constants
  <2>2. PICK f : f = [p \in Orders |-> Missing(p)]
    OBVIOUS
  <2>3. \A p \in Orders : f[p] \in Nat
    BY <2>2, Rows DEF IInv, OrdersSound, Missing
  <2>4. o \in OrdersOf(x, "sell")
    BY <1>4, <2>1 DEF OrdersOf
  <2>5. \A p \in OrdersOf(x, "sell") : f[p] \in Nat
    BY <2>3 DEF OrdersOf
  <2>6. \A p \in OrdersOf(x, "buy") : f[p] \in Nat
    BY <2>3 DEF OrdersOf
  <2>7. MissingOf(x, "sell") \in Nat /\ f[o] <= MissingOf(x, "sell")
    BY <2>2, <2>4, <2>5, MissingSum, SumNat
  <2>8. MissingOf(x, "buy") \in Nat
    BY <2>2, <2>6, MissingSum, SumNat
  <2>9. f[o] \in Nat /\ f[o] > 0
    BY <2>2, <2>3
  <2>10. ~(outside[x] > 0) /\ ~(MissingOf(x, "buy") > 0)
    BY <1>4, <2>1 DEF StuckFor
  <2>11. Accounts(x) /\ broker[x] \in Nat /\ outside[x] \in Int /\ position[x].qty \in Nat
    BY <2>1 DEF IInv, Typed
  <2>. QED  BY <2>1, <2>7, <2>8, <2>9, <2>10, <2>11 DEF Accounts
<1>. QED  BY <1>2, <1>3, <1>4 DEF Resolvable

\* Every unresolved order that has ended at the broker can be imported,
\* finalised or cancelled by the programs of the repository, except for the
\* reasons StuckFor lists; and while the books agree there is no other.
THEOREM EndedOrdersResolve == Spec => []StuckOnlyForAReason
<1>1. ASSUME IInv PROVE StuckOnlyForAReason
  <2>1. SUFFICES ASSUME ~doubtful, NEW o \in Orders, Ended(o), ~StuckFor(o)
                 PROVE  Resolvable(o)
    BY DEF StuckOnlyForAReason
  <2>2. orders[o].filled \in Nat /\ Missing(o) \in Nat
    BY <1>1, Rows DEF IInv, OrdersSound, Missing
  <2>. QED  BY <1>1, <2>1, <2>2, UntouchedResolves, ImportedResolves, MissingResolves
<1>. QED  BY <1>1, Inductive, PTL
=============================================================================
