----------------------- MODULE SignalExecution_proofs -----------------------
(***************************************************************************)
(* Proofs about SignalExecution, for every set of executors, signals and   *)
(* symbols, every price, limit and number of mishaps.                      *)
(*                                                                         *)
(* The inductive invariant has three layers.  The first holds however many *)
(* passes run at once.  The second is about the time before two passes     *)
(* have overlapped: it ties what a pass remembers to the tables it was     *)
(* read from, several steps ago, and says why the order it is about to     *)
(* place is the only one of its symbol and side.  The third adds the limits*)
(* of the buy side, as long as no buy has gone astray.                     *)
(***************************************************************************)
EXTENDS SignalExecution, Sums_proofs, SequenceTheorems

-----------------------------------------------------------------------------
(* The inductive invariant                                                 *)

Sides == {"buy", "sell"}
LogRow == [kind : {"signal", "cleanup"}, signal : Signals]
LotRow == [symbol : Symbols, slot : Strategies, total : Nat \ {0}, remaining : Nat, order : Nat]
OrderRow ==
  [signal : Signals, symbol : Symbols, side : Sides, qty : Nat \ {0},
   status : Unresolved \union {"REJECTED", "FAILED", "FILLED", "CANCELLED"},
   numbered : BOOLEAN, broker : {"none", "working", "cancelled"},
   filled : Nat, booked : Nat, late : BOOLEAN]
OutcomeReasons == {"SUBMITTED", "UNKNOWN", "REJECTED", "FAILED"}
BlockReasons ==
  {"TRADE_DATE_MISMATCH", "BEFORE_START_TIME", "AFTER_CUTOFF_TIME",
   "STALE_SIGNAL_AGE_EXCEEDED", "LIVE_POSITION_EXISTS",
   "TIMING2_ENTRY_SLOT_ALREADY_USED", "LIVE_POSITION_WITHOUT_TIMING2_LOT",
   "UNRESOLVED_BUY_ORDER_EXISTS", "MAX_HOLDINGS_REACHED",
   "MAX_DAILY_ORDER_COUNT_REACHED", "INSUFFICIENT_AVAILABLE_CASH",
   "KILL_SWITCH_ENABLED", "MAX_DAILY_LOSS_REACHED", "LIVE_POSITION_MISSING",
   "ENTRY_LOT_NOT_OPEN", "SELL_QTY_EXCEEDS_LOT_REMAINING",
   "SELL_QTY_EXCEEDS_LIVE_POSITION", "UNRESOLVED_SELL_ORDER_EXISTS"}
Reasons == {"none"} \union BlockReasons \union OutcomeReasons
Ordering == {"pre_trade", "post", "posted"}
Steps ==
  {"idle", "superseded", "balance", "snapshot", "evaluate", "blocked", "place",
   "consume"} \union Ordering
SnapshotRecord ==
  [live : SUBSET Symbols, unresolved : SUBSET Symbols, active : SUBSET Symbols,
   cash : Nat, count : Nat]
Proc ==
  [pc : Steps, side : Sides, superseded : SUBSET Signals, todo : SUBSET Signals,
   snapshot : SnapshotRecord, signal : Signals \union {NoSignal}, qty : Nat,
   reason : Reasons, order : Nat]

Typed ==
  /\ found \in SUBSET Signals
  /\ log \in Seq(LogRow)
  /\ acted \in SUBSET Signals /\ stale \in SUBSET Signals
  /\ sellQty \in [Signals -> Nat]
  /\ orders \in Seq(OrderRow)
  /\ position \in [Symbols -> Nat]
  /\ lots \in Seq(LotRow)
  /\ cash \in Nat /\ crashes \in Nat
  /\ proc \in [Executors -> Proc]
  /\ overlapped \in BOOLEAN

Rows == 1..Len(orders)
IsUnresolved(i) == orders[i].status \in Unresolved

\* The lot of a lot-level exit is one of its symbol.
LotKnown(s) ==
  LotOf[s] > 0 => LotOf[s] \in 1..Len(lots) /\ lots[LotOf[s]].symbol = SymbolOf[s]

LogSound ==
  \A s \in Signals : IsRecorded(s) =>
    LotKnown(s) /\ (LotOf[s] > 0 => sellQty[s] > 0)

\* An order is what its signal asked for, and its status says what the broker
\* may still do with it.
OrderSound(i) ==
  /\ orders[i].symbol = SymbolOf[orders[i].signal]
  /\ StrategyOf[orders[i].signal] \in TriggersOf(orders[i].side)
  /\ LotKnown(orders[i].signal)
  /\ orders[i].booked <= orders[i].filled /\ orders[i].filled <= orders[i].qty
  /\ orders[i].broker = "none" => orders[i].filled = 0
  /\ orders[i].status = "FILLED" => orders[i].booked = orders[i].qty
  /\ orders[i].status = "CANCELLED" =>
       /\ orders[i].broker = "cancelled"
       /\ orders[i].late \/ orders[i].booked = orders[i].filled
  /\ orders[i].late => orders[i].status = "CANCELLED"
  /\ orders[i].status = "FAILED" => orders[i].broker = "none"

OrdersSound == \A i \in Rows : OrderSound(i)

AuditSound ==
  \A a \in audit : a.order # 0 => a.order \in Rows /\ orders[a.order].signal = a.signal

LotsSound ==
  \A l \in 1..Len(lots) :
    /\ lots[l].remaining <= lots[l].total
    /\ lots[l].order # 0 =>
         /\ lots[l].order \in Rows
         /\ lots[l].symbol = orders[lots[l].order].symbol
         /\ lots[l].slot = StrategyOf[orders[lots[l].order].signal]

LotsOf(x) == {l \in 1..Len(lots) : lots[l].symbol = x}
LotsCovered == \A x \in Symbols : SoldAsPosition(x) \/ Remaining(LotsOf(x)) <= position[x]

Lost ==
  {i \in Rows : /\ \A a \in audit : a.order # i
                /\ \A p \in Executors : proc[p].order # i}

\* What a pass works through, and the order it has on its way.
WorkSound(x) ==
  /\ x.pc # "idle" =>
       /\ x.todo # {}
       /\ \A s \in x.todo : IsRecorded(s) /\ StrategyOf[s] \in TriggersOf(x.side)
  /\ x.pc \in {"place", "consume"} \union Ordering => x.signal \in x.todo
  /\ x.pc = "place" => x.qty > 0
  /\ x.order # 0 =>
       /\ x.pc \in {"consume"} \union Ordering
       /\ x.order \in Rows /\ orders[x.order].signal = x.signal
       /\ orders[x.order].side = x.side
  /\ x.pc \in Ordering =>
       /\ x.order # 0
       /\ orders[x.order].status = "PENDING" /\ orders[x.order].qty = x.qty
  /\ x.pc \in {"pre_trade", "post"} => orders[x.order].broker = "none"
  /\ x.pc = "pre_trade" => x.side = "sell"
  /\ x.pc = "consume" /\ x.order # 0 => x.reason \in OutcomeReasons

\* OneOrderInFlight, without counting.
OneInFlight ==
  \A i, j \in Rows :
    IsUnresolved(i) /\ IsUnresolved(j)
    /\ orders[i].side = orders[j].side /\ orders[i].symbol = orders[j].symbol => i = j

SellsCovered ==
  \A i \in Rows, z \in Symbols :
    orders[i].side = "sell" /\ orders[i].symbol = z /\ IsUnresolved(i) =>
      FillsLate("sell", z) \/ orders[i].qty - orders[i].booked <= position[z]

OpenIn(x, slot) == {l \in LotsOf(x) : lots[l].slot = slot /\ IsOpen(lots[l])}

\* The symbols whose lots say nothing of what is held.
Blurred(x) == SoldAsPosition(x) \/ FillsLate("buy", x)

\* SlotEnteredOnce, without counting.
SlotOnce ==
  \A x \in Symbols, slot \in TIMING2_30S_ENTRY_SLOTS :
    \/ Blurred(x)
    \/ /\ \A l, k \in OpenIn(x, slot) : l = k
       /\ \A i \in Entries(x, slot) : \A l \in OpenIn(x, slot) : lots[l].order = i

\* The order a pass is about to place is the only one of its symbol and side.
PlaceSound(x) ==
  x.pc = "place" =>
    LET y == SymbolOf[x.signal] IN
    /\ y \notin UnresolvedSymbols(x.side)
    /\ x.side = "sell" => FillsLate("sell", y) \/ x.qty <= position[y]
    /\ x.side = "buy" /\ StrategyOf[x.signal] \in TIMING2_30S_ENTRY_SLOTS =>
         Blurred(y) \/ OpenIn(y, StrategyOf[x.signal]) = {}

Own(x) == IF x.pc \in Ordering THEN {SymbolOf[x.signal]} ELSE {}

\* What a buy pass has read of the orders and positions, some steps ago.
ViewSound(x) ==
  x.side = "buy" /\ x.pc \in {"evaluate", "place", "consume"} \union Ordering =>
    /\ UnresolvedSymbols("buy") \subseteq x.snapshot.unresolved \union Own(x)
    /\ \A z \in Symbols :
         z \notin x.snapshot.live \union x.snapshot.unresolved =>
           Blurred(z) \/ \A l \in LotsOf(z) : ~IsOpen(lots[l])

Active == LiveSymbols \union UnresolvedSymbols("buy")

\* What of the cash a pass has read is left at its order.
CashLeft(x) ==
  IF x.pc = "posted" /\ orders[x.order].broker # "none"
  THEN x.snapshot.cash - x.qty * Price[SymbolOf[x.signal]] ELSE x.snapshot.cash

\* What a buy pass has read of the limits, some steps ago.
SnapshotSound(x) ==
  x.side = "buy" =>
    /\ x.pc \in {"balance", "snapshot", "evaluate", "place", "consume"} =>
         Cardinality(Counted) <= x.snapshot.count
    /\ x.pc \in Ordering => Cardinality(Counted) <= x.snapshot.count + 1
    /\ x.pc \in {"snapshot", "evaluate", "place", "consume"} \union Ordering => CashLeft(x) <= cash
    /\ x.pc \in {"place"} \union Ordering => x.qty * Price[SymbolOf[x.signal]] <= x.snapshot.cash
    /\ x.pc \in {"evaluate", "place", "consume"} \union Ordering =>
         /\ Active \subseteq x.snapshot.active \union Own(x)
         /\ Cardinality(x.snapshot.active \union Own(x)) <= MaxHoldings
    /\ x.pc \in Ordering => LiveSymbols \subseteq x.snapshot.active
    /\ x.pc = "place" =>
         /\ x.snapshot.count < MaxDailyOrders
         /\ \/ SymbolOf[x.signal] \in x.snapshot.active
            \/ Cardinality(x.snapshot.active) < MaxHoldings

\* The memory of a pass.
Sound(x) ==
  /\ WorkSound(x)
  /\ overlapped \/ (PlaceSound(x) /\ ViewSound(x))
  /\ overlapped \/ Astray \/ SnapshotSound(x)

\* The tables, whatever overlaps.
TablesSound == LogSound /\ OrdersSound /\ AuditSound /\ LotsSound /\ LotsCovered

\* The tables as long as no two passes have overlapped.
OrdersAlone == OneInFlight /\ SellsCovered /\ SlotOnce

Distinct ==
  \A p, q \in Executors : p # q /\ proc[p].order # 0 => proc[p].order # proc[q].order

IInv ==
  /\ Typed /\ TablesSound
  /\ Cardinality(Lost) <= crashes
  /\ Distinct
  /\ overlapped \/ (~Overlap /\ OrdersAlone)
  /\ overlapped \/ Astray \/ Cardinality(Active) <= MaxHoldings
  /\ \A p \in Executors : Sound(proc[p])

-----------------------------------------------------------------------------
(* Frames                                                                  *)

LEMMA Constants ==
  /\ SymbolOf \in [Signals -> Symbols] /\ StrategyOf \in [Signals -> Strategies]
  /\ LotOf \in [Signals -> Nat] /\ Price \in [Symbols -> Nat \ {0}]
  /\ \A s \in Signals : StrategyOf[s] \in LotExits <=> LotOf[s] > 0
  /\ IsFiniteSet(Symbols) /\ InitPosition \in [Symbols -> Nat] /\ InitCash \in Nat
  /\ NoSignal \notin Signals
  /\ Budget \in Nat \ {0} /\ MaxHoldings \in Nat \ {0} /\ MaxDailyOrders \in Nat \ {0}
BY TablesAssumption, ExecutionAssumption

\* The rows of the orders table.
LEMMA OrderRows ==
  ASSUME Typed
  PROVE  /\ Len(orders) \in Nat /\ DOMAIN orders = Rows
         /\ \A i \in Rows : /\ i \in Nat /\ i # 0 /\ orders[i] \in OrderRow
                            /\ orders[i].signal \in Signals /\ orders[i].symbol \in Symbols
                            /\ orders[i].side \in Sides /\ orders[i].qty \in Nat \ {0}
                            /\ orders[i].filled \in Nat /\ orders[i].booked \in Nat
                            /\ orders[i].late \in BOOLEAN
<1>1. Len(orders) \in Nat /\ DOMAIN orders = Rows /\ \A i \in Rows : orders[i] \in OrderRow
  BY DEF Typed, Rows
<1>2. \A o \in OrderRow : /\ o.signal \in Signals /\ o.symbol \in Symbols /\ o.side \in Sides
                          /\ o.qty \in Nat \ {0} /\ o.filled \in Nat /\ o.booked \in Nat
                          /\ o.late \in BOOLEAN
  BY DEF OrderRow
<1>3. \A i \in Rows : i \in Nat /\ i # 0
  BY <1>1 DEF Rows
<1>. QED  BY <1>1, <1>2, <1>3

LEMMA LotRows ==
  ASSUME Typed
  PROVE  /\ Len(lots) \in Nat /\ DOMAIN lots = 1..Len(lots)
         /\ \A l \in 1..Len(lots) : /\ lots[l] \in LotRow
                                    /\ lots[l].symbol \in Symbols /\ lots[l].order \in Nat
                                    /\ lots[l].remaining \in Nat /\ lots[l].total \in Nat \ {0}
<1>1. Len(lots) \in Nat /\ DOMAIN lots = 1..Len(lots) /\ \A l \in 1..Len(lots) : lots[l] \in LotRow
  BY DEF Typed
<1>2. \A o \in LotRow : /\ o.symbol \in Symbols /\ o.remaining \in Nat /\ o.total \in Nat \ {0}
                        /\ o.order \in Nat
  BY DEF LotRow
<1>. QED  BY <1>1, <1>2

\* What is read off the orders, the lots and the positions.
LEMMA DerivedKept ==
  ASSUME UNCHANGED <<orders, position, lots>>
  PROVE  /\ Rows' = Rows /\ Counted' = Counted /\ Active' = Active /\ LiveSymbols' = LiveSymbols
         /\ Astray' = Astray
         /\ \A side : UnresolvedSymbols(side)' = UnresolvedSymbols(side)
         /\ \A side, z : FillsLate(side, z)' = FillsLate(side, z)
         /\ \A z : SoldAsPosition(z)' = SoldAsPosition(z) /\ LotsOf(z)' = LotsOf(z)
         /\ \A z : Blurred(z)' = Blurred(z)
         /\ \A z, slot : OpenIn(z, slot)' = OpenIn(z, slot) /\ Entries(z, slot)' = Entries(z, slot)
<1>1. Rows' = Rows /\ Counted' = Counted
  BY DEF Rows, Counted
<1>2. \A side : UnresolvedSymbols(side)' = UnresolvedSymbols(side)
  BY DEF UnresolvedSymbols, FindUnresolved
<1>3. Active' = Active /\ LiveSymbols' = LiveSymbols
  BY <1>2 DEF Active, LiveSymbols
<1>4. \A z : SoldAsPosition(z)' = SoldAsPosition(z)
  BY DEF SoldAsPosition
<1>5. \A side, z : FillsLate(side, z)' = FillsLate(side, z)
  BY DEF FillsLate, Orders
<1>6. \A z : LotsOf(z)' = LotsOf(z) /\ Blurred(z)' = Blurred(z)
  BY <1>4, <1>5 DEF LotsOf, Blurred
<1>7. \A z, slot : OpenIn(z, slot)' = OpenIn(z, slot) /\ Entries(z, slot)' = Entries(z, slot)
  BY DEF OpenIn, LotsOf, IsOpen, Entries, InFlight
<1>8. Astray' = Astray
  BY DEF Astray, BuyOrders
<1>. QED  BY <1>1, <1>2, <1>3, <1>4, <1>5, <1>6, <1>7, <1>8

LEMMA SoundKept ==
  ASSUME UNCHANGED <<orders, position, lots, cash>>, overlapped => overlapped',
         \A s : IsRecorded(s) => IsRecorded(s)', NEW x, Sound(x)
  PROVE  Sound(x)'
<1>1. /\ Rows' = Rows /\ Counted' = Counted /\ Active' = Active /\ LiveSymbols' = LiveSymbols
      /\ Astray' = Astray
      /\ \A side : UnresolvedSymbols(side)' = UnresolvedSymbols(side)
      /\ \A side, z : FillsLate(side, z)' = FillsLate(side, z)
      /\ \A z : SoldAsPosition(z)' = SoldAsPosition(z) /\ LotsOf(z)' = LotsOf(z)
      /\ \A z : Blurred(z)' = Blurred(z)
      /\ \A z, slot : OpenIn(z, slot)' = OpenIn(z, slot)
  BY DerivedKept
<1>2. WorkSound(x)'
  BY <1>1 DEF Sound, WorkSound
<1>3. PlaceSound(x) => PlaceSound(x)'
  BY <1>1 DEF PlaceSound
<1>4. ViewSound(x) => ViewSound(x)'
  BY <1>1 DEF ViewSound, Own, IsOpen
<1>5. CashLeft(x)' = CashLeft(x)
  BY DEF CashLeft
<1>6. SnapshotSound(x) => SnapshotSound(x)'
  BY <1>1, <1>5 DEF SnapshotSound, Own
<1>. QED  BY <1>1, <1>2, <1>3, <1>4, <1>6 DEF Sound

LEMMA TablesKept ==
  ASSUME TablesSound, UNCHANGED <<log, sellQty, orders, position, lots>>, AuditSound'
  PROVE  TablesSound'
<1>1. /\ Rows' = Rows
      /\ \A z : SoldAsPosition(z)' = SoldAsPosition(z) /\ LotsOf(z)' = LotsOf(z)
  BY DerivedKept
<1>2. LogSound' /\ LotsSound'
  BY <1>1 DEF TablesSound, LogSound, LotsSound, LotKnown, IsRecorded
<1>3. OrdersSound'
  BY <1>1 DEF TablesSound, OrdersSound, OrderSound, LotKnown
<1>4. LotsCovered'
  BY <1>1 DEF TablesSound, LotsCovered, Remaining
<1>. QED  BY <1>2, <1>3, <1>4 DEF TablesSound

LEMMA AloneKept ==
  ASSUME OrdersAlone, UNCHANGED <<orders, position, lots>>
  PROVE  OrdersAlone'
<1>1. /\ Rows' = Rows
      /\ \A side, z : FillsLate(side, z)' = FillsLate(side, z)
      /\ \A z : Blurred(z)' = Blurred(z)
      /\ \A z, slot : OpenIn(z, slot)' = OpenIn(z, slot) /\ Entries(z, slot)' = Entries(z, slot)
  BY DerivedKept
<1>2. OneInFlight' /\ SellsCovered'
  BY <1>1 DEF OrdersAlone, OneInFlight, SellsCovered, IsUnresolved
<1>3. SlotOnce'
  BY <1>1 DEF OrdersAlone, SlotOnce
<1>. QED  BY <1>2, <1>3 DEF OrdersAlone

LEMMA Finite ==
  ASSUME Typed
  PROVE  /\ IsFiniteSet(Rows) /\ IsFiniteSet(Lost) /\ IsFiniteSet(Counted)
         /\ Active \in SUBSET Symbols /\ IsFiniteSet(Active)
         /\ \A side : UnresolvedSymbols(side) \in SUBSET Symbols
<1>1. IsFiniteSet(Rows)
  BY OrderRows, FS_Interval DEF Rows
<1>2. Lost \subseteq Rows /\ Counted \subseteq Rows
  BY DEF Lost, Counted, Rows
<1>3. \A side : UnresolvedSymbols(side) \in SUBSET Symbols
  BY OrderRows DEF UnresolvedSymbols, FindUnresolved, Rows
<1>4. Active \in SUBSET Symbols
  BY <1>3 DEF Active, LiveSymbols
<1>. QED  BY <1>1, <1>2, <1>3, <1>4, FS_Subset, Constants

LEMMA SoundOf ==
  ASSUME NEW y, Sound(y)', NEW q, proc'[q] = y
  PROVE  Sound(proc[q])'
<1>1. WorkSound(y)' => WorkSound(proc[q])'
  BY DEF WorkSound
<1>2. PlaceSound(y)' /\ ViewSound(y)' => PlaceSound(proc[q])' /\ ViewSound(proc[q])'
  BY DEF PlaceSound, ViewSound, Own
<1>3. SnapshotSound(y)' => SnapshotSound(proc[q])'
  BY DEF SnapshotSound, CashLeft, Own
<1>. QED  BY <1>1, <1>2, <1>3 DEF Sound

\* A step of one pass that leaves the tables alone, but for the row it may
\* consume.
LEMMA MoveKeeps ==
  ASSUME IInv, NEW p \in Executors, NEW y \in Proc, Sound(y),
         proc' = [proc EXCEPT ![p] = y],
         overlapped' = (overlapped \/ Overlap'),
         UNCHANGED <<found, log, stale, sellQty, orders, position, lots, cash, crashes>>,
         \/ UNCHANGED <<acted, audit>> /\ y.order = proc[p].order
         \/ /\ y.order = 0
            /\ \E s \in Signals : \E r :
                 /\ Consume(s, r, proc[p].order)
                 /\ proc[p].order # 0 => s = proc[p].signal
  PROVE  IInv'
<1>1. Typed /\ Typed'
  <2>1. proc' \in [Executors -> Proc]
    BY DEF IInv, Typed
  <2>2. acted' \in SUBSET Signals
    BY DEF IInv, Typed, Consume
  <2>3. overlapped' \in BOOLEAN
    BY DEF IInv, Typed, Overlap
  <2>. QED  BY <2>1, <2>2, <2>3 DEF IInv, Typed
<1>2. proc'[p] = y /\ \A q \in Executors : q # p => proc'[q] = proc[q]
  BY <1>1 DEF Typed
<1>3. proc[p] \in Proc /\ Sound(proc[p]) /\ proc[p].order \in Nat
  BY <1>1 DEF Typed, IInv, Proc
<1>4. /\ acted \subseteq acted' /\ audit \subseteq audit'
      /\ \A a \in audit' : a \in audit \/ (a.order = proc[p].order /\ (a.order # 0 => a.signal = proc[p].signal))
      /\ \/ y.order = proc[p].order
         \/ /\ y.order = 0
            /\ proc[p].order # 0 => \E a \in audit' : a.order = proc[p].order
  <2>1. CASE UNCHANGED <<acted, audit>> /\ y.order = proc[p].order
    BY <2>1
  <2>2. CASE /\ y.order = 0
             /\ \E s \in Signals : \E r :
                 /\ Consume(s, r, proc[p].order)
                 /\ proc[p].order # 0 => s = proc[p].signal
    <3>0. PICK s \in Signals : \E r : Consume(s, r, proc[p].order) /\ (proc[p].order # 0 => s = proc[p].signal)
      BY <2>2
    <3>1. PICK r : Consume(s, r, proc[p].order) /\ (proc[p].order # 0 => s = proc[p].signal)
      BY <3>0
    <3>2. PICK a : a = [signal |-> s, reason |-> r, order |-> proc[p].order]
      OBVIOUS
    <3>3. a.signal = s /\ a.order = proc[p].order
      BY <3>2
    <3>4. acted' = acted \union {s} /\ audit' = audit \union {a}
      BY <3>1, <3>2 DEF Consume
    <3>. QED  BY <2>2, <3>1, <3>3, <3>4
  <2>. QED  BY <2>1, <2>2
<1>5. proc[p].order # 0 => proc[p].order \in Rows /\ orders[proc[p].order].signal = proc[p].signal
  BY <1>3 DEF Sound, WorkSound
<1>6. Rows' = Rows /\ \A i \in Rows : i # 0
  BY <1>1, OrderRows DEF Rows
<1>7. AuditSound'
  BY <1>4, <1>5, <1>6 DEF IInv, TablesSound, AuditSound
<1>8. Distinct'
  <2>1. y.order = proc[p].order \/ y.order = 0
    BY <1>4
  <2>2. \A a, b \in Executors : a # b /\ proc[a].order # 0 => proc[a].order # proc[b].order
    BY DEF IInv, Distinct
  <2>3. ASSUME NEW a \in Executors, NEW b \in Executors, a # b, proc'[a].order # 0,
               proc'[a].order = proc'[b].order
        PROVE  FALSE
    <3>1. CASE a = p
      BY <1>2, <2>1, <2>2, <2>3, <3>1
    <3>2. CASE b = p
      BY <1>2, <2>1, <2>2, <2>3, <3>2
    <3>3. CASE a # p /\ b # p
      BY <1>2, <2>2, <2>3, <3>3
    <3>. QED  BY <3>1, <3>2, <3>3
  <2>. QED  BY <2>3 DEF Distinct
<1>9. Cardinality(Lost') <= crashes'
  <2>1. Lost' \subseteq Lost
    <3>. SUFFICES ASSUME NEW i \in Rows, i \notin Lost,
                         \A a \in audit' : a.order # i, \A q \in Executors : proc'[q].order # i
                  PROVE  FALSE
      BY <1>6 DEF Lost
    <3>1. \A a \in audit : a.order # i
      BY <1>4
    <3>2. PICK q \in Executors : proc[q].order = i
      BY <3>1 DEF Lost
    <3>3. q = p
      BY <1>2, <3>2
    <3>. QED  BY <1>2, <1>4, <1>6, <3>2, <3>3
  <2>2. Cardinality(Lost') <= Cardinality(Lost) /\ Cardinality(Lost) \in Nat /\ Cardinality(Lost') \in Nat
    BY <1>1, <2>1, Finite, FS_Subset, FS_CardinalityType
  <2>. QED  BY <1>1, <2>2 DEF IInv, Typed
<1>10. TablesSound'
  BY <1>7, TablesKept DEF IInv
<1>11. overlapped' \/ (~Overlap' /\ OrdersAlone')
  BY AloneKept DEF IInv
<1>12. overlapped' \/ Astray' \/ Cardinality(Active') <= MaxHoldings
  BY DerivedKept DEF IInv
<1>13. \A q \in Executors : Sound(proc[q])'
  <2>0. \A s : IsRecorded(s) => IsRecorded(s)'
    BY DEF IsRecorded, Recorded
  <2>1. Sound(y)'
    BY <2>0, SoundKept
  <2>2. ASSUME NEW q \in Executors, q # p PROVE Sound(proc[q])'
    <3>1. PICK x : x = proc[q]
      OBVIOUS
    <3>2. Sound(x)
      BY <3>1 DEF IInv
    <3>3. Sound(x)'
      BY <2>0, <3>2, SoundKept
    <3>4. proc'[q] = x
      BY <1>2, <2>2, <3>1
    <3>. QED  BY <3>3, <3>4, SoundOf
  <2>. QED  BY <1>2, <2>1, <2>2, SoundOf
<1>. QED  BY <1>1, <1>8, <1>9, <1>10, <1>11, <1>12, <1>13 DEF IInv

-----------------------------------------------------------------------------
(* The candidates                                                          *)

LEMMA ScannedRow ==
  ASSUME Typed, NEW s, IsRecorded(s)
  PROVE  Scanned(s) \in Nat /\ log[Scanned(s)] = Recorded(s)
<1>1. \E i \in 1..Len(log) : log[i] = Recorded(s)
  BY DEF IsRecorded
<1>2. PICK n : n = Scanned(s)
  OBVIOUS
<1>3. n \in 1..Len(log) /\ log[n] = Recorded(s)
  BY <1>1, <1>2 DEF Scanned
<1>. QED  BY <1>2, <1>3

\* Of any recorded signals one comes first.
LEMMA Least ==
  ASSUME Typed, NEW S \in SUBSET Signals, S # {}, \A s \in S : IsRecorded(s)
  PROVE  \E s \in S : \A t \in S : t = s \/ Before(s, t)
<1>. DEFINE P == {Priority(StrategyOf[s]) : s \in S}
<1>1. \A s \in S : Priority(StrategyOf[s]) \in Nat
  BY DEF Priority
<1>2. PICK m \in P : m \in Nat /\ \A k \in P : m <= k
  <2>1. P \in SUBSET Nat /\ P # {}
    BY <1>1
  <2>. HIDE DEF P
  <2>. QED  BY <2>1, NatMin
<1>. DEFINE T == {s \in S : Priority(StrategyOf[s]) = m}
            Q == {Scanned(s) : s \in T}
<1>3. T # {}
  BY <1>2
<1>4. PICK n \in Q : n \in Nat /\ \A k \in Q : n <= k
  <2>1. \A s \in S : Scanned(s) \in Nat
    BY ScannedRow
  <2>2. Q \in SUBSET Nat /\ Q # {}
    BY <1>3, <2>1
  <2>. HIDE DEF Q
  <2>. QED  BY <2>2, NatMin
<1>5. PICK s \in T : Scanned(s) = n
  BY <1>4
<1>6. ASSUME NEW t \in S PROVE t = s \/ Before(s, t)
  <2>1. m \in Nat /\ Priority(StrategyOf[t]) \in Nat /\ m <= Priority(StrategyOf[t])
    BY <1>1, <1>2
  <2>2. CASE m < Priority(StrategyOf[t])
    BY <1>5, <2>2 DEF Before
  <2>3. CASE m = Priority(StrategyOf[t])
    <3>1. n <= Scanned(t) /\ Scanned(t) \in Nat /\ n \in Nat
      BY <1>4, <2>3, ScannedRow
    <3>2. Scanned(t) = n => t = s
      <4>1. log[Scanned(t)] = Recorded(t) /\ log[Scanned(s)] = Recorded(s)
        BY ScannedRow
      <4>2. Recorded(t).signal = t /\ Recorded(s).signal = s
        BY DEF Recorded
      <4>. QED  BY <1>5, <4>1, <4>2
    <3>3. Priority(StrategyOf[s]) = Priority(StrategyOf[t])
      BY <1>5, <2>3
    <3>4. Scanned(s) < Scanned(t) => Before(s, t)
      BY <3>3 DEF Before
    <3>. QED  BY <1>5, <3>1, <3>2, <3>4
  <2>. QED  BY <2>1, <2>2, <2>3
<1>. QED  BY <1>5, <1>6

LEMMA FirstOf ==
  ASSUME Typed, NEW S \in SUBSET Signals, S # {}, \A s \in S : IsRecorded(s)
  PROVE  First(S) \in S
BY Least DEF First

\* The candidates of a pass, and those that are left of them.
LEMMA Candidates ==
  ASSUME Typed, NEW side \in Sides
  PROVE  LET C == PendingCandidates(TriggersOf(side)) IN
         /\ C \in SUBSET Signals
         /\ \A s \in C : IsRecorded(s) /\ s \notin acted /\ StrategyOf[s] \in TriggersOf(side)
         /\ C # {} => Primary(C) # {}
         /\ Primary(C) \subseteq C
<1>. DEFINE C == PendingCandidates(TriggersOf(side))
<1>1. ASSUME NEW s \in C
      PROVE  s \in Signals /\ IsRecorded(s) /\ s \notin acted /\ StrategyOf[s] \in TriggersOf(side)
  <2>1. PICK i \in UnactedRows : /\ log[i].kind = "signal" /\ s = log[i].signal
                                 /\ StrategyOf[s] \in TriggersOf(side)
    BY DEF PendingCandidates, ListUnacted
  <2>2. i \in 1..Len(log) /\ s \notin acted
    BY <2>1 DEF UnactedRows
  <2>3. log[i] \in LogRow
    BY <2>2 DEF Typed
  <2>4. s \in Signals /\ log[i] = Recorded(s)
    BY <2>1, <2>3 DEF LogRow, Recorded
  <2>. QED  BY <2>1, <2>2, <2>4 DEF IsRecorded
<1>. HIDE DEF C
<1>2. Primary(C) \subseteq C
  BY DEF Primary
<1>3. ASSUME C # {} PROVE Primary(C) # {}
  <2>1. PICK s \in C : \A t \in C : t = s \/ Before(s, t)
    BY <1>1, <1>3, Least
  <2>. QED  BY <2>1 DEF Primary, IsWinner
<1>. QED  BY <1>1, <1>2, <1>3 DEF C

LEMMA IdleSound == Idle \in Proc /\ Idle.order = 0 /\ Sound(Idle)
<1>1. Idle \in Proc /\ Idle.order = 0
  BY DEF Idle, Proc, Steps, Sides, SnapshotRecord, NoSnapshot, Reasons
<1>2. Sound(Idle)
  BY DEF Idle, Sound, WorkSound, PlaceSound, ViewSound, SnapshotSound, Ordering
<1>. QED  BY <1>1, <1>2

\* The pass after candidate s.
LEMMA Advanced ==
  ASSUME Typed, NEW x \in Proc, Sound(x), x.pc \in {"blocked", "consume"},
         NEW s \in x.todo, x.order # 0 => s = x.signal
  PROVE  Advance(x, s) \in Proc /\ Advance(x, s).order = 0 /\ Sound(Advance(x, s))
<1>. PICK y : y = Advance(x, s)
  OBVIOUS
<1>1. CASE x.todo = {s}
  <2>1. y = Idle
    BY <1>1 DEF Advance
  <2>. QED  BY <2>1, IdleSound
<1>2. CASE x.todo # {s}
  <2>1. /\ y = [x EXCEPT !.todo = @ \ {s}, !.signal = NoSignal, !.order = 0,
                         !.qty = 0, !.reason = IF x.pc = "blocked" THEN @ ELSE "none",
                         !.pc = IF x.pc = "blocked" THEN "blocked" ELSE "evaluate"]
    BY <1>2 DEF Advance
  <2>2. y \in Proc
    <3>1. PICK r : r = IF x.pc = "blocked" THEN x.reason ELSE "none"
      OBVIOUS
    <3>2. PICK c : c = IF x.pc = "blocked" THEN "blocked" ELSE "evaluate"
      OBVIOUS
    <3>3. /\ x.reason \in Reasons
          /\ x.todo \in SUBSET Signals
      BY DEF Proc
    <3>4. /\ r \in Reasons
          /\ c \in Steps /\ x.todo \ {s} \in SUBSET Signals
      BY <3>1, <3>2, <3>3 DEF Steps, Reasons
    <3>5. y = [pc |-> c, side |-> x.side, superseded |-> x.superseded,
               todo |-> x.todo \ {s}, snapshot |-> x.snapshot, signal |-> NoSignal,
               qty |-> 0, reason |-> r, order |-> 0]
      BY <2>1, <3>1, <3>2 DEF Proc
    <3>. QED  BY <3>4, <3>5 DEF Proc
  <2>3. /\ y.todo = x.todo \ {s} /\ y.order = 0 /\ y.pc = IF x.pc = "blocked" THEN "blocked" ELSE "evaluate"
        /\ y.side = x.side /\ y.snapshot = x.snapshot
    BY <2>1 DEF Proc
  <2>4. WorkSound(y) /\ PlaceSound(y)
    BY <1>2, <2>3 DEF Sound, WorkSound, PlaceSound, Ordering
  <2>5. ViewSound(x) => ViewSound(y)
    BY <2>3 DEF ViewSound, Own, Ordering
  <2>6. SnapshotSound(x) => SnapshotSound(y)
    BY <2>3 DEF SnapshotSound, Own, CashLeft, Ordering
  <2>. QED  BY <2>2, <2>3, <2>4, <2>5, <2>6 DEF Sound
<1>. QED  BY <1>1, <1>2

-----------------------------------------------------------------------------
(* The steps of the executor that place no order                           *)

LEMMA ProcOf ==
  ASSUME IInv, NEW p \in Executors
  PROVE  /\ Typed /\ proc[p] \in Proc /\ Sound(proc[p])
         /\ proc[p].side \in Sides /\ proc[p].todo \in SUBSET Signals
         /\ proc[p].superseded \in SUBSET Signals /\ proc[p].snapshot \in SnapshotRecord
         /\ proc[p].qty \in Nat /\ proc[p].reason \in Reasons /\ proc[p].order \in Nat
         /\ proc[p].snapshot.cash \in Nat /\ proc[p].snapshot.count \in Nat
         /\ proc[p].snapshot.live \in SUBSET Symbols /\ proc[p].snapshot.unresolved \in SUBSET Symbols
         /\ proc[p].snapshot.active \in SUBSET Symbols
<1>1. Typed /\ proc[p] \in Proc /\ Sound(proc[p])
  BY DEF IInv, Typed
<1>. QED  BY <1>1 DEF Proc, SnapshotRecord

\* A pass that is not running an order has none.
LEMMA NoOrder ==
  ASSUME NEW x, Sound(x), x.pc \notin {"consume"} \union Ordering
  PROVE  x.order = 0
BY DEF Sound, WorkSound

LEMMA StartKeeps ==
  ASSUME IInv, overlapped' = (overlapped \/ Overlap'), NEW p \in Executors, NEW side \in Sides, Start(p, side)
  PROVE  IInv'
<1>. DEFINE C == PendingCandidates(TriggersOf(side))
<1>1. PICK D : D = Primary(C)
  OBVIOUS
<1>2. PICK E : E = {s \in Superseded(C) : ConsumedWhenSuperseded(side, s)}
  OBVIOUS
<1>3. PICK y : y = [Idle EXCEPT !.pc = "superseded", !.side = side, !.todo = D, !.superseded = E]
  OBVIOUS
<1>4. proc' = [proc EXCEPT ![p] = y] /\ UNCHANGED tableVars /\ proc[p].pc = "idle" /\ C # {}
  BY <1>1, <1>2, <1>3, Zenon DEF Start, At
<1>5. Typed /\ Sound(proc[p]) /\ proc[p].order = 0
  BY <1>4, ProcOf, NoOrder DEF Ordering, Ordering
<1>6. /\ C \in SUBSET Signals /\ D \subseteq C /\ D # {}
      /\ \A s \in D : IsRecorded(s) /\ s \notin acted /\ StrategyOf[s] \in TriggersOf(side)
  BY <1>1, <1>4, <1>5, Candidates
<1>7. E \subseteq C
  BY <1>2 DEF Superseded
<1>. HIDE DEF C
<1>8. y \in Proc
  <2>1. "superseded" \in Steps /\ D \in SUBSET Signals /\ E \in SUBSET Signals
    BY <1>6, <1>7 DEF Steps
  <2>. QED  BY <1>3, <2>1, IdleSound DEF Proc
<1>9. y.order = 0 /\ y.pc = "superseded" /\ y.todo = D /\ y.side = side
  BY <1>3, IdleSound DEF Proc
<1>10. WorkSound(y)
  BY <1>6, <1>9 DEF WorkSound, Ordering
<1>11. PlaceSound(y) /\ ViewSound(y) /\ SnapshotSound(y)
  BY <1>9 DEF PlaceSound, ViewSound, SnapshotSound, Ordering
<1>12. UNCHANGED <<found, log, acted, stale, sellQty, audit, orders, position, lots, cash, crashes>>
  BY <1>4 DEF tableVars
<1>. QED  BY <1>4, <1>5, <1>8, <1>9, <1>10, <1>11, <1>12, MoveKeeps DEF Sound

LEMMA ConsumeSupersededKeeps ==
  ASSUME IInv, overlapped' = (overlapped \/ Overlap'), NEW p \in Executors, ConsumeSuperseded(p)
  PROVE  IInv'
<1>1. PICK x : x = proc[p]
  OBVIOUS
<1>2. PICK s \in x.superseded : /\ Consume(s, "SUPERSEDED_BY_HIGHER_PRIORITY", 0)
                                /\ proc' = [proc EXCEPT ![p].superseded = @ \ {s}]
  BY <1>1 DEF ConsumeSuperseded
<1>3. x \in Proc /\ Sound(x) /\ x.pc = "superseded" /\ x.order = 0 /\ s \in Signals
  BY <1>1, <1>2, ProcOf, NoOrder DEF Ordering, ConsumeSuperseded, At
<1>4. PICK y : y = [x EXCEPT !.superseded = x.superseded \ {s}]
  OBVIOUS
<1>5. proc' = [proc EXCEPT ![p] = y]
  BY <1>1, <1>2, <1>4
<1>6. y \in Proc
  BY <1>3, <1>4 DEF Proc
<1>7. y.pc = x.pc /\ y.order = x.order /\ y.todo = x.todo /\ y.side = x.side
  BY <1>3, <1>4 DEF Proc
<1>8. Sound(y)
  BY <1>3, <1>7 DEF Sound, WorkSound, PlaceSound, ViewSound, SnapshotSound, Ordering
<1>9. UNCHANGED <<found, log, stale, sellQty, orders, position, lots, cash, crashes>>
  BY DEF ConsumeSuperseded
<1>10. \E t \in Signals : \E r : Consume(t, r, x.order) /\ (x.order # 0 => t = x.signal)
  BY <1>2, <1>3
<1>. QED  BY <1>1, <1>3, <1>5, <1>6, <1>7, <1>8, <1>9, <1>10, MoveKeeps

LEMMA GuardKeeps ==
  ASSUME IInv, overlapped' = (overlapped \/ Overlap'), NEW p \in Executors, Guard(p)
  PROVE  IInv'
<1>1. PICK x : x = proc[p]
  OBVIOUS
<1>2. /\ Typed /\ x \in Proc /\ Sound(x) /\ x.pc = "superseded" /\ x.order = 0
      /\ x.side \in Sides /\ x.snapshot \in SnapshotRecord
  BY <1>1, ProcOf, NoOrder DEF Ordering, Guard, At
<1>3. PICK reason : reason = GuardOf(x.side)
  OBVIOUS
<1>4. reason \in Reasons
  BY <1>3 DEF GuardOf, BuyBlockedByGuard, SellBlockedByGuard, Reasons, BlockReasons
<1>5. PICK n : n = Len(orders)
  OBVIOUS
<1>6. Cardinality(Counted) \in Nat /\ Cardinality(Counted) <= n /\ n \in Nat
  <2>1. IsFiniteSet(Rows) /\ Cardinality(Rows) = n /\ n \in Nat
    <3>1. n \in Nat /\ Rows = 1..n
      BY <1>2, <1>5, OrderRows DEF Rows
    <3>. QED  BY <3>1, FS_Interval
  <2>2. Counted \subseteq Rows
    BY DEF Counted, Rows
  <2>. QED  BY <2>1, <2>2, FS_Subset, FS_CardinalityType
<1>7. PICK y : y = CASE reason = "none" /\ x.side = "buy" ->
                          [x EXCEPT !.pc = "balance", !.snapshot.count = n]
                     [] reason = "none" /\ x.side = "sell" -> [x EXCEPT !.pc = "evaluate"]
                     [] reason # "none" /\ x.side = "buy" ->
                          [x EXCEPT !.pc = "blocked", !.reason = reason]
                     [] OTHER -> Idle
  OBVIOUS
<1>8. proc' = [proc EXCEPT ![p] = y] /\ UNCHANGED tableVars
  BY <1>1, <1>3, <1>5, <1>7, Zenon DEF Guard, OrdersToday
<1>9. y \in Proc /\ y.order = 0 /\ Sound(y)
  <2>1. CASE reason = "none" /\ x.side = "buy"
    <3>1. y = [x EXCEPT !.pc = "balance", !.snapshot = [x.snapshot EXCEPT !.count = n]]
      BY <1>2, <1>7, <2>1 DEF Proc
    <3>2. [x.snapshot EXCEPT !.count = n] \in SnapshotRecord /\ [x.snapshot EXCEPT !.count = n].count = n
      BY <1>2, <1>6 DEF SnapshotRecord
    <3>3. "balance" \in Steps
      BY DEF Steps
    <3>. HIDE DEF Steps, SnapshotRecord
    <3>4. /\ y \in Proc /\ y.order = x.order /\ y.pc = "balance" /\ y.todo = x.todo /\ y.side = x.side
          /\ y.snapshot.count = n
      BY <1>2, <3>1, <3>2, <3>3 DEF Proc
    <3>5. WorkSound(y) /\ PlaceSound(y)
      BY <1>2, <3>4 DEF Sound, WorkSound, PlaceSound, Ordering
    <3>6. ViewSound(y) /\ SnapshotSound(y)
      BY <1>6, <3>4 DEF ViewSound, SnapshotSound, Ordering
    <3>. QED  BY <1>2, <3>4, <3>5, <3>6 DEF Sound
  <2>2. CASE reason = "none" /\ x.side = "sell"
    <3>1. y = [x EXCEPT !.pc = "evaluate"]
      BY <1>7, <2>2
    <3>2. /\ y \in Proc /\ y.order = x.order /\ y.pc = "evaluate" /\ y.todo = x.todo /\ y.side = "sell"
      BY <1>2, <2>2, <3>1 DEF Proc, Steps
    <3>. QED  BY <1>2, <2>2, <3>2 DEF Sound, WorkSound, PlaceSound, ViewSound, SnapshotSound, Ordering
  <2>3. CASE reason # "none" /\ x.side = "buy"
    <3>1. y = [x EXCEPT !.pc = "blocked", !.reason = reason]
      BY <1>7, <2>3
    <3>2. "blocked" \in Steps
      BY DEF Steps
    <3>3. /\ y \in Proc /\ y.order = x.order /\ y.pc = "blocked" /\ y.todo = x.todo /\ y.side = x.side
      BY <1>2, <1>4, <3>1, <3>2 DEF Proc
    <3>. QED  BY <1>2, <3>3 DEF Sound, WorkSound, PlaceSound, ViewSound, SnapshotSound, Ordering
  <2>4. CASE reason # "none" /\ x.side = "sell"
    <3>1. y = Idle
      BY <1>7, <2>4
    <3>. QED  BY <3>1, IdleSound
  <2>. QED  BY <1>2, <2>1, <2>2, <2>3, <2>4 DEF Sides
<1>10. UNCHANGED <<found, log, acted, stale, sellQty, audit, orders, position, lots, cash, crashes>>
  BY <1>8 DEF tableVars
<1>. QED  BY <1>1, <1>2, <1>8, <1>9, <1>10, MoveKeeps

LEMMA ConsumeBlockedKeeps ==
  ASSUME IInv, overlapped' = (overlapped \/ Overlap'), NEW p \in Executors, ConsumeBlocked(p)
  PROVE  IInv'
<1>1. PICK x : x = proc[p]
  OBVIOUS
<1>2. PICK s : s = First(x.todo)
  OBVIOUS
<1>3. Typed /\ x \in Proc /\ Sound(x) /\ x.pc = "blocked" /\ x.order = 0 /\ x.todo \in SUBSET Signals
  BY <1>1, ProcOf, NoOrder DEF Ordering, ConsumeBlocked, At
<1>4. s \in x.todo
  BY <1>2, <1>3, FirstOf DEF Sound, WorkSound
<1>5. PICK y : y = Advance(x, s)
  OBVIOUS
<1>6. /\ Consume(s, x.reason, 0) /\ proc' = [proc EXCEPT ![p] = y]
      /\ UNCHANGED <<found, log, stale, sellQty, orders, position, lots, cash, crashes>>
  BY <1>1, <1>2, <1>5 DEF ConsumeBlocked
<1>7. y \in Proc /\ y.order = 0 /\ Sound(y)
  BY <1>3, <1>4, <1>5, Advanced
<1>8. \E t \in Signals : \E r : Consume(t, r, x.order) /\ (x.order # 0 => t = x.signal)
  BY <1>3, <1>4, <1>6
<1>. QED  BY <1>1, <1>6, <1>7, <1>8, MoveKeeps

LEMMA ConsumeDecidedKeeps ==
  ASSUME IInv, overlapped' = (overlapped \/ Overlap'), NEW p \in Executors, ConsumeDecided(p)
  PROVE  IInv'
<1>1. PICK x : x = proc[p]
  OBVIOUS
<1>2. PICK s : s = x.signal
  OBVIOUS
<1>3. Typed /\ x \in Proc /\ Sound(x) /\ x.pc = "consume" /\ x.todo \in SUBSET Signals
  BY <1>1, ProcOf DEF ConsumeDecided, At
<1>4. s \in x.todo
  BY <1>2, <1>3 DEF Sound, WorkSound
<1>5. PICK y : y = Advance(x, s)
  OBVIOUS
<1>6. /\ IF x.side = "buy" \/ ShouldConsume(s, x.reason)
         THEN Consume(s, x.reason, x.order) ELSE UNCHANGED <<acted, audit>>
      /\ proc' = [proc EXCEPT ![p] = y]
      /\ UNCHANGED <<found, log, stale, sellQty, orders, position, lots, cash, crashes>>
  BY <1>1, <1>2, <1>5 DEF ConsumeDecided
<1>7. y \in Proc /\ y.order = 0 /\ Sound(y)
  BY <1>2, <1>3, <1>4, <1>5, Advanced
<1>8. CASE x.side = "buy" \/ ShouldConsume(s, x.reason)
  <2>1. \E t \in Signals : \E r : Consume(t, r, x.order) /\ (x.order # 0 => t = x.signal)
    BY <1>2, <1>3, <1>4, <1>6, <1>8
  <2>. QED  BY <1>1, <1>6, <1>7, <2>1, MoveKeeps
<1>9. CASE ~(x.side = "buy" \/ ShouldConsume(s, x.reason))
  <2>1. x.order = 0
    BY <1>3, <1>9 DEF Sound, WorkSound, ShouldConsume, OutcomeReasons, Ordering
  <2>2. UNCHANGED <<acted, audit>>
    BY <1>6, <1>9
  <2>. QED  BY <1>1, <1>6, <1>7, <2>1, <2>2, MoveKeeps
<1>. QED  BY <1>8, <1>9

LEMMA PassFailsKeeps ==
  ASSUME IInv, overlapped' = (overlapped \/ Overlap'), NEW p \in Executors, PassFails(p)
  PROVE  IInv'
<1>1. Sound(proc[p]) /\ proc[p].order = 0
  BY ProcOf, NoOrder DEF Ordering, PassFails
<1>2. /\ proc' = [proc EXCEPT ![p] = Idle]
      /\ UNCHANGED <<found, log, acted, stale, sellQty, audit, orders, position, lots, cash, crashes>>
  BY DEF PassFails, tableVars
<1>. QED  BY <1>1, <1>2, IdleSound, MoveKeeps

LEMMA LoadBalanceKeeps ==
  ASSUME IInv, overlapped' = (overlapped \/ Overlap'), NEW p \in Executors, LoadBalance(p)
  PROVE  IInv'
<1>1. PICK x : x = proc[p]
  OBVIOUS
<1>2. /\ Typed /\ x \in Proc /\ Sound(x) /\ x.pc = "balance" /\ x.order = 0
      /\ x.snapshot \in SnapshotRecord
  BY <1>1, ProcOf, NoOrder DEF Ordering, LoadBalance, At
<1>3. PICK n : n = [x.snapshot EXCEPT !.cash = cash]
  OBVIOUS
<1>4. n \in SnapshotRecord /\ n.cash = cash /\ n.count = x.snapshot.count /\ cash \in Nat
  BY <1>2, <1>3 DEF SnapshotRecord, Typed
<1>5. PICK y : y = [x EXCEPT !.pc = "snapshot", !.snapshot = n]
  OBVIOUS
<1>6. proc' = [proc EXCEPT ![p] = y] /\ UNCHANGED tableVars
  <2>1. y = [x EXCEPT !.pc = "snapshot", !.snapshot.cash = cash]
    BY <1>2, <1>3, <1>5 DEF Proc
  <2>2. proc' = [proc EXCEPT ![p] = [proc[p] EXCEPT !.pc = "snapshot", !.snapshot.cash = cash]]
    BY DEF LoadBalance
  <2>. QED  BY <1>1, <2>1, <2>2 DEF LoadBalance
<1>7. /\ y \in Proc /\ y.order = x.order /\ y.pc = "snapshot" /\ y.todo = x.todo /\ y.side = x.side
      /\ y.snapshot = n
  <2>1. "snapshot" \in Steps
    BY DEF Steps
  <2>. QED  BY <1>2, <1>4, <1>5, <2>1 DEF Proc
<1>8. WorkSound(y) /\ PlaceSound(y)
  BY <1>2, <1>7 DEF Sound, WorkSound, PlaceSound, Ordering
<1>9. ViewSound(y) /\ (SnapshotSound(x) => SnapshotSound(y))
  BY <1>2, <1>4, <1>7 DEF ViewSound, SnapshotSound, CashLeft, Ordering
<1>10. UNCHANGED <<found, log, acted, stale, sellQty, audit, orders, position, lots, cash, crashes>>
  BY <1>6 DEF tableVars
<1>. QED  BY <1>1, <1>2, <1>6, <1>7, <1>8, <1>9, <1>10, MoveKeeps DEF Sound

\* What lots hold together.
LEMMA LotSums ==
  ASSUME Typed, NEW L \in SUBSET (1..Len(lots))
  PROVE  /\ IsFiniteSet(L) /\ Remaining(L) \in Nat
         /\ \A l \in L : lots[l].remaining <= Remaining(L)
<1>. DEFINE r == [l \in DOMAIN lots |-> lots[l].remaining]
<1>1. PICK n \in Nat : n = Len(lots)
  BY LotRows
<1>2. IsFiniteSet(1..n)
  BY FS_Interval
<1>3. IsFiniteSet(L)
  BY <1>1, <1>2, FS_Subset
<1>4. \A k \in L : r[k] = lots[k].remaining /\ r[k] \in Nat
  BY LotRows
<1>5. Remaining(L) = Sum(r, L)
  BY DEF Remaining, Sum
<1>. HIDE DEF r
<1>6. Sum(r, L) \in Nat /\ \A l \in L : r[l] <= Sum(r, L)
  BY <1>3, <1>4, SumNat
<1>. QED  BY <1>3, <1>4, <1>5, <1>6

\* Nothing is open of a symbol that is not held, unless it was sold as a whole.
LEMMA NothingOpen ==
  ASSUME Typed, LotsCovered, NEW z \in Symbols, position[z] = 0
  PROVE  SoldAsPosition(z) \/ \A l \in LotsOf(z) : ~IsOpen(lots[l])
<1>1. SUFFICES ASSUME ~SoldAsPosition(z), NEW l \in LotsOf(z) PROVE ~IsOpen(lots[l])
  OBVIOUS
<1>2. LotsOf(z) \in SUBSET (1..Len(lots))
  BY DEF LotsOf
<1>3. Remaining(LotsOf(z)) \in Nat /\ lots[l].remaining <= Remaining(LotsOf(z)) /\ lots[l].remaining \in Nat
  BY <1>2, LotSums, LotRows
<1>4. Remaining(LotsOf(z)) <= 0
  BY <1>1 DEF LotsCovered
<1>. QED  BY <1>3, <1>4 DEF IsOpen

LEMMA SnapshotKeeps ==
  ASSUME IInv, overlapped' = (overlapped \/ Overlap'), NEW p \in Executors, Snapshot(p)
  PROVE  IInv'
<1>1. PICK x : x = proc[p]
  OBVIOUS
<1>2. /\ Typed /\ x \in Proc /\ Sound(x) /\ x.pc = "snapshot" /\ x.order = 0
      /\ x.snapshot \in SnapshotRecord
  BY <1>1, ProcOf, NoOrder DEF Ordering, Snapshot, At
<1>3. PICK n : n = [x.snapshot EXCEPT !.live = LiveSymbols, !.unresolved = UnresolvedSymbols("buy"),
                                      !.active = LiveSymbols \union UnresolvedSymbols("buy")]
  OBVIOUS
<1>4. /\ LiveSymbols \in SUBSET Symbols /\ UnresolvedSymbols("buy") \in SUBSET Symbols
      /\ LiveSymbols \union UnresolvedSymbols("buy") \in SUBSET Symbols
  BY <1>2, Finite DEF LiveSymbols
<1>5. /\ n \in SnapshotRecord /\ n.cash = x.snapshot.cash /\ n.count = x.snapshot.count
      /\ n.live = LiveSymbols /\ n.unresolved = UnresolvedSymbols("buy")
      /\ n.active = LiveSymbols \union UnresolvedSymbols("buy")
  BY <1>2, <1>3, <1>4 DEF SnapshotRecord
<1>6. PICK y : y = [x EXCEPT !.pc = "evaluate", !.snapshot = n]
  OBVIOUS
<1>7. proc' = [proc EXCEPT ![p] = y] /\ UNCHANGED tableVars
  <2>1. y = [x EXCEPT !.pc = "evaluate", !.snapshot.live = LiveSymbols,
                !.snapshot.unresolved = UnresolvedSymbols("buy"),
                !.snapshot.active = LiveSymbols \union UnresolvedSymbols("buy")]
    BY <1>2, <1>3, <1>6 DEF Proc, SnapshotRecord
  <2>2. proc' = [proc EXCEPT ![p] = [proc[p] EXCEPT !.pc = "evaluate", !.snapshot.live = LiveSymbols,
                   !.snapshot.unresolved = UnresolvedSymbols("buy"),
                   !.snapshot.active = LiveSymbols \union UnresolvedSymbols("buy")]]
    BY DEF Snapshot
  <2>. QED  BY <1>1, <2>1, <2>2 DEF Snapshot
<1>8. /\ y \in Proc /\ y.order = x.order /\ y.pc = "evaluate" /\ y.todo = x.todo /\ y.side = x.side
      /\ y.snapshot = n
  <2>1. "evaluate" \in Steps
    BY DEF Steps
  <2>. QED  BY <1>2, <1>5, <1>6, <2>1 DEF Proc
<1>9. WorkSound(y) /\ PlaceSound(y)
  BY <1>2, <1>8 DEF Sound, WorkSound, PlaceSound, Ordering
<1>10. ViewSound(y)
  <2>1. \A z \in Symbols : z \notin n.live =>
          SoldAsPosition(z) \/ \A l \in LotsOf(z) : ~IsOpen(lots[l])
    BY <1>2, <1>5, NothingOpen DEF IInv, TablesSound, LiveSymbols, Typed
  <2>2. UnresolvedSymbols("buy") \subseteq n.unresolved \union Own(y)
    BY <1>5
  <2>. QED  BY <1>5, <1>8, <2>1, <2>2 DEF ViewSound, Blurred
<1>11. overlapped \/ Astray \/ SnapshotSound(y)
  <2>1. SUFFICES ASSUME ~overlapped, ~Astray PROVE SnapshotSound(y)
    OBVIOUS
  <2>2. Own(y) = {} /\ CashLeft(y) = n.cash /\ CashLeft(x) = x.snapshot.cash
    BY <1>2, <1>8 DEF Own, CashLeft, Ordering
  <2>3. Active = n.active /\ n.active \union {} = n.active /\ Cardinality(n.active) <= MaxHoldings
    BY <1>5, <2>1 DEF Active, IInv
  <2>. QED  BY <1>2, <1>5, <1>8, <2>1, <2>2, <2>3 DEF Sound, SnapshotSound, Ordering
<1>12. UNCHANGED <<found, log, acted, stale, sellQty, audit, orders, position, lots, cash, crashes>>
  BY <1>7 DEF tableVars
<1>. QED  BY <1>1, <1>2, <1>7, <1>8, <1>9, <1>10, <1>11, <1>12, MoveKeeps DEF Sound

\* What a buy order is decided on.
LEMMA BuyDecided ==
  ASSUME NEW s, NEW n, BuyBlock(s, n) = "none"
  PROVE  /\ LivePositionBlock(s, n.live) = "none"
         /\ SymbolOf[s] \notin n.unresolved
         /\ SymbolOf[s] \in n.active \/ ~(Cardinality(n.active) >= MaxHoldings)
         /\ ~(n.count >= MaxDailyOrders)
         /\ ~(n.count < MaxDailyOrders /\ PlannedQty(s, n.cash) = 0)
<1>. DEFINE held == LivePositionBlock(s, n.live)
            last == CASE n.count >= MaxDailyOrders -> "MAX_DAILY_ORDER_COUNT_REACHED"
                      [] n.count < MaxDailyOrders /\ PlannedQty(s, n.cash) = 0 ->
                           "INSUFFICIENT_AVAILABLE_CASH"
                      [] OTHER -> "none"
            third == CASE SymbolOf[s] \in n.unresolved -> "UNRESOLVED_BUY_ORDER_EXISTS"
                       [] SymbolOf[s] \notin n.active /\
                            Cardinality(n.active) >= MaxHoldings -> "MAX_HOLDINGS_REACHED"
                       [] OTHER -> last
            second == CASE TooOld(s) -> "STALE_SIGNAL_AGE_EXCEEDED"
                        [] ~TooOld(s) /\ held # "none" -> held
                        [] OTHER -> third
<1>1. BuyBlock(s, n) = CASE clock = "next_day" -> "TRADE_DATE_MISMATCH"
                         [] clock = "early" -> "BEFORE_START_TIME"
                         [] clock \in {"afternoon", "closed"} -> "AFTER_CUTOFF_TIME"
                         [] OTHER -> second
  BY Zenon DEF BuyBlock
<1>. HIDE DEF second
<1>2. second = "none"
  BY <1>1
<1>. USE DEF second
<1>. HIDE DEF third, held
<1>3. third = "none" /\ held = "none"
  BY <1>2
<1>. USE DEF third
<1>. HIDE DEF last
<1>4. last = "none" /\ SymbolOf[s] \notin n.unresolved
      /\ (SymbolOf[s] \in n.active \/ ~(Cardinality(n.active) >= MaxHoldings))
  BY <1>3
<1>5. ~(n.count >= MaxDailyOrders) /\ ~(n.count < MaxDailyOrders /\ PlannedQty(s, n.cash) = 0)
  BY <1>4 DEF last
<1>. QED  BY <1>3, <1>4, <1>5 DEF held

LEMMA BuyReason ==
  ASSUME NEW s, NEW n
  PROVE  BuyBlock(s, n) \in Reasons
<1>. PICK held : held = LivePositionBlock(s, n.live)
  OBVIOUS
<1>1. held \in Reasons
  BY DEF LivePositionBlock, Reasons, BlockReasons
<1>. QED  BY <1>1 DEF BuyBlock, Reasons, BlockReasons

LEMMA Affordable ==
  ASSUME NEW s \in Signals, NEW n \in Nat
  PROVE  /\ PlannedQty(s, n) \in Nat
         /\ PlannedQty(s, n) * Price[SymbolOf[s]] <= n
<1>1. PICK m \in Nat : m = (IF Budget < n THEN Budget ELSE n) /\ m <= n
  BY Constants
<1>2. PICK k \in Nat \ {0} : k = Price[SymbolOf[s]]
  BY Constants
<1>3. m \div k \in Nat /\ (m \div k) * k <= m
  OBVIOUS
<1>4. PlannedQty(s, n) = m \div k
  BY <1>1, <1>2 DEF PlannedQty
<1>5. PICK q \in Nat : q = m \div k
  BY <1>3
<1>. QED  BY <1>1, <1>2, <1>3, <1>4

LEMMA EvaluateBuyKeeps ==
  ASSUME IInv, overlapped' = (overlapped \/ Overlap'), NEW p \in Executors, EvaluateBuy(p)
  PROVE  IInv'
<1>1. PICK x : x = proc[p]
  OBVIOUS
<1>2. /\ Typed /\ x \in Proc /\ Sound(x) /\ x.pc = "evaluate" /\ x.order = 0 /\ x.side = "buy"
      /\ x.snapshot \in SnapshotRecord /\ x.todo \in SUBSET Signals
      /\ x.snapshot.cash \in Nat /\ x.snapshot.count \in Nat /\ x.snapshot.active \in SUBSET Symbols
  BY <1>1, ProcOf, NoOrder DEF Ordering, EvaluateBuy, At
<1>3. PICK s : s = First(x.todo)
  OBVIOUS
<1>4. s \in x.todo /\ s \in Signals
  BY <1>2, <1>3, FirstOf DEF Sound, WorkSound
<1>5. PICK reason : reason = BuyBlock(s, x.snapshot)
  OBVIOUS
<1>6. PICK c : c = IF reason = "none" THEN "place" ELSE "consume"
  OBVIOUS
<1>7. PICK n : n = IF reason = "none" THEN PlannedQty(s, x.snapshot.cash) ELSE 0
  OBVIOUS
<1>8. PICK y : y = [x EXCEPT !.signal = s, !.reason = reason, !.pc = c, !.qty = n]
  OBVIOUS
<1>9. proc' = [proc EXCEPT ![p] = y] /\ UNCHANGED tableVars
  BY <1>1, <1>3, <1>5, <1>6, <1>7, <1>8, Zenon DEF EvaluateBuy
<1>10. n \in Nat /\ (reason = "none" => n * Price[SymbolOf[s]] <= x.snapshot.cash)
  BY <1>2, <1>4, <1>7, Affordable
<1>11. /\ y \in Proc /\ y.order = x.order /\ y.pc = c /\ y.todo = x.todo /\ y.side = x.side
       /\ y.snapshot = x.snapshot /\ y.signal = s /\ y.qty = n /\ y.reason = reason
  <2>1. c \in Steps /\ reason \in Reasons
    BY <1>5, <1>6, BuyReason DEF Steps
  <2>. QED  BY <1>2, <1>4, <1>8, <1>10, <2>1 DEF Proc
<1>12. c \in {"place", "consume"} /\ (c = "place" <=> reason = "none")
  BY <1>6
<1>13. ASSUME reason = "none"
       PROVE  /\ LivePositionBlock(s, x.snapshot.live) = "none"
              /\ SymbolOf[s] \notin x.snapshot.unresolved
              /\ SymbolOf[s] \in x.snapshot.active \/ Cardinality(x.snapshot.active) < MaxHoldings
              /\ x.snapshot.count < MaxDailyOrders
              /\ n > 0
  <2>1. BuyBlock(s, x.snapshot) = "none"
    BY <1>5, <1>13
  <2>2. Cardinality(x.snapshot.active) \in Nat
    BY <1>2, FS_Subset, FS_CardinalityType, Constants
  <2>. QED  BY <1>2, <1>7, <1>10, <1>13, <2>1, <2>2, BuyDecided, Constants
<1>14. WorkSound(y)
  BY <1>2, <1>4, <1>11, <1>12, <1>13 DEF Sound, WorkSound, Ordering
<1>15. Own(x) = {} /\ Own(y) = {} /\ CashLeft(x) = x.snapshot.cash /\ CashLeft(y) = x.snapshot.cash
  BY <1>2, <1>11, <1>12 DEF Own, CashLeft, Ordering
<1>16. overlapped \/ (PlaceSound(y) /\ ViewSound(y))
  <2>1. SUFFICES ASSUME ~overlapped PROVE PlaceSound(y) /\ ViewSound(y)
    OBVIOUS
  <2>2. ViewSound(x)
    BY <1>2, <2>1 DEF Sound
  <2>3. /\ UnresolvedSymbols("buy") \subseteq x.snapshot.unresolved
        /\ \A z \in Symbols :
             z \notin x.snapshot.live \union x.snapshot.unresolved =>
               Blurred(z) \/ \A l \in LotsOf(z) : ~IsOpen(lots[l])
    BY <1>2, <1>15, <2>2 DEF ViewSound
  <2>4. ViewSound(y)
    BY <1>11, <1>15, <2>3 DEF ViewSound
  <2>5. ASSUME reason = "none" PROVE PlaceSound(y)
    <3>1. PICK z \in Symbols : z = SymbolOf[s]
      BY <1>4, Constants
    <3>2. StrategyOf[s] \in TIMING2_30S_ENTRY_SLOTS => Blurred(z) \/ OpenIn(z, StrategyOf[s]) = {}
      <4>1. SUFFICES ASSUME StrategyOf[s] \in TIMING2_30S_ENTRY_SLOTS
                     PROVE  Blurred(z) \/ OpenIn(z, StrategyOf[s]) = {}
        OBVIOUS
      <4>2. CASE z \notin x.snapshot.live
        BY <1>13, <2>3, <2>5, <3>1, <4>2 DEF OpenIn
      <4>3. CASE z \in x.snapshot.live
        <5>1. StrategyOf[s] \notin OpenSlots(z) \intersect TIMING2_30S_ENTRY_SLOTS
          BY <1>13, <2>5, <3>1, <4>1, <4>3 DEF LivePositionBlock
        <5>2. StrategyOf[s] \notin OpenSlots(z)
          BY <4>1, <5>1
        <5>. QED  BY <5>2 DEF OpenSlots, OpenIn, LotsOf
      <4>. QED  BY <4>2, <4>3
    <3>. QED  BY <1>2, <1>11, <1>13, <2>3, <2>5, <3>1, <3>2 DEF PlaceSound
  <2>6. reason # "none" => PlaceSound(y)
    BY <1>11, <1>12 DEF PlaceSound
  <2>. QED  BY <2>4, <2>5, <2>6
<1>17. SnapshotSound(x) => SnapshotSound(y)
  BY <1>2, <1>10, <1>11, <1>12, <1>13, <1>15 DEF SnapshotSound, Ordering
<1>18. UNCHANGED <<found, log, acted, stale, sellQty, audit, orders, position, lots, cash, crashes>>
  BY <1>9 DEF tableVars
<1>. QED  BY <1>1, <1>2, <1>9, <1>11, <1>14, <1>16, <1>17, <1>18, MoveKeeps DEF Sound

\* What a sell order is decided on.
LEMMA SellDecided ==
  ASSUME NEW s, SellBlock(s) = "none"
  PROVE  /\ position[SymbolOf[s]] # 0
         /\ SymbolOf[s] \notin UnresolvedSymbols("sell")
         /\ LotOf[s] # 0 => ~(sellQty[s] > position[SymbolOf[s]])
<1>. DEFINE lot == IF LotOf[s] = 0 THEN "none" ELSE LotBlock(s)
            third == CASE lot # "none" -> lot
                       [] lot = "none" /\ SymbolOf[s] \in UnresolvedSymbols("sell") ->
                            "UNRESOLVED_SELL_ORDER_EXISTS"
                       [] OTHER -> "none"
            second == CASE TooOld(s) -> "STALE_SIGNAL_AGE_EXCEEDED"
                        [] ~TooOld(s) /\ position[SymbolOf[s]] = 0 -> "LIVE_POSITION_MISSING"
                        [] OTHER -> third
<1>1. SellBlock(s) = CASE clock = "next_day" -> "TRADE_DATE_MISMATCH"
                       [] clock = "early" -> "BEFORE_START_TIME"
                       [] clock = "closed" -> "AFTER_CUTOFF_TIME"
                       [] OTHER -> second
  BY Zenon DEF SellBlock
<1>. HIDE DEF second
<1>2. second = "none"
  BY <1>1
<1>. USE DEF second
<1>. HIDE DEF third, lot
<1>3. third = "none" /\ ~TooOld(s) /\ ~(~TooOld(s) /\ position[SymbolOf[s]] = 0)
  BY <1>2
<1>. USE DEF third
<1>4. lot = "none" /\ SymbolOf[s] \notin UnresolvedSymbols("sell")
  BY <1>3
<1>5. LotOf[s] # 0 => LotBlock(s) = "none"
  BY <1>4 DEF lot
<1>6. LotBlock(s) = "none" => ~(sellQty[s] > position[SymbolOf[s]])
  BY DEF LotBlock
<1>. QED  BY <1>3, <1>4, <1>5, <1>6

LEMMA SellReason ==
  ASSUME NEW s
  PROVE  SellBlock(s) \in Reasons
<1>. PICK lot : lot = IF LotOf[s] = 0 THEN "none" ELSE LotBlock(s)
  OBVIOUS
<1>1. lot \in Reasons
  BY DEF LotBlock, Reasons, BlockReasons
<1>. QED  BY <1>1 DEF SellBlock, Reasons, BlockReasons

LEMMA EvaluateSellKeeps ==
  ASSUME IInv, overlapped' = (overlapped \/ Overlap'), NEW p \in Executors, EvaluateSell(p)
  PROVE  IInv'
<1>1. PICK x : x = proc[p]
  OBVIOUS
<1>2. /\ Typed /\ x \in Proc /\ Sound(x) /\ x.pc = "evaluate" /\ x.order = 0 /\ x.side = "sell"
      /\ x.todo \in SUBSET Signals
  BY <1>1, ProcOf, NoOrder DEF Ordering, EvaluateSell, At
<1>3. PICK s : s = First(x.todo)
  OBVIOUS
<1>4. s \in x.todo /\ s \in Signals /\ IsRecorded(s)
  BY <1>2, <1>3, FirstOf DEF Sound, WorkSound
<1>5. PICK reason : reason = SellBlock(s)
  OBVIOUS
<1>6. PICK c : c = IF reason = "none" THEN "place" ELSE "consume"
  OBVIOUS
<1>7. PICK n : n = IF reason = "none" THEN SellOrderQty(s) ELSE 0
  OBVIOUS
<1>8. PICK y : y = [x EXCEPT !.signal = s, !.reason = reason, !.pc = c, !.qty = n]
  OBVIOUS
<1>9. proc' = [proc EXCEPT ![p] = y] /\ UNCHANGED tableVars
  BY <1>1, <1>3, <1>5, <1>6, <1>7, <1>8, Zenon DEF EvaluateSell
<1>10. SymbolOf[s] \in Symbols /\ position[SymbolOf[s]] \in Nat /\ sellQty[s] \in Nat /\ LotOf[s] \in Nat
  BY <1>2, <1>4, Constants DEF Typed
<1>11. n \in Nat /\ (reason = "none" => n > 0 /\ n <= position[SymbolOf[s]]
                                        /\ SymbolOf[s] \notin UnresolvedSymbols("sell"))
  <2>1. CASE reason # "none"
    BY <1>7, <2>1
  <2>2. CASE reason = "none"
    <3>1. /\ position[SymbolOf[s]] # 0 /\ SymbolOf[s] \notin UnresolvedSymbols("sell")
          /\ LotOf[s] # 0 => sellQty[s] <= position[SymbolOf[s]]
      <4>1. SellBlock(s) = "none"
        BY <1>5, <2>2
      <4>2. /\ position[SymbolOf[s]] # 0 /\ SymbolOf[s] \notin UnresolvedSymbols("sell")
            /\ LotOf[s] # 0 => ~(sellQty[s] > position[SymbolOf[s]])
        BY <4>1, SellDecided
      <4>. QED  BY <1>10, <4>2
    <3>2. LotOf[s] # 0 => sellQty[s] > 0
      BY <1>4, <1>10 DEF IInv, TablesSound, LogSound
    <3>3. n = IF LotOf[s] = 0 THEN position[SymbolOf[s]] ELSE sellQty[s]
      BY <1>7, <2>2 DEF SellOrderQty
    <3>. QED  BY <1>10, <3>1, <3>2, <3>3
  <2>. QED  BY <2>1, <2>2
<1>12. /\ y \in Proc /\ y.order = x.order /\ y.pc = c /\ y.todo = x.todo /\ y.side = x.side
       /\ y.signal = s /\ y.qty = n /\ y.reason = reason
  <2>1. c \in Steps /\ reason \in Reasons
    BY <1>5, <1>6, SellReason DEF Steps
  <2>. QED  BY <1>2, <1>4, <1>8, <1>11, <2>1 DEF Proc
<1>13. c \in {"place", "consume"} /\ (c = "place" <=> reason = "none")
  BY <1>6
<1>14. WorkSound(y)
  BY <1>2, <1>4, <1>11, <1>12, <1>13 DEF Sound, WorkSound, Ordering
<1>15. PlaceSound(y) /\ ViewSound(y) /\ SnapshotSound(y)
  BY <1>2, <1>11, <1>12, <1>13 DEF PlaceSound, ViewSound, SnapshotSound
<1>16. UNCHANGED <<found, log, acted, stale, sellQty, audit, orders, position, lots, cash, crashes>>
  BY <1>9 DEF tableVars
<1>. QED  BY <1>1, <1>2, <1>9, <1>12, <1>14, <1>15, <1>16, MoveKeeps DEF Sound

-----------------------------------------------------------------------------
(* The steps of the environment that leave the orders alone                *)

\* What is recorded stays recorded.
LEMMA RecordedStays ==
  ASSUME Typed, NEW row, log' = Append(log, row)
  PROVE  \A s : IsRecorded(s) => IsRecorded(s)'
<1>1. SUFFICES ASSUME NEW s, NEW i \in 1..Len(log), log[i] = Recorded(s) PROVE IsRecorded(s)'
  BY DEF IsRecorded
<1>2. Len(log) \in Nat /\ log \in Seq(LogRow)
  BY DEF Typed
<1>3. PICK n \in Nat : n = Len(log)
  BY <1>2
<1>4. Len(log') = n + 1 /\ log'[i] = log[i]
  BY <1>1, <1>2, <1>3, AppendProperties
<1>5. i \in 1..Len(log')
  BY <1>1, <1>3, <1>4
<1>. QED  BY <1>1, <1>4, <1>5 DEF IsRecorded, Recorded

\* And what is recorded was recorded, or is the new row.
LEMMA RecordedBefore ==
  ASSUME Typed, NEW row, log' = Append(log, row), NEW s, IsRecorded(s)'
  PROVE  IsRecorded(s) \/ row = Recorded(s)
<1>1. Len(log) \in Nat /\ log \in Seq(LogRow)
  BY DEF Typed
<1>2. PICK n \in Nat : n = Len(log)
  BY <1>1
<1>3. Len(log') = n + 1 /\ log'[n + 1] = row /\ \A i \in 1..n : log'[i] = log[i]
  BY <1>1, <1>2
<1>4. PICK i \in 1..Len(log') : log'[i] = Recorded(s)
  BY DEF IsRecorded, Recorded
<1>5. CASE i = n + 1
  BY <1>3, <1>4, <1>5
<1>6. CASE i # n + 1
  <2>1. i \in 1..Len(log)
    BY <1>2, <1>3, <1>4, <1>6
  <2>. QED  BY <1>2, <1>3, <1>4, <2>1 DEF IsRecorded
<1>. QED  BY <1>5, <1>6

LEMMA SignalStepKeeps ==
  ASSUME IInv, Typed', LogSound', overlapped' = (overlapped \/ Overlap'),
         UNCHANGED <<audit, orders, position, lots, cash, crashes, proc>>,
         \A s : IsRecorded(s) => IsRecorded(s)'
  PROVE  IInv'
<1>1. /\ Rows' = Rows /\ Active' = Active /\ Astray' = Astray
      /\ \A z : SoldAsPosition(z)' = SoldAsPosition(z) /\ LotsOf(z)' = LotsOf(z)
  BY DerivedKept
<1>2. OrdersSound' /\ AuditSound' /\ LotsSound' /\ LotsCovered'
  BY <1>1 DEF IInv, TablesSound, OrdersSound, OrderSound, AuditSound, LotsSound, LotsCovered,
              LotKnown, Remaining
<1>3. overlapped' \/ (~Overlap' /\ OrdersAlone')
  BY AloneKept DEF IInv
<1>4. Lost' = Lost /\ Distinct'
  BY <1>1 DEF IInv, Lost, Distinct
<1>5. ASSUME NEW q \in Executors PROVE Sound(proc[q])'
  <2>1. PICK x : x = proc[q] /\ x = proc'[q]
    OBVIOUS
  <2>2. Sound(x)
    BY <2>1 DEF IInv
  <2>3. Sound(x)'
    BY <2>2, SoundKept
  <2>. QED  BY <2>1, <2>3, SoundOf
<1>. QED  BY <1>1, <1>2, <1>3, <1>4, <1>5 DEF IInv, TablesSound

\* The scans that record no lot-level exit.
LEMMA RecordKeeps ==
  ASSUME IInv, NEW s \in Signals, UNCHANGED proc, overlapped' = (overlapped \/ Overlap'),
         RecordSignal(s) \/ RecordPositionExit(s)
  PROVE  IInv'
<1>1. /\ Typed /\ log' = Append(log, Recorded(s))
      /\ UNCHANGED <<found, acted, stale, sellQty, audit, orders, position, lots, cash, crashes>>
      /\ StrategyOf[s] \in BuyTriggers \union {"setup"} \union PositionExits
  BY DEF RecordSignal, RecordPositionExit, IInv
<1>2. LotOf[s] = 0
  <2>1. StrategyOf[s] \notin LotExits
    BY <1>1 DEF BuyTriggers, PositionExits, LotExits
  <2>. QED  BY <2>1, Constants
<1>3. log' \in Seq(LogRow)
  <2>1. Recorded(s) \in LogRow
    BY DEF Recorded, LogRow
  <2>. QED  BY <1>1, <2>1, AppendProperties DEF Typed
<1>4. Typed'
  BY <1>1, <1>3 DEF Typed, Overlap
<1>5. LogSound'
  <2>1. ASSUME NEW t \in Signals, IsRecorded(t)'
        PROVE  LotKnown(t)' /\ (LotOf[t] > 0 => sellQty'[t] > 0)
    <3>1. IsRecorded(t) \/ Recorded(s) = Recorded(t)
      BY <1>1, <2>1, RecordedBefore
    <3>2. Recorded(s) = Recorded(t) => s = t
      BY DEF Recorded
    <3>3. CASE t = s
      BY <1>2, <3>3 DEF LotKnown
    <3>4. CASE IsRecorded(t)
      BY <1>1, <3>4 DEF IInv, TablesSound, LogSound, LotKnown
    <3>. QED  BY <3>1, <3>2, <3>3, <3>4
  <2>. QED  BY <2>1 DEF LogSound
<1>. QED  BY <1>1, <1>4, <1>5, RecordedStays, SignalStepKeeps

LEMMA RecordLotExitKeeps ==
  ASSUME IInv, NEW s \in Signals, UNCHANGED proc, overlapped' = (overlapped \/ Overlap'), RecordLotExit(s)
  PROVE  IInv'
<1>1. /\ Typed /\ log' = Append(log, Recorded(s)) /\ ~IsRecorded(s)
      /\ UNCHANGED <<found, acted, stale, audit, orders, position, lots, cash, crashes>>
      /\ LotOf[s] \in 1..Len(lots) /\ lots[LotOf[s]].symbol = SymbolOf[s]
      /\ IsOpen(lots[LotOf[s]])
      /\ sellQty' = [sellQty EXCEPT ![s] = ExitQty(StrategyOf[s], lots[LotOf[s]])]
  BY DEF RecordLotExit, IInv
<1>2. PICK l : l = LotOf[s]
  OBVIOUS
<1>3. PICK n : n = ExitQty(StrategyOf[s], lots[l])
  OBVIOUS
<1>4. lots[l].remaining \in Nat /\ lots[l].remaining > 0
  BY <1>1, <1>2, LotRows DEF IsOpen
<1>5. n \in Nat /\ n > 0
  <2>1. PICK m \in Nat : m = lots[l].remaining /\ m > 0
    BY <1>4
  <2>2. (m + 1) \div 2 \in Nat /\ (m + 1) \div 2 > 0
    BY <2>1
  <2>. QED  BY <1>3, <2>1, <2>2 DEF ExitQty
<1>6. log' \in Seq(LogRow)
  <2>1. Recorded(s) \in LogRow
    BY DEF Recorded, LogRow
  <2>. QED  BY <1>1, <2>1, AppendProperties DEF Typed
<1>7. sellQty' \in [Signals -> Nat] /\ sellQty'[s] = n /\ \A t \in Signals : t # s => sellQty'[t] = sellQty[t]
  BY <1>1, <1>2, <1>3, <1>5 DEF Typed
<1>8. Typed'
  BY <1>1, <1>6, <1>7 DEF Typed, Overlap
<1>9. LogSound'
  <2>1. ASSUME NEW t \in Signals, IsRecorded(t)'
        PROVE  LotKnown(t)' /\ (LotOf[t] > 0 => sellQty'[t] > 0)
    <3>1. IsRecorded(t) \/ Recorded(s) = Recorded(t)
      BY <1>1, <2>1, RecordedBefore
    <3>2. Recorded(s) = Recorded(t) => s = t
      BY DEF Recorded
    <3>3. CASE t = s
      BY <1>1, <1>5, <1>7, <3>3 DEF LotKnown
    <3>4. CASE t # s
      <4>1. LotKnown(t) /\ (LotOf[t] > 0 => sellQty[t] > 0)
        BY <3>1, <3>2, <3>4 DEF IInv, TablesSound, LogSound
      <4>. QED  BY <1>1, <1>7, <3>4, <4>1 DEF LotKnown
    <3>. QED  BY <3>3, <3>4
  <2>. QED  BY <2>1 DEF LogSound
<1>. QED  BY <1>1, <1>8, <1>9, RecordedStays, SignalStepKeeps

LEMMA CleanupKeeps ==
  ASSUME IInv, NEW s \in Signals, UNCHANGED proc, overlapped' = (overlapped \/ Overlap'), CleanupStaleSignal(s)
  PROVE  IInv'
<1>1. /\ Typed /\ log' = Append(log, CleanupAudit(s)) /\ acted' = acted \union {s}
      /\ UNCHANGED <<found, stale, sellQty, audit, orders, position, lots, cash, crashes>>
  BY DEF CleanupStaleSignal, IInv
<1>2. log' \in Seq(LogRow)
  <2>1. CleanupAudit(s) \in LogRow
    BY DEF CleanupAudit, LogRow
  <2>. QED  BY <1>1, <2>1, AppendProperties DEF Typed
<1>3. Typed'
  BY <1>1, <1>2 DEF Typed, Overlap
<1>4. LogSound'
  <2>1. ASSUME NEW t \in Signals, IsRecorded(t)'
        PROVE  LotKnown(t)' /\ (LotOf[t] > 0 => sellQty'[t] > 0)
    <3>1. IsRecorded(t) \/ CleanupAudit(s) = Recorded(t)
      BY <1>1, <2>1, RecordedBefore
    <3>2. CleanupAudit(s) # Recorded(t)
      <4>1. CleanupAudit(s).kind = "cleanup" /\ Recorded(t).kind = "signal"
        BY DEF CleanupAudit, Recorded
      <4>. QED  BY <4>1
    <3>. QED  BY <1>1, <3>1, <3>2 DEF IInv, TablesSound, LogSound, LotKnown
  <2>. QED  BY <2>1 DEF LogSound
<1>. QED  BY <1>1, <1>3, <1>4, RecordedStays, SignalStepKeeps

LEMMA OtherSignalStepsKeep ==
  ASSUME IInv, UNCHANGED proc, overlapped' = (overlapped \/ Overlap'),
         \/ \E s \in Signals : SignalAges(s)
         \/ \E on \in BOOLEAN : SetKillSwitch(on)
         \/ LossReached
         \/ TimePasses
  PROVE  IInv'
<1>1. /\ Typed /\ stale' \in SUBSET Signals
      /\ UNCHANGED <<found, log, acted, sellQty, audit, orders, position, lots, cash, crashes>>
  BY DEF SignalAges, SetKillSwitch, LossReached, TimePasses, IInv, Typed
<1>2. Typed'
  BY <1>1 DEF Typed, Overlap
<1>3. \A s : IsRecorded(s)' <=> IsRecorded(s)
  BY <1>1 DEF IsRecorded
<1>4. LogSound'
  BY <1>1, <1>3 DEF IInv, TablesSound, LogSound, LotKnown
<1>. QED  BY <1>1, <1>2, <1>3, <1>4, SignalStepKeeps

-----------------------------------------------------------------------------
(* A crash                                                                 *)

LEMMA CrashKeeps ==
  ASSUME IInv, overlapped' = (overlapped \/ Overlap'), NEW p \in Executors, Crash(p)
  PROVE  IInv'
<1>1. /\ Typed /\ proc' = [proc EXCEPT ![p] = Idle] /\ crashes' = crashes + 1
      /\ UNCHANGED <<found, log, acted, stale, sellQty, audit, orders, position, lots, cash>>
  BY DEF Crash, IInv
<1>2. /\ crashes \in Nat /\ proc'[p] = Idle /\ Idle \in Proc /\ Idle.order = 0
      /\ \A q \in Executors : q # p => proc'[q] = proc[q]
  BY <1>1, IdleSound DEF Typed
<1>3. Typed'
  BY <1>1, <1>2 DEF Typed, Overlap
<1>4. TablesSound'
  <2>1. AuditSound'
    BY <1>1 DEF IInv, TablesSound, AuditSound, Rows
  <2>. QED  BY <1>1, <2>1, TablesKept DEF IInv
<1>5. Rows' = Rows /\ \A i \in Rows : i # 0
  BY <1>1, OrderRows DEF Rows
<1>6. Cardinality(Lost') <= crashes'
  <2>1. Lost' \subseteq Lost \union {proc[p].order}
    <3>. SUFFICES ASSUME NEW i \in Rows, i # proc[p].order, i \notin Lost,
                         \A a \in audit : a.order # i, \A q \in Executors : proc'[q].order # i
                  PROVE  FALSE
      BY <1>1, <1>5 DEF Lost
    <3>1. PICK q \in Executors : proc[q].order = i
      BY DEF Lost
    <3>. QED  BY <1>2, <3>1
  <2>2. PICK S : S = Lost \union {proc[p].order}
    OBVIOUS
  <2>3. IsFiniteSet(S) /\ (Cardinality(S) = Cardinality(Lost) \/ Cardinality(S) = Cardinality(Lost) + 1)
    BY <1>1, <2>2, Finite, FS_AddElement
  <2>4. Cardinality(Lost) \in Nat /\ Cardinality(Lost) <= crashes
    BY <1>1, Finite, FS_CardinalityType DEF IInv
  <2>5. Cardinality(Lost') \in Nat /\ Cardinality(Lost') <= Cardinality(S)
    BY <2>1, <2>2, <2>3, FS_Subset, FS_CardinalityType
  <2>. QED  BY <1>1, <1>2, <2>3, <2>4, <2>5
<1>7. Distinct'
  <2>. SUFFICES ASSUME NEW a \in Executors, NEW b \in Executors, a # b, proc'[a].order # 0,
                       proc'[a].order = proc'[b].order
                PROVE  FALSE
    BY DEF Distinct
  <2>1. a # p /\ b # p
    BY <1>2
  <2>. QED  BY <1>2, <2>1 DEF IInv, Distinct
<1>8. overlapped' \/ (~Overlap' /\ OrdersAlone')
  BY <1>1, AloneKept DEF IInv
<1>9. overlapped' \/ Astray' \/ Cardinality(Active') <= MaxHoldings
  BY <1>1, DerivedKept DEF IInv
<1>10. ASSUME NEW q \in Executors PROVE Sound(proc[q])'
  <2>0. \A s : IsRecorded(s) => IsRecorded(s)'
    BY <1>1 DEF IsRecorded, Recorded
  <2>1. PICK x : x = proc'[q]
    OBVIOUS
  <2>2. Sound(x)
    BY <1>2, <2>1, IdleSound DEF IInv
  <2>3. Sound(x)'
    BY <1>1, <2>0, <2>2, SoundKept
  <2>. QED  BY <2>1, <2>3, SoundOf
<1>. QED  BY <1>3, <1>4, <1>6, <1>7, <1>8, <1>9, <1>10 DEF IInv

-----------------------------------------------------------------------------
(* A new order                                                             *)

\* While one pass is under way and no two have overlapped, the others are idle
\* and remember nothing.
LEMMA OthersSound ==
  ASSUME overlapped' = (overlapped \/ Overlap'), NEW p \in Executors, proc'[p].pc # "idle",
         NEW q \in Executors, q # p, WorkSound(proc[q])'
  PROVE  Sound(proc[q])'
<1>1. overlapped' \/ proc'[q].pc = "idle"
  BY DEF Overlap, At
<1>2. CASE overlapped'
  BY <1>2 DEF Sound
<1>3. CASE proc'[q].pc = "idle"
  BY <1>3 DEF Sound, PlaceSound, ViewSound, SnapshotSound, Ordering
<1>. QED  BY <1>1, <1>2, <1>3

\* Nothing comes between a pass and the order it has on its way.
Undisturbed(i) ==
  /\ i \in Rows'
  /\ orders'[i].signal = orders[i].signal /\ orders'[i].side = orders[i].side
  /\ orders'[i].qty = orders[i].qty
  /\ orders[i].status = "PENDING" => orders'[i].status = "PENDING"
  /\ orders[i].broker = "none" /\ orders[i].status = "PENDING" => orders'[i].broker = "none"

LEMMA WorkKept ==
  ASSUME \A s : IsRecorded(s) => IsRecorded(s)',
         NEW x, WorkSound(x), x.order # 0 => Undisturbed(x.order), NEW q, proc'[q] = x
  PROVE  WorkSound(x)' /\ WorkSound(proc[q])'
<1>1. WorkSound(x)'
  BY DEF WorkSound, Undisturbed, Ordering
<1>. QED  BY <1>1 DEF WorkSound

LEMMA UnresolvedOf ==
  /\ \A side : UnresolvedSymbols(side) =
       {orders[i].symbol : i \in {j \in Rows : orders[j].side = side /\ IsUnresolved(j)}}
  /\ \A side : UnresolvedSymbols(side)' =
       {orders'[i].symbol : i \in {j \in Rows' : orders'[j].side = side /\ IsUnresolved(j)'}}
BY DEF IsUnresolved, UnresolvedSymbols, FindUnresolved, Rows

LEMMA PlaceKeeps ==
  ASSUME IInv, overlapped' = (overlapped \/ Overlap'), NEW p \in Executors, Place(p)
  PROVE  IInv'
<1>1. PICK x : x = proc[p]
  OBVIOUS
<1>2. PICK s : s = x.signal
  OBVIOUS
<1>3. /\ Typed /\ x \in Proc /\ Sound(x) /\ x.pc = "place" /\ x.order = 0 /\ x.side \in Sides
      /\ x.qty \in Nat /\ x.todo \in SUBSET Signals
      /\ x.snapshot.cash \in Nat /\ x.snapshot.count \in Nat /\ x.snapshot.active \in SUBSET Symbols
  BY <1>1, ProcOf, NoOrder DEF Place, At, Ordering
<1>4. s \in x.todo /\ s \in Signals /\ IsRecorded(s) /\ StrategyOf[s] \in TriggersOf(x.side) /\ x.qty > 0
  BY <1>2, <1>3 DEF Sound, WorkSound
<1>5. PICK z \in Symbols : z = SymbolOf[s]
  BY <1>4, Constants
<1>6. overlapped \/
      /\ z \notin UnresolvedSymbols(x.side)
      /\ x.side = "sell" => FillsLate("sell", z) \/ x.qty <= position[z]
      /\ x.side = "buy" /\ StrategyOf[s] \in TIMING2_30S_ENTRY_SLOTS =>
           Blurred(z) \/ OpenIn(z, StrategyOf[s]) = {}
  BY <1>2, <1>3, <1>5 DEF Sound, PlaceSound
<1>7. PICK n \in Nat : n = Len(orders)
  BY <1>3, OrderRows
<1>8. PICK o : o = [signal |-> s, symbol |-> z, side |-> x.side, qty |-> x.qty,
                    status |-> "PENDING", numbered |-> FALSE, broker |-> "none",
                    filled |-> 0, booked |-> 0, late |-> FALSE]
  OBVIOUS
<1>9. /\ o.signal = s /\ o.symbol = z /\ o.side = x.side /\ o.qty = x.qty /\ o.status = "PENDING"
      /\ o.booked = 0 /\ o.filled = 0 /\ o.broker = "none" /\ o.late = FALSE /\ o \in OrderRow
  <2>1. "PENDING" \in Unresolved \union {"REJECTED", "FAILED", "FILLED", "CANCELLED"}
    BY DEF Unresolved
  <2>. QED  BY <1>3, <1>4, <1>5, <1>8, <2>1 DEF OrderRow
<1>10. PICK pc : pc = IF x.side = "sell" THEN "pre_trade" ELSE "post"
  OBVIOUS
<1>10a. PICK y : y = [x EXCEPT !.order = n + 1, !.pc = pc]
  OBVIOUS
<1>11. /\ orders' = Append(orders, o)
       /\ proc' = [proc EXCEPT ![p] = y]
       /\ UNCHANGED <<found, log, acted, stale, sellQty, audit, position, lots, cash, crashes>>
  BY <1>1, <1>2, <1>5, <1>7, <1>8, <1>10, <1>10a, Zenon DEF Place
<1>12. /\ y \in Proc /\ y.order = n + 1 /\ y.pc = pc /\ pc \in {"pre_trade", "post"}
       /\ (pc = "pre_trade" => x.side = "sell") /\ y.todo = x.todo /\ y.side = x.side
       /\ y.snapshot = x.snapshot /\ y.signal = s /\ y.qty = x.qty
  <2>1. pc \in Steps /\ n + 1 \in Nat
    BY <1>7, <1>10 DEF Steps, Ordering
  <2>. QED  BY <1>2, <1>3, <1>10, <1>10a, <2>1 DEF Proc
<1>13. /\ orders' \in Seq(OrderRow) /\ Len(orders') = n + 1 /\ orders'[n + 1] = o
       /\ \A i \in Rows : orders'[i] = orders[i] /\ i \in Nat /\ i # n + 1 /\ i # 0
       /\ \A i \in Rows' : i \in Rows \/ i = n + 1
       /\ Rows \subseteq Rows' /\ n + 1 \in Rows' /\ n + 1 # 0
  <2>1. orders \in Seq(OrderRow) /\ Rows = 1..n
    BY <1>3, <1>7 DEF Typed, Rows
  <2>2. /\ orders' \in Seq(OrderRow) /\ Len(orders') = n + 1 /\ orders'[n + 1] = o
        /\ \A i \in 1..n : orders'[i] = orders[i]
    BY <1>7, <1>9, <1>11, <2>1, AppendProperties
  <2>3. Rows' = 1..(n + 1)
    BY <2>2 DEF Rows
  <2>. QED  BY <2>1, <2>2, <2>3
<1>14. /\ Typed' /\ proc'[p] = y
       /\ \A q \in Executors : q # p => proc'[q] = proc[q]
  BY <1>3, <1>11, <1>12, <1>13 DEF Typed, Overlap
<1>15. \A i \in Rows : IsUnresolved(i)' <=> IsUnresolved(i)
  BY <1>13 DEF IsUnresolved
<1>16. overlapped \/ \A i \in Rows : orders[i].side = x.side /\ IsUnresolved(i) => orders[i].symbol # z
  BY <1>6, UnresolvedOf
<1>17. UnresolvedSymbols("buy")' \subseteq
         UnresolvedSymbols("buy") \union (IF x.side = "buy" THEN {z} ELSE {})
  BY <1>9, <1>13, <1>15, UnresolvedOf
<1>18. /\ LiveSymbols' = LiveSymbols
       /\ \A w : LotsOf(w)' = LotsOf(w)
       /\ \A w, slot : OpenIn(w, slot)' = OpenIn(w, slot)
  BY <1>11 DEF LiveSymbols, LotsOf, OpenIn, IsOpen
<1>19. Active' \subseteq Active \union (IF x.side = "buy" THEN {z} ELSE {})
  BY <1>17, <1>18 DEF Active
<1>20. /\ \A w : SoldAsPosition(w) => SoldAsPosition(w)'
       /\ \A side, w : FillsLate(side, w) => FillsLate(side, w)'
       /\ \A w : Blurred(w) => Blurred(w)'
       /\ Astray => Astray'
  <2>0. \A i \in 1..Len(orders) : i \in 1..Len(orders') /\ orders'[i] = orders[i]
    BY <1>13 DEF Rows
  <2>1. \A w : SoldAsPosition(w) => SoldAsPosition(w)'
    BY <2>0 DEF SoldAsPosition
  <2>2. \A side, w : FillsLate(side, w) => FillsLate(side, w)'
    BY <2>0 DEF FillsLate, Orders
  <2>3. Astray => Astray'
    BY <2>0 DEF Astray, BuyOrders
  <2>. QED  BY <2>1, <2>2, <2>3 DEF Blurred
<1>21. LogSound' /\ LotsSound' /\ LotsCovered'
  <2>1. LogSound'
    BY <1>11 DEF IInv, TablesSound, LogSound, LotKnown, IsRecorded
  <2>2. LotsSound'
    BY <1>11, <1>13 DEF IInv, TablesSound, LotsSound
  <2>. QED  BY <1>11, <1>18, <1>20, <2>1, <2>2 DEF IInv, TablesSound, LotsCovered, Remaining
<1>22. OrdersSound'
  <2>1. LotKnown(s)
    BY <1>4 DEF IInv, TablesSound, LogSound
  <2>2. \A t : LotKnown(t)' <=> LotKnown(t)
    BY <1>11 DEF LotKnown
  <2>3. ASSUME NEW i \in Rows PROVE OrderSound(i)'
    <3>1. OrderSound(i) /\ orders'[i] = orders[i]
      BY <1>13 DEF IInv, TablesSound, OrdersSound
    <3>2. PICK t : t = orders[i].signal
      OBVIOUS
    <3>3. LotKnown(t)'
      BY <2>2, <3>1, <3>2 DEF OrderSound
    <3>. QED  BY <3>1, <3>2, <3>3 DEF OrderSound, LotKnown
  <2>4. OrderSound(n + 1)'
    <3>1. LotKnown(s)'
      BY <2>1, <2>2
    <3>2. 0 <= x.qty
      BY <1>3
    <3>. QED  BY <1>4, <1>5, <1>9, <1>13, <3>1, <3>2 DEF OrderSound, LotKnown
  <2>. QED  BY <1>13, <2>3, <2>4 DEF OrdersSound
<1>23. AuditSound'
  BY <1>11, <1>13 DEF IInv, TablesSound, AuditSound
<1>24. overlapped' \/ OneInFlight'
  <2>. SUFFICES ASSUME ~overlapped' PROVE OneInFlight'
    OBVIOUS
  <2>0. ~overlapped /\ OneInFlight
    BY DEF IInv, OrdersAlone
  <2>1. ASSUME NEW i \in Rows', NEW j \in Rows', IsUnresolved(i)', IsUnresolved(j)',
               orders'[i].side = orders'[j].side, orders'[i].symbol = orders'[j].symbol
        PROVE  i = j
    <3>1. CASE i \in Rows /\ j \in Rows
      BY <1>13, <1>15, <2>0, <2>1, <3>1 DEF OneInFlight
    <3>2. CASE i = n + 1 \/ j = n + 1
      BY <1>9, <1>13, <1>15, <1>16, <2>0, <2>1, <3>2
    <3>. QED  BY <1>13, <3>1, <3>2
  <2>. QED  BY <2>1 DEF OneInFlight
<1>25. overlapped' \/ SellsCovered'
  <2>. SUFFICES ASSUME ~overlapped' PROVE SellsCovered'
    OBVIOUS
  <2>0. ~overlapped /\ SellsCovered
    BY DEF IInv, OrdersAlone
  <2>1. ASSUME NEW i \in Rows', NEW w \in Symbols,
               orders'[i].side = "sell", orders'[i].symbol = w, IsUnresolved(i)'
        PROVE  FillsLate("sell", w)' \/ orders'[i].qty - orders'[i].booked <= position'[w]
    <3>1. CASE i \in Rows
      BY <1>11, <1>13, <1>15, <1>20, <2>0, <2>1, <3>1 DEF SellsCovered
    <3>2. CASE i = n + 1
      BY <1>3, <1>6, <1>9, <1>11, <1>13, <1>20, <2>0, <2>1, <3>2
    <3>. QED  BY <1>13, <3>1, <3>2
  <2>. QED  BY <2>1 DEF SellsCovered
<1>26. overlapped' \/ SlotOnce'
  <2>. SUFFICES ASSUME ~overlapped' PROVE SlotOnce'
    OBVIOUS
  <2>0. ~overlapped /\ SlotOnce
    BY DEF IInv, OrdersAlone
  <2>1. ASSUME NEW w \in Symbols, NEW slot \in TIMING2_30S_ENTRY_SLOTS, ~Blurred(w)',
               NEW i \in Entries(w, slot)', NEW l \in OpenIn(w, slot)
        PROVE  lots[l].order = i
    <3>1. /\ i \in Rows' /\ orders'[i].side = "buy" /\ orders'[i].symbol = w /\ IsUnresolved(i)'
          /\ StrategyOf[orders'[i].signal] = slot
      BY <2>1 DEF Entries, InFlight, Rows, IsUnresolved
    <3>2. ~Blurred(w)
      BY <1>20, <2>1
    <3>3. CASE i \in Rows
      <4>1. i \in Entries(w, slot)
        BY <1>13, <1>15, <3>1, <3>3 DEF Entries, InFlight, Rows, IsUnresolved
      <4>. QED  BY <2>0, <3>2, <4>1 DEF SlotOnce
    <3>4. CASE i = n + 1
      BY <1>6, <1>9, <1>13, <2>0, <2>1, <3>1, <3>2, <3>4
    <3>. QED  BY <1>13, <3>1, <3>3, <3>4
  <2>2. \A w \in Symbols, slot \in TIMING2_30S_ENTRY_SLOTS :
          Blurred(w)' \/ \A l, k \in OpenIn(w, slot) : l = k
    BY <1>20, <2>0 DEF SlotOnce
  <2>. QED  BY <1>11, <1>18, <2>1, <2>2 DEF SlotOnce
<1>27. overlapped' \/ ~Overlap'
  OBVIOUS
<1>28. Cardinality(Lost') <= crashes'
  <2>1. Lost' \subseteq Lost
    <3>1. ASSUME NEW i \in Lost' PROVE i \in Lost
      <4>1. i \in Rows' /\ (\A a \in audit : a.order # i) /\ (\A q \in Executors : proc'[q].order # i)
        BY <1>11 DEF Lost
      <4>2. i \in Rows
        BY <1>12, <1>13, <1>14, <4>1
      <4>3. \A q \in Executors : proc[q].order # i
        BY <1>1, <1>3, <1>13, <1>14, <4>1, <4>2
      <4>. QED  BY <4>1, <4>2, <4>3 DEF Lost
    <3>. QED  BY <3>1
  <2>2. Cardinality(Lost') <= Cardinality(Lost) /\ Cardinality(Lost) \in Nat /\ Cardinality(Lost') \in Nat
    BY <1>3, <2>1, Finite, FS_Subset, FS_CardinalityType
  <2>. QED  BY <1>3, <1>11, <2>2 DEF IInv, Typed
<1>28a. \A q \in Executors : q # p => proc[q].order # n + 1
  <2>. SUFFICES ASSUME NEW q \in Executors, proc[q].order # 0 PROVE proc[q].order # n + 1
    BY <1>13
  <2>1. proc[q].order \in Rows
    BY DEF IInv, Sound, WorkSound
  <2>. QED  BY <1>13, <2>1
<1>28b. Distinct'
  <2>. SUFFICES ASSUME NEW a \in Executors, NEW b \in Executors, a # b, proc'[a].order # 0,
                       proc'[a].order = proc'[b].order
                PROVE  FALSE
    BY DEF Distinct
  <2>1. CASE a = p \/ b = p
    BY <1>12, <1>14, <1>28a, <2>1
  <2>2. CASE a # p /\ b # p
    BY <1>14, <2>2 DEF IInv, Distinct
  <2>. QED  BY <2>1, <2>2
<1>29. overlapped \/ Astray \/ (x.side = "buy" =>
         /\ Cardinality(Counted) <= x.snapshot.count /\ x.snapshot.cash <= cash
         /\ x.qty * Price[z] <= x.snapshot.cash
         /\ Active \subseteq x.snapshot.active
         /\ Cardinality(x.snapshot.active) <= MaxHoldings
         /\ z \in x.snapshot.active \/ Cardinality(x.snapshot.active) < MaxHoldings)
  <2>1. x.snapshot.active \union {} = x.snapshot.active /\ x.pc \notin Ordering /\ x.pc # "posted"
    BY <1>3 DEF Ordering
  <2>. QED  BY <1>2, <1>3, <1>5, <2>1 DEF Sound, SnapshotSound, Own, CashLeft
<1>30. PICK active : active = x.snapshot.active \union {z}
  OBVIOUS
<1>31. overlapped \/ Astray \/ (x.side = "buy" =>
         IsFiniteSet(active) /\ Cardinality(active) \in Nat /\ Cardinality(active) <= MaxHoldings)
  <2>1. IsFiniteSet(x.snapshot.active)
    BY <1>3, FS_Subset, Constants
  <2>2. /\ Cardinality(x.snapshot.active) \in Nat /\ IsFiniteSet(active) /\ Cardinality(active) \in Nat
        /\ Cardinality(active) = IF z \in x.snapshot.active THEN Cardinality(x.snapshot.active)
                                 ELSE Cardinality(x.snapshot.active) + 1
    BY <1>30, <2>1, FS_AddElement, FS_CardinalityType
  <2>. QED  BY <1>29, <2>2, Constants
<1>32. overlapped' \/ Astray' \/ Cardinality(Active') <= MaxHoldings
  <2>. SUFFICES ASSUME ~overlapped', ~Astray' PROVE Cardinality(Active') <= MaxHoldings
    OBVIOUS
  <2>0. ~overlapped /\ ~Astray /\ Cardinality(Active) <= MaxHoldings
    BY <1>20 DEF IInv
  <2>1. CASE x.side = "buy"
    <3>1. Active' \subseteq active
      BY <1>19, <1>29, <1>30, <2>0, <2>1
    <3>2. Cardinality(Active') \in Nat /\ Cardinality(Active') <= Cardinality(active)
      BY <1>31, <2>0, <2>1, <3>1, FS_Subset, FS_CardinalityType
    <3>. QED  BY <1>31, <2>0, <2>1, <3>2, Constants
  <2>2. CASE x.side # "buy"
    <3>1. Active' \subseteq Active /\ IsFiniteSet(Active)
      BY <1>3, <1>19, <2>2, Finite
    <3>2. Cardinality(Active') \in Nat /\ Cardinality(Active') <= Cardinality(Active) /\ Cardinality(Active) \in Nat
      BY <3>1, FS_Subset, FS_CardinalityType
    <3>. QED  BY <2>0, <3>2, Constants
  <2>. QED  BY <2>1, <2>2
<1>33. WorkSound(y)'
  <2>1. \A t \in x.todo : IsRecorded(t)' /\ StrategyOf[t] \in TriggersOf(x.side)
    BY <1>3, <1>11 DEF Sound, WorkSound, IsRecorded
  <2>3. y.todo # {} /\ y.signal \in y.todo
    BY <1>4, <1>12
  <2>4. y.order # 0 /\ y.order \in Rows' /\ orders'[y.order] = o
    BY <1>12, <1>13
  <2>. QED  BY <1>9, <1>12, <2>1, <2>3, <2>4 DEF WorkSound, Ordering
<1>34. PlaceSound(y)'
  BY <1>12 DEF PlaceSound
<1>34a. Own(y) = {z} /\ y.pc \in Ordering
  BY <1>5, <1>12 DEF Own, Ordering
<1>34b. overlapped' \/ ViewSound(y)'
  <2>. SUFFICES ASSUME ~overlapped', x.side = "buy" PROVE ViewSound(y)'
    BY <1>12 DEF ViewSound
  <2>1. ViewSound(x) /\ Own(x) = {}
    BY <1>3 DEF Sound, Own, Ordering
  <2>2. UnresolvedSymbols("buy") \subseteq x.snapshot.unresolved
    BY <1>3, <2>1 DEF ViewSound
  <2>3. \A w \in Symbols :
          w \notin x.snapshot.live \union x.snapshot.unresolved =>
            Blurred(w)' \/ \A l \in LotsOf(w)' : ~IsOpen(lots'[l])
    BY <1>3, <1>11, <1>18, <1>20, <2>1 DEF ViewSound
  <2>4. UnresolvedSymbols("buy")' \subseteq x.snapshot.unresolved \union {z}
    BY <1>17, <2>2
  <2>. QED  BY <1>12, <1>34a, <2>3, <2>4 DEF ViewSound, Own
<1>35. overlapped' \/ Astray' \/ SnapshotSound(y)'
  <2>. SUFFICES ASSUME ~overlapped', ~Astray', x.side = "buy" PROVE SnapshotSound(y)'
    BY <1>12 DEF SnapshotSound
  <2>1. ~overlapped /\ ~Astray
    BY <1>20
  <2>2. Cardinality(Counted') <= x.snapshot.count + 1
    <3>1. Counted' \subseteq Counted \union {n + 1}
      BY <1>13 DEF Counted, Rows
    <3>2. PICK S : S = Counted \union {n + 1}
      OBVIOUS
    <3>3. /\ IsFiniteSet(S) /\ Cardinality(Counted) \in Nat
          /\ Cardinality(S) = Cardinality(Counted) \/ Cardinality(S) = Cardinality(Counted) + 1
      BY <1>3, <3>2, Finite, FS_AddElement, FS_CardinalityType
    <3>4. Cardinality(Counted') \in Nat /\ Cardinality(Counted') <= Cardinality(S)
      BY <3>1, <3>2, <3>3, FS_Subset, FS_CardinalityType
    <3>. QED  BY <1>3, <1>29, <2>1, <3>3, <3>4
  <2>5. Active' \subseteq x.snapshot.active \union {z}
    BY <1>19, <1>29, <2>1
  <2>6. Cardinality(x.snapshot.active \union {z}) <= MaxHoldings
    BY <1>30, <1>31, <2>1
  <2>7. CashLeft(y)' = x.snapshot.cash
    BY <1>12 DEF CashLeft
  <2>8. LiveSymbols' \subseteq x.snapshot.active
    BY <1>18, <1>29, <2>1 DEF Active
  <2>. QED  BY <1>5, <1>11, <1>12, <1>29, <1>34a, <2>1, <2>2, <2>5, <2>6, <2>7, <2>8 DEF SnapshotSound, Own
<1>36. \A q \in Executors : Sound(proc[q])'
  <2>1. Sound(y)'
    BY <1>33, <1>34, <1>34b, <1>35 DEF Sound
  <2>2. ASSUME NEW q \in Executors, q # p PROVE Sound(proc[q])'
    <3>1. WorkSound(proc[q])
      BY DEF IInv, Sound
    <3>2. WorkSound(proc[q])'
      <4>1. PICK w : w = proc[q]
        OBVIOUS
      <4>2. w.order # 0 => Undisturbed(w.order)
        <5>1. w.order # 0 => w.order \in Rows
          BY <3>1, <4>1 DEF WorkSound
        <5>. QED  BY <1>13, <5>1 DEF Undisturbed
      <4>3. \A t : IsRecorded(t) => IsRecorded(t)'
        BY <1>11 DEF IsRecorded, Recorded
      <4>4. WorkSound(w) /\ proc'[q] = w
        BY <1>14, <2>2, <3>1, <4>1
      <4>. QED  BY <4>2, <4>3, <4>4, WorkKept
    <3>3. proc'[p].pc # "idle"
      BY <1>12, <1>14
    <3>. QED  BY <2>2, <3>2, <3>3, OthersSound
  <2>. QED  BY <1>14, <2>1, <2>2, SoundOf
<1>. QED  BY <1>14, <1>21, <1>22, <1>23, <1>24, <1>25, <1>26, <1>28, <1>28b, <1>32, <1>36
          DEF IInv, TablesSound, OrdersAlone

-----------------------------------------------------------------------------
(* The life of an order                                                    *)

\* What no step takes back of an order.
Follows(i) ==
  /\ orders'[i].signal = orders[i].signal /\ orders'[i].symbol = orders[i].symbol
  /\ orders'[i].side = orders[i].side /\ orders'[i].qty = orders[i].qty
  /\ orders[i].booked <= orders'[i].booked
  /\ orders[i].late => orders'[i].late
  /\ orders'[i].status \in Unresolved => orders[i].status \in Unresolved
  /\ orders[i].status \in {"REJECTED", "FAILED"} =>
       orders'[i].status = orders[i].status /\ (orders'[i].broker = "none" <=> orders[i].broker = "none")

\* One row of the orders table changes.
Changes(i, o) ==
  /\ i \in Rows /\ o \in OrderRow
  /\ orders' = [orders EXCEPT ![i] = o]

LEMMA Changed ==
  ASSUME Typed, NEW i, NEW o, Changes(i, o)
  PROVE  /\ orders' \in Seq(OrderRow) /\ Len(orders') = Len(orders) /\ Rows' = Rows
         /\ orders'[i] = o /\ \A j \in Rows : j # i => orders'[j] = orders[j]
<1>1. orders \in Seq(OrderRow) /\ i \in 1..Len(orders) /\ o \in OrderRow
  BY DEF Typed, Changes, Rows
<1>2. PICK t : t = [orders EXCEPT ![i] = o]
  OBVIOUS
<1>3. /\ t \in Seq(OrderRow) /\ Len(t) = Len(orders)
      /\ \A j \in 1..Len(orders) : t[j] = IF j = i THEN o ELSE orders[j]
  BY <1>1, <1>2, ExceptSeq
<1>. QED  BY <1>1, <1>2, <1>3 DEF Changes, Rows

LEMMA NextRow ==
  ASSUME orders' \in Seq(OrderRow), NEW i \in Rows'
  PROVE  /\ orders'[i] \in OrderRow /\ orders'[i].filled \in Nat /\ orders'[i].booked \in Nat
         /\ orders'[i].qty \in Nat \ {0}
<1>1. orders'[i] \in OrderRow
  BY DEF Rows
<1>. QED  BY <1>1 DEF OrderRow

LEMMA FollowsAll ==
  ASSUME Typed, NEW i, NEW o, Changes(i, o), Follows(i)
  PROVE  \A j \in Rows : Follows(j)
<1>1. ASSUME NEW j \in Rows, j # i PROVE Follows(j)
  <2>1. orders'[j] = orders[j] /\ orders[j].booked \in Nat
    BY <1>1, Changed, OrderRows
  <2>. QED  BY <2>1 DEF Follows
<1>. QED  BY <1>1

LEMMA Drifted ==
  ASSUME Typed, Rows' = Rows, \A i \in Rows : Follows(i), orders' \in Seq(OrderRow)
  PROVE  /\ \A i \in Rows : IsUnresolved(i)' => IsUnresolved(i)
         /\ \A side : UnresolvedSymbols(side)' \subseteq UnresolvedSymbols(side)
         /\ \A side, w : FillsLate(side, w) => FillsLate(side, w)'
         /\ \A w : SoldAsPosition(w) => SoldAsPosition(w)'
         /\ \A w : Blurred(w) => Blurred(w)'
         /\ \A w, slot : Entries(w, slot)' \subseteq Entries(w, slot)
         /\ Astray => Astray'
         /\ Counted' \subseteq Counted
         /\ OneInFlight => OneInFlight'
<1>0. \A i : i \in 1..Len(orders') <=> i \in Rows
  BY DEF Rows
<1>1. \A i \in Rows : IsUnresolved(i)' => IsUnresolved(i)
  BY DEF Follows, IsUnresolved
<1>2. \A side : UnresolvedSymbols(side)' \subseteq UnresolvedSymbols(side)
  BY <1>0, <1>1 DEF Follows, UnresolvedSymbols, FindUnresolved, IsUnresolved, Rows
<1>3. \A side, w : FillsLate(side, w) => FillsLate(side, w)'
  BY <1>0 DEF Follows, FillsLate, Orders, Rows
<1>4. \A w : SoldAsPosition(w) => SoldAsPosition(w)'
  <2>1. SUFFICES ASSUME NEW w, NEW i \in Rows, orders[i].symbol = w,
                        StrategyOf[orders[i].signal] \in PositionExits, orders[i].booked > 0
                 PROVE  SoldAsPosition(w)'
    BY DEF SoldAsPosition, Rows
  <2>2. orders[i].booked \in Nat /\ orders'[i].booked \in Nat
    BY <1>0, OrderRows, NextRow DEF Rows
  <2>3. orders'[i].symbol = w /\ orders'[i].signal = orders[i].signal /\ orders'[i].booked > 0
    BY <2>1, <2>2 DEF Follows
  <2>. QED  BY <1>0, <2>1, <2>3 DEF SoldAsPosition
<1>5. \A w : Blurred(w) => Blurred(w)'
  BY <1>3, <1>4 DEF Blurred
<1>6. \A w, slot : Entries(w, slot)' \subseteq Entries(w, slot)
  BY <1>0 DEF Follows, Entries, InFlight, Rows
<1>7. Astray => Astray'
  <2>1. SUFFICES ASSUME NEW i \in Rows, orders[i].side = "buy",
                        orders[i].late \/ (orders[i].status = "REJECTED" /\ orders[i].broker # "none")
                 PROVE  Astray'
    BY DEF Astray, BuyOrders, Rows
  <2>2. orders'[i].late \/ (orders'[i].status = "REJECTED" /\ orders'[i].broker # "none")
    BY <2>1 DEF Follows
  <2>3. orders'[i].side = "buy"
    BY <2>1 DEF Follows
  <2>. QED  BY <1>0, <2>2, <2>3 DEF Astray, BuyOrders
<1>8. Counted' \subseteq Counted
  BY <1>0 DEF Follows, Counted, Rows
<1>9. OneInFlight => OneInFlight'
  BY <1>1 DEF Follows, OneInFlight
<1>. QED  BY <1>1, <1>2, <1>3, <1>4, <1>5, <1>6, <1>7, <1>8, <1>9

\* What a change of one order leaves of the tables, when nothing is booked.
LEMMA RowKeeps ==
  ASSUME IInv, NEW i, NEW o, Changes(i, o), Follows(i), OrderSound(i)',
         UNCHANGED <<log, sellQty, audit, position, lots, crashes>>,
         \A q \in Executors : proc'[q].order = proc[q].order
  PROVE  /\ TablesSound' /\ Cardinality(Lost') <= crashes' /\ Distinct'
         /\ OrdersAlone => OrdersAlone'
         /\ Active' \subseteq Active /\ LiveSymbols' = LiveSymbols
         /\ \A w : LotsOf(w)' = LotsOf(w)
         /\ \A w, slot : OpenIn(w, slot)' = OpenIn(w, slot)
         /\ Cardinality(Active) <= MaxHoldings => Cardinality(Active') <= MaxHoldings
<1>0. Typed /\ TablesSound
  BY DEF IInv
<1>1. /\ Rows' = Rows /\ orders' \in Seq(OrderRow) /\ \A j \in Rows : Follows(j)
      /\ \A j \in Rows : j # i => orders'[j] = orders[j]
  BY <1>0, Changed, FollowsAll
<1>2. /\ \A j \in Rows : IsUnresolved(j)' => IsUnresolved(j)
      /\ \A side : UnresolvedSymbols(side)' \subseteq UnresolvedSymbols(side)
      /\ \A side, w : FillsLate(side, w) => FillsLate(side, w)'
      /\ \A w : SoldAsPosition(w) => SoldAsPosition(w)'
      /\ \A w : Blurred(w) => Blurred(w)'
      /\ \A w, slot : Entries(w, slot)' \subseteq Entries(w, slot)
      /\ OneInFlight => OneInFlight'
  BY <1>0, <1>1, Drifted
<1>3. /\ LiveSymbols' = LiveSymbols
      /\ \A w : LotsOf(w)' = LotsOf(w)
      /\ \A w, slot : OpenIn(w, slot)' = OpenIn(w, slot)
      /\ \A t : LotKnown(t)' <=> LotKnown(t)
  BY DEF LiveSymbols, LotsOf, OpenIn, IsOpen, LotKnown
<1>4. TablesSound'
  <2>1. LogSound'
    BY <1>0, <1>3 DEF TablesSound, LogSound, IsRecorded, Recorded
  <2>2. OrdersSound'
    <3>1. ASSUME NEW j \in Rows, j # i PROVE OrderSound(j)'
      <4>1. OrderSound(j) /\ orders'[j] = orders[j]
        BY <1>0, <1>1, <3>1 DEF TablesSound, OrdersSound
      <4>2. PICK t : t = orders[j].signal
        OBVIOUS
      <4>3. LotKnown(t)'
        BY <1>3, <4>1, <4>2 DEF OrderSound
      <4>. QED  BY <4>1, <4>2, <4>3 DEF OrderSound, LotKnown
    <3>. QED  BY <1>1, <3>1 DEF OrdersSound
  <2>3. AuditSound'
    BY <1>0, <1>1 DEF TablesSound, AuditSound, Follows
  <2>4. LotsSound'
    BY <1>0, <1>1 DEF TablesSound, LotsSound, Follows
  <2>5. LotsCovered'
    BY <1>0, <1>2, <1>3 DEF TablesSound, LotsCovered, Remaining
  <2>. QED  BY <2>1, <2>2, <2>3, <2>4, <2>5 DEF TablesSound
<1>5. Lost' = Lost /\ Distinct'
  BY <1>1 DEF Lost, IInv, Distinct
<1>6. OrdersAlone => OrdersAlone'
  <2>. SUFFICES ASSUME OrdersAlone PROVE OrdersAlone'
    OBVIOUS
  <2>1. OneInFlight /\ SellsCovered /\ SlotOnce
    BY DEF OrdersAlone
  <2>2. SellsCovered'
    <3>1. ASSUME NEW j \in Rows, NEW w \in Symbols,
                 orders'[j].side = "sell", orders'[j].symbol = w, IsUnresolved(j)'
          PROVE  FillsLate("sell", w)' \/ orders'[j].qty - orders'[j].booked <= position'[w]
      <4>1. orders[j].side = "sell" /\ orders[j].symbol = w /\ IsUnresolved(j) /\ orders'[j].qty = orders[j].qty
        BY <1>1, <1>2, <3>1 DEF Follows
      <4>2. FillsLate("sell", w) \/ orders[j].qty - orders[j].booked <= position[w]
        BY <2>1, <4>1 DEF SellsCovered
      <4>3. /\ orders[j].booked <= orders'[j].booked
            /\ orders[j].booked \in Nat /\ orders'[j].booked \in Nat /\ orders[j].qty \in Nat
            /\ position[w] \in Nat
        <5>1. orders[j].booked <= orders'[j].booked
          BY <1>1 DEF Follows
        <5>2. orders[j].booked \in Nat /\ orders[j].qty \in Nat
          BY <1>0, OrderRows
        <5>3. orders'[j].booked \in Nat
          BY <1>1, NextRow
        <5>. QED  BY <1>0, <5>1, <5>2, <5>3 DEF Typed
      <4>. QED  BY <1>2, <4>1, <4>2, <4>3
    <3>. QED  BY <1>1, <3>1 DEF SellsCovered
  <2>3. SlotOnce'
    BY <1>2, <1>3, <2>1 DEF SlotOnce
  <2>. QED  BY <1>2, <2>1, <2>2, <2>3 DEF OrdersAlone
<1>7. Active' \subseteq Active
  BY <1>2, <1>3 DEF Active
<1>8. Cardinality(Active') <= Cardinality(Active) /\ Cardinality(Active) \in Nat /\ Cardinality(Active') \in Nat
  BY <1>0, <1>7, Finite, FS_Subset, FS_CardinalityType
<1>. QED  BY <1>3, <1>4, <1>5, <1>6, <1>7, <1>8, Constants DEF IInv

-----------------------------------------------------------------------------
(* A pass and the order it has on its way                                  *)

LEMMA OwnStepKeeps ==
  ASSUME IInv, overlapped' = (overlapped \/ Overlap'), NEW p \in Executors,
         NEW i, i = proc[p].order, i # 0, NEW o, Changes(i, o), Follows(i), OrderSound(i)',
         UNCHANGED <<found, log, acted, stale, sellQty, audit, position, lots, crashes>>,
         cash' \in Nat,
         NEW y \in Proc, y.order = i, y.pc # "idle", proc' = [proc EXCEPT ![p] = y], Sound(y)'
  PROVE  IInv'
<1>1. /\ Typed /\ proc' \in [Executors -> Proc]
      /\ proc'[p] = y /\ \A q \in Executors : q # p => proc'[q] = proc[q]
  BY DEF IInv, Typed
<1>2. /\ orders' \in Seq(OrderRow) /\ Rows' = Rows /\ \A j \in Rows : Follows(j)
      /\ \A j \in Rows : j # i => orders'[j] = orders[j]
  BY <1>1, Changed, FollowsAll
<1>3. Typed'
  BY <1>1, <1>2 DEF Typed, Overlap
<1>4. \A q \in Executors : proc'[q].order = proc[q].order
  BY <1>1
<1>5. /\ TablesSound' /\ Cardinality(Lost') <= crashes' /\ Distinct'
      /\ OrdersAlone => OrdersAlone'
      /\ Cardinality(Active) <= MaxHoldings => Cardinality(Active') <= MaxHoldings
  BY <1>4, RowKeeps
<1>6. Astray => Astray'
  BY <1>1, <1>2, Drifted
<1>7. ASSUME NEW q \in Executors, q # p PROVE Sound(proc[q])'
  <2>1. PICK w : w = proc[q]
    OBVIOUS
  <2>2. WorkSound(w) /\ w.order # i /\ proc'[q] = w
    <3>1. w.order # i
      BY <1>7, <2>1 DEF IInv, Distinct
    <3>2. WorkSound(w)
      BY <2>1 DEF IInv, Sound
    <3>. QED  BY <1>1, <1>7, <2>1, <3>1, <3>2
  <2>3. w.order # 0 => Undisturbed(w.order)
    <3>1. w.order # 0 => w.order \in Rows
      BY <2>2 DEF WorkSound
    <3>. QED  BY <1>2, <2>2, <3>1 DEF Undisturbed
  <2>4. \A s : IsRecorded(s) => IsRecorded(s)'
    BY DEF IsRecorded, Recorded
  <2>5. WorkSound(proc[q])'
    BY <2>2, <2>3, <2>4, WorkKept
  <2>. QED  BY <1>1, <1>7, <2>5, OthersSound
<1>8. \A q \in Executors : Sound(proc[q])'
  BY <1>1, <1>7, SoundOf
<1>. QED  BY <1>3, <1>5, <1>6, <1>8 DEF IInv

\* What a pass knows that has an order on its way.
LEMMA Underway ==
  ASSUME IInv, NEW p \in Executors, proc[p].pc \in Ordering
  PROVE  LET x == proc[p]
             i == x.order
         IN  /\ Typed /\ i \in Rows /\ i # 0 /\ OrderSound(i)
             /\ orders[i] \in OrderRow /\ orders[i].status = "PENDING" /\ ~orders[i].late
             /\ orders[i].filled \in Nat /\ orders[i].booked \in Nat
             /\ orders[i].side = x.side /\ orders[i].qty = x.qty /\ orders[i].signal = x.signal
             /\ x.signal \in Signals /\ x.signal \in x.todo /\ orders[i].symbol = SymbolOf[x.signal]
             /\ SymbolOf[x.signal] \in Symbols /\ x.side \in Sides
             /\ LotKnown(x.signal)
<1>1. PICK x : x = proc[p]
  OBVIOUS
<1>2. Typed /\ WorkSound(x) /\ x.todo \in SUBSET Signals /\ x.side \in Sides
  BY <1>1, ProcOf DEF Sound
<1>3. PICK i : i = x.order
  OBVIOUS
<1>4. /\ i \in Rows /\ i # 0 /\ orders[i].status = "PENDING"
      /\ orders[i].side = x.side /\ orders[i].qty = x.qty /\ orders[i].signal = x.signal
      /\ x.signal \in x.todo
  BY <1>1, <1>2, <1>3 DEF WorkSound
<1>5. OrderSound(i)
  BY <1>4 DEF IInv, TablesSound, OrdersSound
<1>6. /\ orders[i] \in OrderRow /\ orders[i].filled \in Nat /\ orders[i].booked \in Nat
      /\ orders[i].late \in BOOLEAN
  BY <1>2, <1>4, OrderRows
<1>7. ~orders[i].late
  BY <1>4, <1>5, <1>6 DEF OrderSound
<1>8. orders[i].symbol = SymbolOf[x.signal] /\ SymbolOf[x.signal] \in Symbols /\ LotKnown(x.signal)
  BY <1>2, <1>4, <1>5, Constants DEF OrderSound
<1>. QED  BY <1>1, <1>2, <1>3, <1>4, <1>5, <1>6, <1>7, <1>8

LEMMA PreTradeKeeps ==
  ASSUME IInv, overlapped' = (overlapped \/ Overlap'), NEW p \in Executors, PreTrade(p)
  PROVE  IInv'
<1>1. PICK x : x = proc[p]
  OBVIOUS
<1>2. PICK i : i = x.order
  OBVIOUS
<1>3. x \in Proc /\ x.pc = "pre_trade" /\ Sound(x) /\ x.reason \in Reasons /\ x.pc \in Ordering
  BY <1>1, ProcOf DEF PreTrade, At, Ordering
<1>4. /\ Typed /\ i \in Rows /\ i # 0 /\ OrderSound(i)
      /\ orders[i] \in OrderRow /\ orders[i].status = "PENDING" /\ ~orders[i].late
      /\ orders[i].filled \in Nat /\ orders[i].booked \in Nat
      /\ orders[i].side = x.side /\ orders[i].qty = x.qty /\ orders[i].signal = x.signal
      /\ x.signal \in Signals /\ x.signal \in x.todo /\ orders[i].symbol = SymbolOf[x.signal]
      /\ LotKnown(x.signal)
  BY <1>1, <1>2, <1>3, Underway
<1>5. x.side = "sell" /\ orders[i].broker = "none" /\ orders[i].filled = 0
  BY <1>2, <1>3, <1>4 DEF Sound, WorkSound, OrderSound
<1>6. PICK covered : covered = (orders[i].qty <= position[orders[i].symbol])
  OBVIOUS
<1>7. PICK o : o = IF covered THEN orders[i] ELSE [orders[i] EXCEPT !.status = "FAILED"]
  OBVIOUS
<1>8. PICK y : y = [x EXCEPT !.pc = IF covered THEN "post" ELSE "consume",
                             !.reason = IF covered THEN @ ELSE "FAILED"]
  OBVIOUS
<1>9. /\ orders' = (IF covered THEN orders ELSE [orders EXCEPT ![i].status = "FAILED"])
      /\ proc' = [proc EXCEPT ![p] = y]
      /\ UNCHANGED <<found, log, acted, stale, sellQty, audit, position, lots, cash, crashes>>
  BY <1>1, <1>2, <1>6, <1>8 DEF PreTrade
<1>10. orders' = [orders EXCEPT ![i] = o]
  <2>1. CASE covered
    <3>1. orders \in [1..Len(orders) -> OrderRow] /\ i \in 1..Len(orders)
      BY <1>4 DEF Typed, Rows
    <3>. QED  BY <1>7, <1>9, <2>1, <3>1
  <2>2. CASE ~covered
    BY <1>7, <1>9, <2>2
  <2>. QED  BY <1>6, <2>1, <2>2
<1>11. /\ o \in OrderRow /\ o.signal = orders[i].signal /\ o.symbol = orders[i].symbol
       /\ o.side = orders[i].side /\ o.qty = orders[i].qty /\ o.booked = orders[i].booked
       /\ o.filled = orders[i].filled /\ o.broker = "none" /\ o.late = orders[i].late
       /\ o.status = IF covered THEN "PENDING" ELSE "FAILED"
  <2>1. "FAILED" \in Unresolved \union {"REJECTED", "FAILED", "FILLED", "CANCELLED"}
    OBVIOUS
  <2>. QED  BY <1>4, <1>5, <1>7, <2>1 DEF OrderRow
<1>12. Changes(i, o)
  BY <1>4, <1>10, <1>11 DEF Changes
<1>13. /\ orders'[i] = o /\ Rows' = Rows
  BY <1>4, <1>12, Changed
<1>14. Follows(i)
  BY <1>4, <1>11, <1>13 DEF Follows, Unresolved
<1>15. OrderSound(i)'
  <2>1. CASE covered
    BY <1>4, <1>5, <1>9, <1>11, <1>13, <2>1 DEF OrderSound, LotKnown
  <2>2. CASE ~covered
    BY <1>4, <1>5, <1>9, <1>11, <1>13, <2>2 DEF OrderSound, LotKnown
  <2>. QED  BY <1>6, <2>1, <2>2
<1>16. /\ y \in Proc /\ y.order = i /\ y.pc = (IF covered THEN "post" ELSE "consume")
       /\ y.signal = x.signal /\ y.side = "sell" /\ y.todo = x.todo /\ y.qty = x.qty
       /\ y.reason = (IF covered THEN x.reason ELSE "FAILED")
  <2>1. {"post", "consume"} \subseteq Steps /\ "FAILED" \in Reasons
    BY DEF Steps, Ordering, Reasons, OutcomeReasons
  <2>. QED  BY <1>2, <1>3, <1>5, <1>8, <2>1 DEF Proc
<1>17. WorkSound(y)'
  <2>1. \A t \in x.todo : IsRecorded(t)' /\ StrategyOf[t] \in TriggersOf("sell")
    BY <1>3, <1>5, <1>9 DEF Sound, WorkSound, IsRecorded
  <2>2. x.todo # {}
    BY <1>4
  <2>. QED  BY <1>4, <1>5, <1>11, <1>13, <1>16, <2>1, <2>2 DEF WorkSound, Ordering, OutcomeReasons
<1>18. PlaceSound(y)' /\ ViewSound(y)' /\ SnapshotSound(y)'
  BY <1>16 DEF PlaceSound, ViewSound, SnapshotSound
<1>19. cash' \in Nat
  BY <1>4, <1>9 DEF Typed
<1>20. Sound(y)' /\ y.pc # "idle"
  BY <1>16, <1>17, <1>18 DEF Sound
<1>. QED  BY <1>1, <1>2, <1>4, <1>9, <1>12, <1>14, <1>15, <1>16, <1>19, <1>20, OwnStepKeeps

LEMMA PostKeeps ==
  ASSUME IInv, overlapped' = (overlapped \/ Overlap'), NEW p \in Executors, NEW taken \in BOOLEAN, Post(p, taken)
  PROVE  IInv'
<1>1. PICK x : x = proc[p]
  OBVIOUS
<1>2. PICK i : i = x.order
  OBVIOUS
<1>3. x \in Proc /\ x.pc = "post" /\ Sound(x) /\ x.pc \in Ordering /\ x.qty \in Nat /\ x.snapshot.cash \in Nat
  BY <1>1, ProcOf DEF Post, At, Ordering
<1>4. /\ Typed /\ i \in Rows /\ i # 0 /\ OrderSound(i)
      /\ orders[i] \in OrderRow /\ orders[i].status = "PENDING" /\ ~orders[i].late
      /\ orders[i].filled \in Nat /\ orders[i].booked \in Nat
      /\ orders[i].side = x.side /\ orders[i].qty = x.qty /\ orders[i].signal = x.signal
      /\ x.signal \in Signals /\ x.signal \in x.todo /\ orders[i].symbol = SymbolOf[x.signal]
      /\ SymbolOf[x.signal] \in Symbols /\ x.side \in Sides /\ LotKnown(x.signal)
  BY <1>1, <1>2, <1>3, Underway
<1>5. orders[i].broker = "none" /\ orders[i].filled = 0
  BY <1>2, <1>3, <1>4 DEF Sound, WorkSound, OrderSound
<1>6. PICK broker : broker = IF taken THEN "working" ELSE "none"
  OBVIOUS
<1>7. PICK o : o = [orders[i] EXCEPT !.broker = broker]
  OBVIOUS
<1>8. PICK y : y = [x EXCEPT !.pc = "posted"]
  OBVIOUS
<1>9. PICK cost : cost = x.qty * Price[SymbolOf[x.signal]]
  OBVIOUS
<1>9a. cost \in Nat
  BY <1>3, <1>4, <1>9, Constants
<1>10. /\ orders' = [orders EXCEPT ![i].broker = broker]
       /\ cash' = (IF taken /\ x.side = "buy" THEN cash - cost ELSE cash)
       /\ proc' = [proc EXCEPT ![p] = y]
       /\ taken /\ x.side = "buy" => cost <= cash
       /\ UNCHANGED <<found, log, acted, stale, sellQty, audit, position, lots, crashes>>
  BY <1>1, <1>2, <1>4, <1>6, <1>8, <1>9 DEF Post, Worth, Acceptable
<1>11. orders' = [orders EXCEPT ![i] = o]
  BY <1>7, <1>10
<1>12. /\ o \in OrderRow /\ o.signal = orders[i].signal /\ o.symbol = orders[i].symbol
       /\ o.side = orders[i].side /\ o.qty = orders[i].qty /\ o.booked = orders[i].booked
       /\ o.filled = orders[i].filled /\ o.broker = broker /\ o.late = orders[i].late
       /\ o.status = "PENDING"
  <2>1. broker \in {"none", "working", "cancelled"}
    BY <1>6
  <2>. QED  BY <1>4, <1>7, <2>1 DEF OrderRow
<1>13. Changes(i, o)
  BY <1>4, <1>11, <1>12 DEF Changes
<1>14. orders'[i] = o /\ Rows' = Rows
  BY <1>4, <1>13, Changed
<1>15. Follows(i)
  BY <1>4, <1>12, <1>14 DEF Follows, Unresolved
<1>16. OrderSound(i)'
  BY <1>4, <1>5, <1>10, <1>12, <1>14 DEF OrderSound, LotKnown
<1>17. /\ y \in Proc /\ y.order = i /\ y.pc = "posted" /\ y.snapshot = x.snapshot
       /\ y.signal = x.signal /\ y.side = x.side /\ y.todo = x.todo /\ y.qty = x.qty
  <2>1. "posted" \in Steps
    BY DEF Steps, Ordering
  <2>. QED  BY <1>2, <1>3, <1>8, <2>1 DEF Proc
<1>18. WorkSound(y)'
  <2>1. \A t \in x.todo : IsRecorded(t)' /\ StrategyOf[t] \in TriggersOf(x.side)
    BY <1>3, <1>10 DEF Sound, WorkSound, IsRecorded
  <2>2. x.todo # {}
    BY <1>4
  <2>. QED  BY <1>4, <1>12, <1>14, <1>17, <2>1, <2>2 DEF WorkSound, Ordering
<1>19. cash' \in Nat
  BY <1>4, <1>9a, <1>10 DEF Typed
<1>20. \A q \in Executors : proc'[q].order = proc[q].order
  BY <1>1, <1>2, <1>4, <1>10, <1>17 DEF Typed
<1>21. /\ Active' \subseteq Active /\ LiveSymbols' = LiveSymbols
       /\ \A w : LotsOf(w)' = LotsOf(w)
  BY <1>10, <1>13, <1>15, <1>16, <1>20, RowKeeps
<1>22. /\ UnresolvedSymbols("buy")' \subseteq UnresolvedSymbols("buy")
       /\ \A w : Blurred(w) => Blurred(w)'
       /\ Counted' \subseteq Counted
       /\ Astray => Astray'
  <2>1. orders' \in Seq(OrderRow) /\ \A j \in Rows : Follows(j)
    BY <1>4, <1>13, <1>15, Changed, FollowsAll
  <2>. QED  BY <1>4, <1>14, <2>1, Drifted
<1>23. PlaceSound(y)'
  BY <1>17 DEF PlaceSound
<1>24. Own(x) = Own(y) /\ x.pc \in Ordering /\ y.pc \in Ordering
  BY <1>3, <1>17 DEF Own, Ordering
<1>25. overlapped' \/ ViewSound(y)'
  <2>. SUFFICES ASSUME ~overlapped', x.side = "buy" PROVE ViewSound(y)'
    BY <1>17 DEF ViewSound
  <2>1. /\ UnresolvedSymbols("buy") \subseteq x.snapshot.unresolved \union Own(x)
        /\ \A z \in Symbols :
             z \notin x.snapshot.live \union x.snapshot.unresolved =>
               Blurred(z) \/ \A l \in LotsOf(z) : ~IsOpen(lots[l])
    BY <1>3 DEF Sound, ViewSound
  <2>. QED  BY <1>10, <1>17, <1>21, <1>22, <1>24, <2>1 DEF ViewSound, Own
<1>26. overlapped' \/ Astray' \/ SnapshotSound(y)'
  <2>. SUFFICES ASSUME ~overlapped', ~Astray', x.side = "buy" PROVE SnapshotSound(y)'
    BY <1>17 DEF SnapshotSound
  <2>1. SnapshotSound(x)
    BY <1>3, <1>22 DEF Sound
  <2>2. /\ Cardinality(Counted) <= x.snapshot.count + 1
        /\ x.snapshot.cash <= cash
        /\ cost <= x.snapshot.cash
        /\ Active \subseteq x.snapshot.active \union Own(x)
        /\ Cardinality(x.snapshot.active \union Own(x)) <= MaxHoldings
        /\ LiveSymbols \subseteq x.snapshot.active
    BY <1>3, <1>9, <2>1 DEF SnapshotSound, CashLeft
  <2>3. Cardinality(Counted') <= x.snapshot.count + 1
    <3>1. Cardinality(Counted') <= Cardinality(Counted) /\ Cardinality(Counted) \in Nat /\ Cardinality(Counted') \in Nat
      BY <1>4, <1>22, Finite, FS_Subset, FS_CardinalityType
    <3>2. x.snapshot.count \in Nat
      BY <1>1, ProcOf
    <3>. QED  BY <2>2, <3>1, <3>2
  <2>4. CashLeft(y)' <= cash'
    <3>1. CashLeft(y)' = IF taken THEN x.snapshot.cash - cost ELSE x.snapshot.cash
      BY <1>6, <1>9, <1>12, <1>14, <1>17 DEF CashLeft
    <3>. QED  BY <1>3, <1>4, <1>9a, <1>10, <2>2, <3>1 DEF Typed
  <2>. QED  BY <1>9, <1>17, <1>21, <1>24, <2>2, <2>3, <2>4 DEF SnapshotSound, Own
<1>27. Sound(y)' /\ y.pc # "idle"
  BY <1>17, <1>18, <1>23, <1>25, <1>26 DEF Sound
<1>. QED  BY <1>1, <1>2, <1>4, <1>10, <1>13, <1>15, <1>16, <1>17, <1>19, <1>27, OwnStepKeeps

\* The reply: what the pass makes of it, and what it keeps for itself.
LEMMA RepliedKeeps ==
  ASSUME IInv, overlapped' = (overlapped \/ Overlap'), NEW p \in Executors,
         NEW outcome \in {"SUBMITTED", "UNKNOWN", "REJECTED"}, Replied(p, outcome)
  PROVE  IInv'
<1>1. PICK x : x = proc[p]
  OBVIOUS
<1>2. PICK i : i = x.order
  OBVIOUS
<1>3. /\ x \in Proc /\ x.pc = "posted" /\ Sound(x) /\ x.pc \in Ordering /\ x.qty \in Nat
      /\ x.snapshot \in SnapshotRecord
      /\ x.snapshot.cash \in Nat /\ x.snapshot.count \in Nat /\ x.snapshot.active \in SUBSET Symbols
      /\ x.snapshot.unresolved \in SUBSET Symbols
  BY <1>1, ProcOf DEF Replied, At, Ordering
<1>4. /\ Typed /\ i \in Rows /\ i # 0 /\ OrderSound(i)
      /\ orders[i] \in OrderRow /\ orders[i].status = "PENDING" /\ ~orders[i].late
      /\ orders[i].filled \in Nat /\ orders[i].booked \in Nat
      /\ orders[i].side = x.side /\ orders[i].qty = x.qty /\ orders[i].signal = x.signal
      /\ x.signal \in Signals /\ x.signal \in x.todo /\ orders[i].symbol = SymbolOf[x.signal]
      /\ SymbolOf[x.signal] \in Symbols /\ x.side \in Sides /\ LotKnown(x.signal)
  BY <1>1, <1>2, <1>3, Underway
<1>5. PICK z \in Symbols : z = SymbolOf[x.signal] /\ z = orders[i].symbol
  BY <1>4
<1>6. PICK cost \in Nat : cost = x.qty * Price[z]
  BY <1>3, Constants
<1>7. PICK reserves : reserves = (x.side = "buy" /\ outcome # "REJECTED")
  OBVIOUS
<1>8. PICK y : y = [(IF reserves THEN Reserve(x) ELSE x) EXCEPT !.pc = "consume", !.reason = outcome]
  OBVIOUS
<1>9. PICK o : o = [orders[i] EXCEPT !.status = outcome, !.numbered = (outcome = "SUBMITTED")]
  OBVIOUS
<1>10. /\ orders' = [orders EXCEPT ![i].status = outcome, ![i].numbered = (outcome = "SUBMITTED")]
       /\ proc' = [proc EXCEPT ![p] = y]
       /\ UNCHANGED <<found, log, acted, stale, sellQty, audit, position, lots, cash, crashes>>
  BY <1>1, <1>2, <1>7, <1>8, Zenon DEF Replied
<1>11. orders' = [orders EXCEPT ![i] = o]
  BY <1>9, <1>10
<1>12. /\ o \in OrderRow /\ o.signal = orders[i].signal /\ o.symbol = orders[i].symbol
       /\ o.side = orders[i].side /\ o.qty = orders[i].qty /\ o.booked = orders[i].booked
       /\ o.filled = orders[i].filled /\ o.broker = orders[i].broker /\ o.late = orders[i].late
       /\ o.status = outcome
  <2>1. outcome \in Unresolved \union {"REJECTED", "FAILED", "FILLED", "CANCELLED"}
    BY DEF Unresolved
  <2>2. (outcome = "SUBMITTED") \in BOOLEAN
    OBVIOUS
  <2>. QED  BY <1>4, <1>9, <2>1, <2>2 DEF OrderRow
<1>13. Changes(i, o)
  BY <1>4, <1>11, <1>12 DEF Changes
<1>14. orders'[i] = o /\ Rows' = Rows
  BY <1>4, <1>13, Changed
<1>15. Follows(i)
  BY <1>4, <1>12, <1>14 DEF Follows, Unresolved
<1>16. OrderSound(i)'
  BY <1>4, <1>10, <1>12, <1>14 DEF OrderSound, LotKnown
<1>17. PICK left : left = IF x.snapshot.cash - cost > 0 THEN x.snapshot.cash - cost ELSE 0
  OBVIOUS
<1>18. PICK n : n = [x.snapshot EXCEPT !.cash = left, !.active = @ \union {z},
                                       !.unresolved = @ \union {z}, !.count = @ + 1]
  OBVIOUS
<1>19. /\ n \in SnapshotRecord
       /\ n.cash = left /\ left \in Nat
       /\ n.active = x.snapshot.active \union {z}
       /\ n.unresolved = x.snapshot.unresolved \union {z}
       /\ n.count = x.snapshot.count + 1 /\ n.live = x.snapshot.live
  <2>1. /\ x.snapshot.active \union {z} \in SUBSET Symbols /\ x.snapshot.unresolved \union {z} \in SUBSET Symbols
        /\ x.snapshot.count + 1 \in Nat /\ x.snapshot.live \in SUBSET Symbols
        /\ left \in Nat
    BY <1>3, <1>17 DEF SnapshotRecord
  <2>. QED  BY <1>3, <1>18, <2>1 DEF SnapshotRecord
<1>20. PICK new : new = IF reserves THEN n ELSE x.snapshot
  OBVIOUS
<1>21. y = [x EXCEPT !.pc = "consume", !.reason = outcome, !.snapshot = new]
  <2>1. CASE reserves
    <3>1. Reserve(x) = [x EXCEPT !.snapshot = n]
      <4>1. Reserve(x) = [x EXCEPT !.snapshot.cash = left, !.snapshot.active = @ \union {z},
                            !.snapshot.unresolved = @ \union {z}, !.snapshot.count = @ + 1]
        BY <1>5, <1>6, <1>17 DEF Reserve
      <4>. QED  BY <1>3, <1>18, <4>1 DEF Proc, SnapshotRecord
    <3>. QED  BY <1>3, <1>8, <1>20, <2>1, <3>1 DEF Proc
  <2>2. CASE ~reserves
    BY <1>3, <1>7, <1>8, <1>20, <2>2 DEF Proc
  <2>. QED  BY <1>7, <2>1, <2>2
<1>22. /\ y \in Proc /\ y.order = i /\ y.pc = "consume" /\ y.snapshot = new
       /\ y.signal = x.signal /\ y.side = x.side /\ y.todo = x.todo /\ y.reason = outcome
  <2>1. "consume" \in Steps /\ outcome \in Reasons /\ new \in SnapshotRecord
    BY <1>3, <1>19, <1>20 DEF Steps, Reasons, OutcomeReasons
  <2>. QED  BY <1>2, <1>3, <1>21, <2>1 DEF Proc
<1>23. WorkSound(y)'
  <2>1. \A t \in x.todo : IsRecorded(t)' /\ StrategyOf[t] \in TriggersOf(x.side)
    BY <1>3, <1>10 DEF Sound, WorkSound, IsRecorded
  <2>2. x.todo # {}
    BY <1>4
  <2>. QED  BY <1>4, <1>12, <1>14, <1>22, <2>1, <2>2 DEF WorkSound, Ordering, OutcomeReasons
<1>24. PlaceSound(y)' /\ Own(y) = {} /\ Own(x) = {z} /\ y.pc \notin Ordering
  BY <1>3, <1>5, <1>22 DEF PlaceSound, Own, Ordering
<1>25. \A q \in Executors : proc'[q].order = proc[q].order
  BY <1>1, <1>2, <1>4, <1>10, <1>22 DEF Typed
<1>26. /\ Active' \subseteq Active /\ LiveSymbols' = LiveSymbols
       /\ \A w : LotsOf(w)' = LotsOf(w)
  BY <1>10, <1>13, <1>15, <1>16, <1>25, RowKeeps
<1>27. /\ UnresolvedSymbols("buy")' \subseteq UnresolvedSymbols("buy")
       /\ \A w : Blurred(w) => Blurred(w)'
       /\ Counted' \subseteq Counted
       /\ Astray => Astray'
       /\ \A j \in Rows : IsUnresolved(j)' => IsUnresolved(j)
       /\ \A j \in Rows : Follows(j)
  <2>1. orders' \in Seq(OrderRow) /\ \A j \in Rows : Follows(j)
    BY <1>4, <1>13, <1>15, Changed, FollowsAll
  <2>. QED  BY <1>4, <1>14, <2>1, Drifted
<1>28. overlapped \/ x.side # "buy" \/ reserves \/ z \notin UnresolvedSymbols("buy")'
  <2>1. SUFFICES ASSUME ~overlapped, x.side = "buy", ~reserves, NEW j \in Rows,
                        orders'[j].side = "buy", orders'[j].symbol = z, IsUnresolved(j)'
                 PROVE  FALSE
    BY <1>14, UnresolvedOf
  <2>2. outcome = "REJECTED"
    BY <1>7, <2>1
  <2>3. j # i
    BY <1>12, <1>14, <2>1, <2>2 DEF IsUnresolved, Unresolved
  <2>4. orders[j].side = orders[i].side /\ orders[j].symbol = orders[i].symbol
    BY <1>4, <1>5, <1>27, <2>1 DEF Follows
  <2>5. IsUnresolved(j) /\ IsUnresolved(i)
    BY <1>4, <1>27, <2>1 DEF IsUnresolved, Unresolved
  <2>. QED  BY <1>4, <2>1, <2>3, <2>4, <2>5 DEF IInv, OrdersAlone, OneInFlight
<1>29. overlapped' \/ ViewSound(y)'
  <2>. SUFFICES ASSUME ~overlapped', x.side = "buy" PROVE ViewSound(y)'
    BY <1>22 DEF ViewSound
  <2>1. /\ UnresolvedSymbols("buy") \subseteq x.snapshot.unresolved \union {z}
        /\ \A w \in Symbols :
             w \notin x.snapshot.live \union x.snapshot.unresolved =>
               Blurred(w) \/ \A l \in LotsOf(w) : ~IsOpen(lots[l])
    BY <1>3, <1>24 DEF Sound, ViewSound
  <2>2. UnresolvedSymbols("buy")' \subseteq new.unresolved
    BY <1>7, <1>19, <1>20, <1>27, <1>28, <2>1
  <2>3. \A w \in Symbols :
          w \notin new.live \union new.unresolved =>
            Blurred(w)' \/ \A l \in LotsOf(w)' : ~IsOpen(lots'[l])
    BY <1>7, <1>10, <1>19, <1>20, <1>26, <1>27, <2>1
  <2>. QED  BY <1>22, <1>24, <2>2, <2>3 DEF ViewSound, Own
<1>30. overlapped' \/ Astray' \/ SnapshotSound(y)'
  <2>. SUFFICES ASSUME ~overlapped', ~Astray', x.side = "buy" PROVE SnapshotSound(y)'
    BY <1>22 DEF SnapshotSound
  <2>1. SnapshotSound(x)
    BY <1>3, <1>27 DEF Sound
  <2>2. /\ Cardinality(Counted) <= x.snapshot.count + 1
        /\ CashLeft(x) <= cash
        /\ cost <= x.snapshot.cash
        /\ Active \subseteq x.snapshot.active \union {z}
        /\ Cardinality(x.snapshot.active \union {z}) <= MaxHoldings
        /\ LiveSymbols \subseteq x.snapshot.active
    BY <1>3, <1>5, <1>6, <1>24, <2>1 DEF SnapshotSound
  <2>3. ~reserves => outcome = "REJECTED" /\ orders[i].broker = "none"
    <3>1. SUFFICES ASSUME ~reserves, orders[i].broker # "none" PROVE FALSE
      BY <1>7
    <3>2. orders'[i].status = "REJECTED" /\ orders'[i].broker # "none" /\ orders'[i].side = "buy"
      BY <1>4, <1>7, <1>12, <1>14, <3>1
    <3>3. i \in 1..Len(orders')
      BY <1>4, <1>14 DEF Rows
    <3>. QED  BY <3>2, <3>3 DEF Astray, BuyOrders
  <2>4. Cardinality(Counted') <= new.count
    <3>1. IsFiniteSet(Counted) /\ Cardinality(Counted) \in Nat
      BY <1>4, Finite, FS_CardinalityType
    <3>2. CASE reserves
      <4>2. Cardinality(Counted') \in Nat /\ Cardinality(Counted') <= Cardinality(Counted)
        BY <1>27, <3>1, FS_Subset, FS_CardinalityType
      <4>. QED  BY <1>3, <1>19, <1>20, <2>2, <3>1, <3>2, <4>2
    <3>3. CASE ~reserves
      <4>1. i \in Counted /\ i \notin Counted' /\ Counted' \subseteq Counted \ {i}
        <5>1. i \in Counted
          BY <1>4 DEF Counted, Rows
        <5>2. i \notin Counted'
          BY <1>12, <1>14, <2>3, <3>3 DEF Counted
        <5>. QED  BY <1>27, <5>1, <5>2
      <4>2. PICK S : S = Counted \ {i}
        OBVIOUS
      <4>3. Cardinality(S) = Cardinality(Counted) - 1 /\ IsFiniteSet(S)
        BY <3>1, <4>1, <4>2, FS_RemoveElement
      <4>4. Cardinality(Counted') \in Nat /\ Cardinality(Counted') <= Cardinality(S) /\ Cardinality(S) \in Nat
        BY <4>1, <4>2, <4>3, FS_Subset, FS_CardinalityType
      <4>. QED  BY <1>3, <1>20, <2>2, <3>1, <3>3, <4>3, <4>4
    <3>. QED  BY <1>7, <3>2, <3>3
  <2>5. new.cash <= cash'
    <3>1. /\ orders[i].broker # "none" => x.snapshot.cash - cost <= cash
          /\ orders[i].broker = "none" => x.snapshot.cash <= cash
      BY <1>2, <1>3, <1>5, <1>6, <2>2 DEF CashLeft
    <3>2. CASE reserves
      <4>1. left <= cash /\ cash' = cash
        BY <1>3, <1>4, <1>10, <1>17, <3>1 DEF Typed
      <4>. QED  BY <1>19, <1>20, <3>2, <4>1
    <3>3. CASE ~reserves
      BY <1>10, <1>20, <2>3, <3>1, <3>3
    <3>. QED  BY <1>7, <3>2, <3>3
  <2>6. Active' \subseteq new.active
    <3>1. CASE reserves
      BY <1>19, <1>20, <1>26, <2>2, <3>1
    <3>2. CASE ~reserves
      <4>1. z \notin UnresolvedSymbols("buy")'
        BY <1>28, <3>2
      <4>2. \A w \in Active' : w # z => w \in x.snapshot.active
        BY <1>26, <2>2
      <4>3. z \in Active' => z \in x.snapshot.active
        BY <1>26, <2>2, <4>1 DEF Active
      <4>. QED  BY <1>20, <3>2, <4>2, <4>3
    <3>. QED  BY <1>7, <3>1, <3>2
  <2>7. Cardinality(new.active) <= MaxHoldings
    <3>1. CASE reserves
      BY <1>19, <1>20, <2>2, <3>1
    <3>2. CASE ~reserves
      <4>1. PICK S : S = x.snapshot.active \union {z}
        OBVIOUS
      <4>2. IsFiniteSet(S)
        BY <1>3, <4>1, FS_Subset, FS_AddElement, Constants
      <4>3. /\ Cardinality(x.snapshot.active) \in Nat /\ Cardinality(S) \in Nat
            /\ Cardinality(x.snapshot.active) <= Cardinality(S)
        BY <4>1, <4>2, FS_Subset, FS_CardinalityType
      <4>. QED  BY <1>20, <2>2, <3>2, <4>1, <4>3, Constants
    <3>. QED  BY <1>7, <3>1, <3>2
  <2>8. CashLeft(y)' = new.cash
    BY <1>22 DEF CashLeft
  <2>9. new.active \union {} = new.active
    OBVIOUS
  <2>. QED  BY <1>22, <1>24, <2>4, <2>5, <2>6, <2>7, <2>8, <2>9 DEF SnapshotSound, Own
<1>31. Sound(y)' /\ y.pc # "idle"
  BY <1>22, <1>23, <1>24, <1>29, <1>30 DEF Sound
<1>32. cash' \in Nat
  BY <1>4, <1>10 DEF Typed
<1>. QED  BY <1>1, <1>2, <1>4, <1>10, <1>13, <1>15, <1>16, <1>22, <1>31, <1>32, OwnStepKeeps

-----------------------------------------------------------------------------
(* An order moves while no pass does                                       *)

\* A buy order that may be booked although no fill is late.
Bookable(z) ==
  \E i \in Rows :
    /\ orders[i].side = "buy" /\ orders[i].symbol = z
    /\ IsUnresolved(i) /\ orders[i].status # "PENDING"

\* Where the positions and lots move, an order explains it.
Explained ==
  \A z \in Symbols :
    /\ \/ position[z] <= position'[z] \/ FillsLate("sell", z)' \/ z \in UnresolvedSymbols("sell")
    /\ \/ \A slot : OpenIn(z, slot)' \subseteq OpenIn(z, slot)
       \/ FillsLate("buy", z)' \/ Bookable(z)
    /\ position'[z] <= position[z] \/ FillsLate("buy", z)' \/ Bookable(z)

\* A pass knows every symbol that may be booked, and it is not its own.
LEMMA BookableKnown ==
  ASSUME Typed, OneInFlight, NEW x, WorkSound(x), x.signal \in Signals, OrdersSound,
         NEW z \in Symbols, Bookable(z)
  PROVE  /\ z \in UnresolvedSymbols("buy")
         /\ x.side = "buy" => z \notin Own(x)
<1>1. PICK i \in Rows : /\ orders[i].side = "buy" /\ orders[i].symbol = z
                        /\ IsUnresolved(i) /\ orders[i].status # "PENDING"
  BY DEF Bookable
<1>2. z \in UnresolvedSymbols("buy")
  BY <1>1, UnresolvedOf
<1>3. ASSUME x.side = "buy", z \in Own(x) PROVE FALSE
  <2>1. x.pc \in Ordering /\ z = SymbolOf[x.signal]
    BY <1>3 DEF Own
  <2>2. PICK j \in Rows : /\ j = x.order /\ orders[j].side = "buy" /\ orders[j].status = "PENDING"
                          /\ orders[j].signal = x.signal
    BY <1>3, <2>1 DEF WorkSound
  <2>3. orders[j].symbol = z /\ IsUnresolved(j)
    BY <2>1, <2>2 DEF OrdersSound, OrderSound, IsUnresolved, Unresolved
  <2>4. i = j
    BY <1>1, <2>2, <2>3 DEF OneInFlight
  <2>. QED  BY <1>1, <2>2, <2>4
<1>. QED  BY <1>2, <1>3

LEMMA NoneOpened ==
  ASSUME NEW z, \A slot : OpenIn(z, slot)' \subseteq OpenIn(z, slot),
         \A l \in LotsOf(z) : ~IsOpen(lots[l])
  PROVE  \A l \in LotsOf(z)' : ~IsOpen(lots'[l])
<1>1. SUFFICES ASSUME NEW l \in LotsOf(z)', IsOpen(lots'[l]) PROVE FALSE
  OBVIOUS
<1>2. PICK slot : slot = lots'[l].slot
  OBVIOUS
<1>3. l \in OpenIn(z, slot)'
  BY <1>1, <1>2 DEF OpenIn, IsOpen
<1>4. l \in OpenIn(z, slot)
  BY <1>3
<1>. QED  BY <1>4 DEF OpenIn

\* What a pass remembers, while orders only move on.
LEMMA PassDrifts ==
  ASSUME IInv, NEW p \in Executors, NEW x, x = proc[p], UNCHANGED proc,
         Rows' = Rows, orders' \in Seq(OrderRow), \A i \in Rows : Follows(i),
         \A i \in Rows : orders'[i].broker = "none" <=> orders[i].broker = "none",
         \A i \in Rows : orders[i].status = "PENDING" => orders'[i].status = "PENDING",
         Explained, \A s : IsRecorded(s) => IsRecorded(s)',
         cash' \in Nat, cash <= cash', position' \in [Symbols -> Nat], overlapped => overlapped'
  PROVE  /\ WorkSound(x)'
         /\ overlapped' \/ (PlaceSound(x)' /\ ViewSound(x)')
         /\ overlapped' \/ Astray' \/ SnapshotSound(x)'
<1>1. /\ Typed /\ x \in Proc /\ Sound(x) /\ WorkSound(x) /\ x.side \in Sides
      /\ x.todo \in SUBSET Signals
      /\ x.snapshot.cash \in Nat /\ x.snapshot.count \in Nat
      /\ OrdersSound
  BY ProcOf DEF Sound, IInv, TablesSound
<1>2. /\ \A side : UnresolvedSymbols(side)' \subseteq UnresolvedSymbols(side)
      /\ \A side, w : FillsLate(side, w) => FillsLate(side, w)'
      /\ \A w : Blurred(w) => Blurred(w)'
      /\ Astray => Astray'
      /\ Counted' \subseteq Counted
  BY <1>1, Drifted
<1>3. WorkSound(x)'
  <2>1. x.order # 0 => Undisturbed(x.order)
    <3>1. x.order # 0 => x.order \in Rows
      BY <1>1 DEF WorkSound
    <3>. QED  BY <3>1 DEF Undisturbed, Follows
  <2>2. proc'[p] = x
    OBVIOUS
  <2>. QED  BY <1>1, <2>1, <2>2, WorkKept
<1>4. x.pc \in {"place"} \union Ordering => x.signal \in Signals /\ SymbolOf[x.signal] \in Symbols
  BY <1>1, Constants DEF WorkSound, Ordering
<1>5. \A z \in Symbols : Bookable(z) => z \in UnresolvedSymbols("buy")
  <2>1. SUFFICES ASSUME NEW z \in Symbols, Bookable(z) PROVE z \in UnresolvedSymbols("buy")
    OBVIOUS
  <2>. QED  BY <2>1, UnresolvedOf DEF Bookable
<1>6. overlapped \/ \A z \in Symbols : Bookable(z) /\ x.side = "buy" => z \notin Own(x)
  <2>1. SUFFICES ASSUME ~overlapped, NEW z \in Symbols, Bookable(z), x.side = "buy", z \in Own(x) PROVE FALSE
    OBVIOUS
  <2>2. x.signal \in Signals
    BY <1>4, <2>1 DEF Own
  <2>3. OneInFlight
    BY <2>1 DEF IInv, OrdersAlone
  <2>. QED  BY <1>1, <2>1, <2>2, <2>3, BookableKnown
<1>7. overlapped' \/ PlaceSound(x)'
  <2>. SUFFICES ASSUME ~overlapped', x.pc = "place" PROVE PlaceSound(x)'
    BY DEF PlaceSound
  <2>1. PICK y \in Symbols : y = SymbolOf[x.signal]
    BY <1>4
  <2>2. /\ y \notin UnresolvedSymbols(x.side)
        /\ x.side = "sell" => FillsLate("sell", y) \/ x.qty <= position[y]
        /\ x.side = "buy" /\ StrategyOf[x.signal] \in TIMING2_30S_ENTRY_SLOTS =>
             Blurred(y) \/ OpenIn(y, StrategyOf[x.signal]) = {}
    BY <1>1, <2>1 DEF Sound, PlaceSound
  <2>3. x.side = "sell" => FillsLate("sell", y)' \/ x.qty <= position'[y]
    <3>1. SUFFICES ASSUME x.side = "sell", ~FillsLate("sell", y)' PROVE x.qty <= position'[y]
      OBVIOUS
    <3>2. x.qty <= position[y] /\ position[y] <= position'[y]
      BY <1>2, <2>2, <3>1 DEF Explained
    <3>3. x.qty \in Nat /\ position[y] \in Nat /\ position'[y] \in Nat
      BY <1>1 DEF Proc, Typed
    <3>. QED  BY <1>1, <3>2, <3>3
  <2>4. x.side = "buy" /\ StrategyOf[x.signal] \in TIMING2_30S_ENTRY_SLOTS =>
          Blurred(y)' \/ OpenIn(y, StrategyOf[x.signal])' = {}
    <3>1. SUFFICES ASSUME x.side = "buy", StrategyOf[x.signal] \in TIMING2_30S_ENTRY_SLOTS, ~Blurred(y)'
                   PROVE  OpenIn(y, StrategyOf[x.signal])' = {}
      OBVIOUS
    <3>2. PICK slot : slot = StrategyOf[x.signal]
      OBVIOUS
    <3>3. ~Bookable(y) /\ ~FillsLate("buy", y)' /\ OpenIn(y, slot) = {}
      BY <1>2, <1>5, <2>2, <3>1, <3>2 DEF Blurred
    <3>4. OpenIn(y, slot)' \subseteq OpenIn(y, slot)
      BY <3>3 DEF Explained
    <3>. QED  BY <3>2, <3>3, <3>4
  <2>. QED  BY <1>2, <2>1, <2>2, <2>3, <2>4 DEF PlaceSound
<1>8. overlapped' \/ ViewSound(x)'
  <2>. SUFFICES ASSUME ~overlapped', x.side = "buy", x.pc \in {"evaluate", "place", "consume"} \union Ordering
                PROVE  ViewSound(x)'
    BY DEF ViewSound
  <2>1. /\ UnresolvedSymbols("buy") \subseteq x.snapshot.unresolved \union Own(x)
        /\ \A z \in Symbols :
             z \notin x.snapshot.live \union x.snapshot.unresolved =>
               Blurred(z) \/ \A l \in LotsOf(z) : ~IsOpen(lots[l])
    BY <1>1 DEF Sound, ViewSound
  <2>2. ASSUME NEW z \in Symbols, z \notin x.snapshot.live \union x.snapshot.unresolved, ~Blurred(z)'
        PROVE  \A l \in LotsOf(z)' : ~IsOpen(lots'[l])
    <3>1. ~Bookable(z)
      BY <1>5, <1>6, <2>1, <2>2
    <3>2. ~FillsLate("buy", z)'
      BY <2>2 DEF Blurred
    <3>3. \A slot : OpenIn(z, slot)' \subseteq OpenIn(z, slot)
      BY <3>1, <3>2 DEF Explained
    <3>4. \A l \in LotsOf(z) : ~IsOpen(lots[l])
      BY <1>2, <2>1, <2>2
    <3>. QED  BY <3>3, <3>4, NoneOpened
  <2>3. UnresolvedSymbols("buy")' \subseteq x.snapshot.unresolved \union Own(x)
    BY <1>2, <2>1
  <2>. QED  BY <2>2, <2>3 DEF ViewSound, Own
<1>9. overlapped' \/ Astray' \/ SnapshotSound(x)'
  <2>. SUFFICES ASSUME ~overlapped', ~Astray', x.side = "buy" PROVE SnapshotSound(x)'
    BY DEF SnapshotSound
  <2>1. SnapshotSound(x)
    BY <1>1, <1>2 DEF Sound
  <2>2. \A z \in Symbols : ~FillsLate("buy", z)'
    BY DEF FillsLate, Orders, Astray, BuyOrders
  <2>3. \A z \in LiveSymbols' : z \in LiveSymbols \/ Bookable(z)
    <3>1. SUFFICES ASSUME NEW z \in Symbols, position'[z] > 0, ~Bookable(z) PROVE position[z] > 0
      BY DEF LiveSymbols
    <3>2. position'[z] <= position[z] /\ position[z] \in Nat /\ position'[z] \in Nat
      BY <1>1, <2>2, <3>1 DEF Explained, Typed
    <3>. QED  BY <3>1, <3>2
  <2>4. Active' \subseteq Active
    BY <1>2, <1>5, <2>3 DEF Active, LiveSymbols
  <2>5. Cardinality(Counted') <= Cardinality(Counted) /\ Cardinality(Counted) \in Nat /\ Cardinality(Counted') \in Nat
    BY <1>1, <1>2, Finite, FS_Subset, FS_CardinalityType
  <2>6. CashLeft(x)' = CashLeft(x)
    <3>1. x.pc = "posted" => x.order \in Rows
      BY <1>1 DEF WorkSound, Ordering
    <3>. QED  BY <3>1 DEF CashLeft
  <2>7. x.pc \in Ordering => LiveSymbols' \subseteq x.snapshot.active
    <3>1. SUFFICES ASSUME x.pc \in Ordering, NEW z \in LiveSymbols' PROVE z \in x.snapshot.active
      OBVIOUS
    <3>2. LiveSymbols \subseteq x.snapshot.active /\ Active \subseteq x.snapshot.active \union Own(x)
      BY <2>1, <3>1 DEF SnapshotSound
    <3>3. CASE z \in LiveSymbols
      BY <3>2, <3>3
    <3>4. CASE Bookable(z)
      <4>1. z \in Active /\ z \notin Own(x)
        BY <1>5, <1>6, <3>1, <3>4 DEF Active, LiveSymbols
      <4>. QED  BY <3>2, <4>1
    <3>. QED  BY <2>3, <3>3, <3>4
  <2>8. x.pc \in {"snapshot", "evaluate", "place", "consume"} \union Ordering => CashLeft(x)' <= cash'
    <3>1. SUFFICES ASSUME x.pc \in {"snapshot", "evaluate", "place", "consume"} \union Ordering
                   PROVE  CashLeft(x)' <= cash'
      OBVIOUS
    <3>2. CashLeft(x) <= cash
      BY <2>1, <3>1 DEF SnapshotSound
    <3>3. CashLeft(x) \in Int
      <4>1. x.qty * Price[SymbolOf[x.signal]] \in Nat \/ x.pc # "posted"
        <5>1. SUFFICES ASSUME x.pc = "posted" PROVE x.qty * Price[SymbolOf[x.signal]] \in Nat
          OBVIOUS
        <5>2. x.qty \in Nat /\ SymbolOf[x.signal] \in Symbols
          BY <1>1, <1>4, <5>1 DEF Proc, Ordering
        <5>3. PICK c \in Nat : c = Price[SymbolOf[x.signal]]
          BY <5>2, Constants
        <5>. QED  BY <5>2, <5>3
      <4>. QED  BY <1>1, <4>1 DEF CashLeft
    <3>. QED  BY <1>1, <2>6, <3>2, <3>3 DEF Typed
  <2>9. /\ x.pc \in {"balance", "snapshot", "evaluate", "place", "consume"} =>
             Cardinality(Counted') <= x.snapshot.count
        /\ x.pc \in Ordering => Cardinality(Counted') <= x.snapshot.count + 1
    BY <1>1, <2>1, <2>5 DEF SnapshotSound
  <2>. QED  BY <2>1, <2>4, <2>7, <2>8, <2>9 DEF SnapshotSound, Own
<1>. QED  BY <1>3, <1>7, <1>8, <1>9

\* The invariant after an order has moved and a fill may have been booked.
LEMMA DriftKeeps ==
  ASSUME IInv, overlapped' = (overlapped \/ Overlap'),
         UNCHANGED <<found, log, acted, stale, sellQty, audit, crashes, proc>>,
         Rows' = Rows, orders' \in Seq(OrderRow), \A i \in Rows : Follows(i),
         \A i \in Rows : orders'[i].broker = "none" <=> orders[i].broker = "none",
         \A i \in Rows : orders[i].status = "PENDING" => orders'[i].status = "PENDING",
         Explained, cash' \in Nat, cash <= cash', position' \in [Symbols -> Nat],
         lots' \in Seq(LotRow), \A t : LotKnown(t) => LotKnown(t)',
         OrdersSound', LotsSound', LotsCovered',
         OrdersAlone => SellsCovered' /\ SlotOnce'
  PROVE  IInv'
<1>1. Typed /\ Typed'
  BY DEF IInv, Typed, Overlap
<1>2. /\ \A side : UnresolvedSymbols(side)' \subseteq UnresolvedSymbols(side)
      /\ Astray => Astray'
      /\ OneInFlight => OneInFlight'
  BY <1>1, Drifted
<1>3. TablesSound'
  <2>1. LogSound'
    BY DEF IInv, TablesSound, LogSound, IsRecorded, Recorded
  <2>2. AuditSound'
    BY DEF IInv, TablesSound, AuditSound, Follows
  <2>. QED  BY <2>1, <2>2 DEF TablesSound
<1>4. Lost' = Lost /\ Distinct'
  BY DEF Lost, IInv, Distinct
<1>5. overlapped' \/ (~Overlap' /\ OrdersAlone')
  BY <1>2 DEF IInv, OrdersAlone
<1>6. overlapped' \/ Astray' \/ Cardinality(Active') <= MaxHoldings
  <2>. SUFFICES ASSUME ~overlapped', ~Astray' PROVE Cardinality(Active') <= MaxHoldings
    OBVIOUS
  <2>1. Cardinality(Active) <= MaxHoldings
    BY <1>2 DEF IInv
  <2>2. \A z \in Symbols : ~FillsLate("buy", z)'
    BY DEF FillsLate, Orders, Astray, BuyOrders
  <2>3. \A z \in LiveSymbols' : z \in LiveSymbols \/ Bookable(z)
    <3>1. SUFFICES ASSUME NEW z \in Symbols, position'[z] > 0, ~Bookable(z) PROVE position[z] > 0
      BY DEF LiveSymbols
    <3>2. position'[z] <= position[z] /\ position[z] \in Nat /\ position'[z] \in Nat
      BY <1>1, <2>2, <3>1 DEF Explained, Typed
    <3>. QED  BY <3>1, <3>2
  <2>4. \A z : Bookable(z) => z \in UnresolvedSymbols("buy")
    <3>1. SUFFICES ASSUME NEW z, Bookable(z) PROVE z \in UnresolvedSymbols("buy")
      OBVIOUS
    <3>. QED  BY <3>1, UnresolvedOf DEF Bookable
  <2>5. Active' \subseteq Active
    BY <1>2, <2>3, <2>4 DEF Active
  <2>6. Cardinality(Active') <= Cardinality(Active) /\ Cardinality(Active) \in Nat /\ Cardinality(Active') \in Nat
    BY <1>1, <2>5, Finite, FS_Subset, FS_CardinalityType
  <2>. QED  BY <2>1, <2>6, Constants
<1>7. ASSUME NEW p \in Executors PROVE Sound(proc[p])'
  <2>1. PICK x : x = proc[p]
    OBVIOUS
  <2>2. \A s : IsRecorded(s) => IsRecorded(s)'
    BY DEF IsRecorded, Recorded
  <2>3. /\ WorkSound(x)'
        /\ overlapped' \/ (PlaceSound(x)' /\ ViewSound(x)')
        /\ overlapped' \/ Astray' \/ SnapshotSound(x)'
    BY <2>1, <2>2, PassDrifts
  <2>4. Sound(x)' /\ proc'[p] = x
    BY <2>1, <2>3 DEF Sound
  <2>. QED  BY <2>4, SoundOf
<1>. QED  BY <1>1, <1>3, <1>4, <1>5, <1>6, <1>7 DEF IInv

\* Nothing is booked: a fill, a cancel at the broker, a cancel in the table.
LEMMA UnbookedKeeps ==
  ASSUME IInv, overlapped' = (overlapped \/ Overlap'),
         UNCHANGED <<found, log, acted, stale, sellQty, audit, position, lots, crashes, proc>>,
         NEW i, NEW o, Changes(i, o), Follows(i), OrderSound(i)',
         o.broker = "none" <=> orders[i].broker = "none",
         orders[i].status = "PENDING" => o.status = "PENDING",
         cash' \in Nat, cash <= cash'
  PROVE  IInv'
<1>1. /\ Typed /\ orders' \in Seq(OrderRow) /\ Rows' = Rows /\ \A j \in Rows : Follows(j)
      /\ orders'[i] = o /\ \A j \in Rows : j # i => orders'[j] = orders[j]
  BY Changed, FollowsAll DEF IInv
<1>2. TablesSound' /\ (OrdersAlone => OrdersAlone') /\ \A w, slot : OpenIn(w, slot)' = OpenIn(w, slot)
  BY RowKeeps
<1>3. \A j \in Rows : /\ orders'[j].broker = "none" <=> orders[j].broker = "none"
                      /\ orders[j].status = "PENDING" => orders'[j].status = "PENDING"
  BY <1>1
<1>4. Explained
  <2>1. \A z \in Symbols : position[z] <= position'[z] /\ position'[z] <= position[z]
    BY <1>1 DEF Typed
  <2>. QED  BY <1>2, <2>1 DEF Explained
<1>5. /\ position' \in [Symbols -> Nat] /\ lots' \in Seq(LotRow)
      /\ \A t : LotKnown(t) => LotKnown(t)'
  BY <1>1 DEF Typed, LotKnown
<1>. QED  BY <1>1, <1>2, <1>3, <1>4, <1>5, DriftKeeps DEF TablesSound, OrdersAlone

LEMMA FillKeeps ==
  ASSUME IInv, UNCHANGED proc, overlapped' = (overlapped \/ Overlap'), NEW i \in Rows, NEW n, Fill(i, n)
  PROVE  IInv'
<1>1. /\ Typed /\ OrderSound(i) /\ orders[i] \in OrderRow /\ orders[i].symbol \in Symbols
      /\ orders[i].qty \in Nat /\ orders[i].filled \in Nat /\ orders[i].booked \in Nat
  BY OrderRows DEF IInv, TablesSound, OrdersSound
<1>2. PICK o : o = [orders[i] EXCEPT !.filled = @ + n]
  OBVIOUS
<1>3. /\ orders[i].broker = "working" /\ n \in Nat /\ n <= orders[i].qty - orders[i].filled
      /\ orders[i].filled < orders[i].qty
      /\ orders' = [orders EXCEPT ![i] = o]
      /\ cash' = (IF orders[i].side = "sell" THEN cash + n * Price[orders[i].symbol] ELSE cash)
      /\ UNCHANGED <<found, log, acted, stale, sellQty, audit, position, lots, crashes>>
  BY <1>1, <1>2 DEF Fill, BrokerOpen, Rest, Worth
<1>4. /\ o \in OrderRow /\ o.signal = orders[i].signal /\ o.symbol = orders[i].symbol
      /\ o.side = orders[i].side /\ o.qty = orders[i].qty /\ o.booked = orders[i].booked
      /\ o.filled = orders[i].filled + n /\ o.broker = "working" /\ o.late = orders[i].late
      /\ o.status = orders[i].status
  <2>1. orders[i].filled + n \in Nat
    BY <1>1, <1>3
  <2>. QED  BY <1>1, <1>2, <1>3, <2>1 DEF OrderRow
<1>5. Changes(i, o) /\ orders'[i] = o
  <2>1. Changes(i, o)
    BY <1>3, <1>4 DEF Changes
  <2>. QED  BY <1>1, <2>1, Changed
<1>6. Follows(i)
  BY <1>1, <1>3, <1>4, <1>5 DEF Follows
<1>7. OrderSound(i)'
  <2>1. orders[i].status # "FILLED" /\ orders[i].status # "CANCELLED"
    BY <1>1, <1>3 DEF OrderSound
  <2>. QED  BY <1>1, <1>3, <1>4, <1>5, <2>1 DEF OrderSound, LotKnown
<1>8. cash' \in Nat /\ cash <= cash'
  <2>1. PICK c \in Nat : c = Price[orders[i].symbol]
    BY <1>1, Constants
  <2>2. n * c \in Nat /\ cash \in Nat
    BY <1>1, <1>3, <2>1 DEF Typed
  <2>. QED  BY <1>3, <2>1, <2>2
<1>. QED  BY <1>3, <1>4, <1>5, <1>6, <1>7, <1>8, UnbookedKeeps

LEMMA BrokerCancelsKeeps ==
  ASSUME IInv, UNCHANGED proc, overlapped' = (overlapped \/ Overlap'), NEW i \in Rows, BrokerCancels(i)
  PROVE  IInv'
<1>1. /\ Typed /\ OrderSound(i) /\ orders[i] \in OrderRow /\ orders[i].symbol \in Symbols
      /\ orders[i].qty \in Nat /\ orders[i].filled \in Nat /\ orders[i].booked \in Nat
  BY OrderRows DEF IInv, TablesSound, OrdersSound
<1>2. PICK o : o = [orders[i] EXCEPT !.broker = "cancelled"]
  OBVIOUS
<1>3. PICK n : n = orders[i].qty - orders[i].filled
  OBVIOUS
<1>4. /\ orders[i].broker = "working" /\ n \in Nat
      /\ orders' = [orders EXCEPT ![i] = o]
      /\ cash' = (IF orders[i].side = "buy" THEN cash + n * Price[orders[i].symbol] ELSE cash)
      /\ UNCHANGED <<found, log, acted, stale, sellQty, audit, position, lots, crashes>>
  BY <1>1, <1>2, <1>3 DEF BrokerCancels, BrokerOpen, Rest, Worth
<1>5. /\ o \in OrderRow /\ o.signal = orders[i].signal /\ o.symbol = orders[i].symbol
      /\ o.side = orders[i].side /\ o.qty = orders[i].qty /\ o.booked = orders[i].booked
      /\ o.filled = orders[i].filled /\ o.broker = "cancelled" /\ o.late = orders[i].late
      /\ o.status = orders[i].status
  BY <1>1, <1>2 DEF OrderRow
<1>6. Changes(i, o) /\ orders'[i] = o
  <2>1. Changes(i, o)
    BY <1>4, <1>5 DEF Changes
  <2>. QED  BY <1>1, <2>1, Changed
<1>7. Follows(i)
  BY <1>1, <1>4, <1>5, <1>6 DEF Follows
<1>8. OrderSound(i)'
  BY <1>1, <1>4, <1>5, <1>6 DEF OrderSound, LotKnown
<1>9. cash' \in Nat /\ cash <= cash'
  <2>1. PICK c \in Nat : c = Price[orders[i].symbol]
    BY <1>1, Constants
  <2>2. n * c \in Nat /\ cash \in Nat
    BY <1>1, <1>4, <2>1 DEF Typed
  <2>. QED  BY <1>4, <2>1, <2>2
<1>. QED  BY <1>4, <1>5, <1>6, <1>7, <1>8, <1>9, UnbookedKeeps

LEMMA MarkCancelledKeeps ==
  ASSUME IInv, UNCHANGED proc, overlapped' = (overlapped \/ Overlap'), NEW i \in Rows, MarkCancelled(i)
  PROVE  IInv'
<1>1. /\ Typed /\ OrderSound(i) /\ orders[i] \in OrderRow
      /\ orders[i].qty \in Nat /\ orders[i].filled \in Nat /\ orders[i].booked \in Nat
      /\ orders[i].late \in BOOLEAN
  BY OrderRows DEF IInv, TablesSound, OrdersSound
<1>2. PICK late : late = (orders[i].booked < orders[i].filled)
  OBVIOUS
<1>2a. (orders[i].booked < orders[i].filled) \in BOOLEAN
  OBVIOUS
<1>2b. late \in BOOLEAN
  BY <1>2, <1>2a, Zenon
<1>2c. late <=> orders[i].booked < orders[i].filled
  BY <1>2, Zenon
<1>3. PICK o : o = [orders[i] EXCEPT !.status = "CANCELLED", !.late = late]
  OBVIOUS
<1>4. /\ orders[i].status \in {"SUBMITTED", "PARTIAL"} /\ orders[i].broker = "cancelled"
      /\ orders' = [orders EXCEPT ![i] = o]
      /\ UNCHANGED <<found, log, acted, stale, sellQty, audit, position, lots, cash, crashes>>
  BY <1>2, <1>3 DEF MarkCancelled
<1>5. /\ o \in OrderRow /\ o.signal = orders[i].signal /\ o.symbol = orders[i].symbol
      /\ o.side = orders[i].side /\ o.qty = orders[i].qty /\ o.booked = orders[i].booked
      /\ o.filled = orders[i].filled /\ o.broker = orders[i].broker /\ o.late = late
      /\ o.status = "CANCELLED"
  BY <1>1, <1>2b, <1>3 DEF OrderRow
<1>6. Changes(i, o) /\ orders'[i] = o
  <2>1. Changes(i, o)
    BY <1>4, <1>5 DEF Changes
  <2>. QED  BY <1>1, <2>1, Changed
<1>7. Follows(i)
  <2>1. ~orders[i].late
    BY <1>1, <1>4 DEF OrderSound
  <2>. QED  BY <1>1, <1>4, <1>5, <1>6, <2>1 DEF Follows, Unresolved
<1>8. OrderSound(i)'
  <2>1. late \/ orders[i].booked = orders[i].filled
    BY <1>1, <1>2c DEF OrderSound
  <2>. QED  BY <1>1, <1>4, <1>5, <1>6, <2>1 DEF OrderSound, LotKnown
<1>9. cash' \in Nat /\ cash <= cash'
  BY <1>1, <1>4 DEF Typed
<1>. QED  BY <1>4, <1>5, <1>6, <1>7, <1>8, <1>9, UnbookedKeeps

-----------------------------------------------------------------------------
(* An import                                                               *)

\* What the lots of each symbol hold when a lot is added.
LEMMA AppendedLot ==
  ASSUME Typed, NEW lot \in LotRow, lots' = Append(lots, lot)
  PROVE  /\ lots' \in Seq(LotRow) /\ Len(lots') = Len(lots) + 1 /\ lots'[Len(lots) + 1] = lot
         /\ \A l \in 1..Len(lots) : lots'[l] = lots[l]
         /\ \A w : w # lot.symbol => Remaining(LotsOf(w))' = Remaining(LotsOf(w))
         /\ Remaining(LotsOf(lot.symbol))' = Remaining(LotsOf(lot.symbol)) + lot.remaining
<1>1. PICK m \in Nat : m = Len(lots)
  BY LotRows
<1>2. /\ lots' \in Seq(LotRow) /\ Len(lots') = m + 1 /\ lots'[m + 1] = lot
      /\ \A l \in 1..m : lots'[l] = lots[l]
  BY <1>1, AppendProperties DEF Typed
<1>3. DOMAIN lots' = 1..(m + 1) /\ DOMAIN lots = 1..m
  BY <1>1, <1>2, LotRows
<1>4. PICK f : f = [l \in DOMAIN lots |-> lots[l].remaining]
  OBVIOUS
<1>5. PICK g : g = [l \in DOMAIN lots' |-> lots'[l].remaining]
  OBVIOUS
<1>6. lot.remaining \in Nat /\ \A l \in 1..m : lots[l].remaining \in Nat
  BY <1>1, LotRows DEF LotRow
<1>7. \A l \in 1..m : f[l] \in Int /\ g[l] = f[l]
  BY <1>2, <1>3, <1>4, <1>5, <1>6
<1>8. g[m + 1] = lot.remaining
  BY <1>2, <1>3, <1>5
<1>9. \A w : Remaining(LotsOf(w)) = Sum(f, LotsOf(w)) /\ Remaining(LotsOf(w))' = Sum(g, LotsOf(w)')
  BY <1>4, <1>5 DEF Remaining, Sum
<1>10. \A w : LotsOf(w) \in SUBSET (1..m) /\ IsFiniteSet(LotsOf(w))
  <2>1. \A w : LotsOf(w) \in SUBSET (1..Len(lots))
    BY DEF LotsOf
  <2>. QED  BY <1>1, <2>1, LotSums
<1>11. \A w : Sum(f, LotsOf(w)) \in Int /\ Sum(g, LotsOf(w)) = Sum(f, LotsOf(w))
  <2>1. SUFFICES ASSUME NEW w PROVE Sum(f, LotsOf(w)) \in Int /\ Sum(g, LotsOf(w)) = Sum(f, LotsOf(w))
    OBVIOUS
  <2>2. \A l \in LotsOf(w) : f[l] \in Int /\ g[l] = f[l]
    BY <1>7, <1>10
  <2>. QED  BY <1>10, <2>2, SumSame
<1>12. ASSUME NEW w, w # lot.symbol PROVE LotsOf(w)' = LotsOf(w)
  <2>1. \A l : l \in 1..(m + 1) <=> l \in 1..m \/ l = m + 1
    OBVIOUS
  <2>. QED  BY <1>1, <1>2, <1>12, <2>1 DEF LotsOf
<1>13. LotsOf(lot.symbol)' = LotsOf(lot.symbol) \union {m + 1} /\ m + 1 \notin LotsOf(lot.symbol)
  <2>1. \A l : l \in 1..(m + 1) <=> l \in 1..m \/ l = m + 1
    OBVIOUS
  <2>2. m + 1 \notin 1..m
    OBVIOUS
  <2>. QED  BY <1>1, <1>2, <2>1, <2>2 DEF LotsOf
<1>14. Sum(g, LotsOf(lot.symbol) \union {m + 1}) = Sum(g, LotsOf(lot.symbol)) + g[m + 1]
  <2>1. \A l \in LotsOf(lot.symbol) : g[l] \in Int
    BY <1>7, <1>10
  <2>2. g[m + 1] \in Int
    BY <1>6, <1>8
  <2>. QED  BY <1>10, <1>13, <2>1, <2>2, SumAdd
<1>15. \A w : w # lot.symbol => Remaining(LotsOf(w))' = Remaining(LotsOf(w))
  BY <1>9, <1>11, <1>12
<1>16. Remaining(LotsOf(lot.symbol))' = Remaining(LotsOf(lot.symbol)) + lot.remaining
  BY <1>8, <1>9, <1>11, <1>13, <1>14
<1>. QED  BY <1>1, <1>2, <1>15, <1>16


\* And when what one holds changes.
LEMMA ChangedLot ==
  ASSUME Typed, NEW k \in 1..Len(lots), NEW lot \in LotRow,
         lot.symbol = lots[k].symbol, lots' = [lots EXCEPT ![k] = lot]
  PROVE  /\ lots' \in Seq(LotRow) /\ Len(lots') = Len(lots) /\ lots'[k] = lot
         /\ \A l \in 1..Len(lots) : l # k => lots'[l] = lots[l]
         /\ \A w : LotsOf(w)' = LotsOf(w)
         /\ \A w : w # lot.symbol => Remaining(LotsOf(w))' = Remaining(LotsOf(w))
         /\ Remaining(LotsOf(lot.symbol))' = Remaining(LotsOf(lot.symbol)) + lot.remaining - lots[k].remaining
<1>1. /\ lots[k].remaining \in Nat /\ lot.remaining \in Nat
      /\ \A l \in 1..Len(lots) : lots[l].remaining \in Nat
      /\ DOMAIN lots = 1..Len(lots)
  BY LotRows DEF LotRow
<1>2. /\ lots' \in Seq(LotRow) /\ Len(lots') = Len(lots) /\ lots'[k] = lot
      /\ \A l \in 1..Len(lots) : l # k => lots'[l] = lots[l]
  <2>1. lots \in Seq(LotRow)
    BY DEF Typed
  <2>2. PICK t : t = [lots EXCEPT ![k] = lot]
    OBVIOUS
  <2>3. /\ t \in Seq(LotRow) /\ Len(t) = Len(lots)
        /\ \A l \in 1..Len(lots) : t[l] = IF l = k THEN lot ELSE lots[l]
    BY <2>1, <2>2, ExceptSeq
  <2>. QED  BY <2>2, <2>3
<1>3. \A w : LotsOf(w)' = LotsOf(w)
  BY <1>2 DEF LotsOf
<1>4. PICK f : f = [l \in DOMAIN lots |-> lots[l].remaining]
  OBVIOUS
<1>5. PICK g : g = [l \in DOMAIN lots' |-> lots'[l].remaining]
  OBVIOUS
<1>6. DOMAIN lots' = 1..Len(lots)
  BY <1>2
<1>7. \A l \in 1..Len(lots) : f[l] \in Int /\ g[l] \in Int /\ (l # k => g[l] = f[l])
  BY <1>1, <1>2, <1>4, <1>5, <1>6
<1>8. f[k] = lots[k].remaining /\ g[k] = lot.remaining
  BY <1>1, <1>2, <1>4, <1>5, <1>6
<1>9. \A w : Remaining(LotsOf(w)) = Sum(f, LotsOf(w)) /\ Remaining(LotsOf(w))' = Sum(g, LotsOf(w))
  BY <1>3, <1>4, <1>5 DEF Remaining, Sum
<1>10. ASSUME NEW w
       PROVE  /\ Sum(f, LotsOf(w)) \in Int /\ Sum(g, LotsOf(w)) \in Int
              /\ k \in LotsOf(w) => Sum(g, LotsOf(w)) = Sum(f, LotsOf(w)) + g[k] - f[k]
              /\ k \notin LotsOf(w) => Sum(g, LotsOf(w)) = Sum(f, LotsOf(w))
  <2>1. LotsOf(w) \in SUBSET (1..Len(lots))
    BY DEF LotsOf
  <2>2. IsFiniteSet(LotsOf(w)) /\ \A l \in LotsOf(w) : f[l] \in Int /\ g[l] \in Int /\ (l # k => g[l] = f[l])
    BY <1>7, <2>1, LotSums
  <2>. QED  BY <2>2, SumChange
<1>11. \A w : k \in LotsOf(w) <=> w = lot.symbol
  BY DEF LotsOf
<1>12. \A w : w # lot.symbol => Remaining(LotsOf(w))' = Remaining(LotsOf(w))
  BY <1>9, <1>10, <1>11
<1>13. Remaining(LotsOf(lot.symbol))' = Remaining(LotsOf(lot.symbol)) + lot.remaining - lots[k].remaining
  BY <1>1, <1>8, <1>9, <1>10, <1>11
<1>. QED  BY <1>2, <1>3, <1>12, <1>13

\* What an import makes of the row of its order.
LEMMA ImportedRow ==
  ASSUME IInv, NEW i \in Rows, NEW n, Import(i, n)
  PROVE  /\ Typed /\ orders' \in Seq(OrderRow) /\ Rows' = Rows
         /\ \A j \in Rows : j # i => orders'[j] = orders[j]
         /\ \A j \in Rows : Follows(j)
         /\ \A j \in Rows : orders'[j].broker = "none" <=> orders[j].broker = "none"
         /\ \A j \in Rows : orders[j].status = "PENDING" => orders'[j].status = "PENDING"
         /\ n \in Nat /\ n > 0 /\ n <= orders[i].filled - orders[i].booked
         /\ orders'[i].booked = orders[i].booked + n
         /\ orders[i].status \in IMPORTABLE_STATUSES
         /\ orders[i].status = "CANCELLED" => orders[i].late /\ orders'[i].late
         /\ (\A t : LotKnown(t) => LotKnown(t)') => OrdersSound'
<1>1. /\ Typed /\ OrderSound(i) /\ orders[i] \in OrderRow
      /\ orders[i].qty \in Nat /\ orders[i].filled \in Nat /\ orders[i].booked \in Nat
      /\ orders[i].late \in BOOLEAN
  BY OrderRows DEF IInv, TablesSound, OrdersSound
<1>2. PICK status : status = StatusAfterImport(i, n)
  OBVIOUS
<1>3. PICK o : o = [orders[i] EXCEPT !.booked = @ + n, !.status = status]
  OBVIOUS
<1>3a. orders[i].status \in IMPORTABLE_STATUSES /\ n \in 1..(orders[i].filled - orders[i].booked)
  BY DEF Import
<1>3b. n \in Nat /\ n > 0 /\ n <= orders[i].filled - orders[i].booked
  BY <1>1, <1>3a
<1>3c. orders' = [orders EXCEPT ![i].booked = @ + n, ![i].status = status]
  BY <1>2 DEF Import
<1>3d. orders' = [orders EXCEPT ![i] = o]
  BY <1>3, <1>3c
<1>4. /\ orders[i].status \in IMPORTABLE_STATUSES
      /\ n \in Nat /\ n > 0 /\ n <= orders[i].filled - orders[i].booked
      /\ orders' = [orders EXCEPT ![i] = o]
  BY <1>3a, <1>3b, <1>3d
<1>5. /\ status \in {"CANCELLED", "FILLED", "PARTIAL"}
      /\ status = "CANCELLED" <=> orders[i].status = "CANCELLED"
      /\ status = "FILLED" => orders[i].booked + n = orders[i].qty
  BY <1>2 DEF StatusAfterImport
<1>6. /\ o \in OrderRow /\ o.signal = orders[i].signal /\ o.symbol = orders[i].symbol
      /\ o.side = orders[i].side /\ o.qty = orders[i].qty /\ o.booked = orders[i].booked + n
      /\ o.filled = orders[i].filled /\ o.broker = orders[i].broker /\ o.late = orders[i].late
      /\ o.status = status
  <2>1. orders[i].booked + n \in Nat
    BY <1>1, <1>4
  <2>2. status \in Unresolved \union {"REJECTED", "FAILED", "FILLED", "CANCELLED"}
    BY <1>5 DEF Unresolved
  <2>. QED  BY <1>1, <1>3, <2>1, <2>2 DEF OrderRow
<1>7. Changes(i, o)
  BY <1>4, <1>6 DEF Changes
<1>8. /\ orders' \in Seq(OrderRow) /\ Rows' = Rows /\ orders'[i] = o
      /\ \A j \in Rows : j # i => orders'[j] = orders[j]
  BY <1>1, <1>7, Changed
<1>9. Follows(i)
  BY <1>1, <1>4, <1>5, <1>6, <1>8 DEF Follows, Unresolved, IMPORTABLE_STATUSES
<1>10. \A j \in Rows : Follows(j)
  BY <1>1, <1>7, <1>9, FollowsAll
<1>11. /\ \A j \in Rows : orders'[j].broker = "none" <=> orders[j].broker = "none"
       /\ \A j \in Rows : orders[j].status = "PENDING" => orders'[j].status = "PENDING"
  BY <1>4, <1>6, <1>8 DEF IMPORTABLE_STATUSES
<1>12. orders[i].status = "CANCELLED" => orders[i].late /\ orders'[i].late
  <2>1. ~(orders[i].booked = orders[i].filled)
    BY <1>1, <1>4
  <2>. QED  BY <1>1, <1>6, <1>8, <2>1 DEF OrderSound
<1>13. ASSUME \A t : LotKnown(t) => LotKnown(t)' PROVE OrdersSound'
  <2>1. ASSUME NEW j \in Rows, j # i PROVE OrderSound(j)'
    <3>1. OrderSound(j) /\ orders'[j] = orders[j]
      BY <1>8, <2>1 DEF IInv, TablesSound, OrdersSound
    <3>2. PICK t : t = orders[j].signal
      OBVIOUS
    <3>3. LotKnown(t)'
      BY <1>13, <3>1, <3>2 DEF OrderSound
    <3>. QED  BY <3>1, <3>2, <3>3 DEF OrderSound, LotKnown
  <2>2. OrderSound(i)'
    <3>1. PICK t : t = orders[i].signal
      OBVIOUS
    <3>2. LotKnown(t)'
      BY <1>1, <1>13, <3>1 DEF OrderSound
    <3>3. o.booked <= o.filled /\ o.filled <= o.qty /\ (o.broker = "none" => o.filled = 0)
      BY <1>1, <1>4, <1>6 DEF OrderSound
    <3>4. o.status = "CANCELLED" => o.broker = "cancelled" /\ o.late
      BY <1>1, <1>5, <1>6, <1>8, <1>12 DEF OrderSound
    <3>5. o.late => o.status = "CANCELLED"
      BY <1>1, <1>5, <1>6 DEF OrderSound
    <3>6. o.symbol = SymbolOf[o.signal] /\ StrategyOf[o.signal] \in TriggersOf(o.side) /\ o.signal = t
      BY <1>1, <1>6, <3>1 DEF OrderSound
    <3>. QED  BY <1>5, <1>6, <1>8, <3>2, <3>3, <3>4, <3>5, <3>6 DEF OrderSound, LotKnown
  <2>. QED  BY <1>8, <2>1, <2>2 DEF OrdersSound
<1>. QED  BY <1>1, <1>4, <1>6, <1>8, <1>10, <1>11, <1>12, <1>13


\* What an import makes of the lots of a buy order.
LEMMA BoughtLots ==
  ASSUME IInv, NEW i \in Rows, NEW n, n \in Nat, n > 0, lots' \in LotsAfterBuy(i, n)
  PROVE  /\ lots' \in Seq(LotRow) /\ Len(lots) <= Len(lots')
         /\ \A l \in 1..Len(lots) : /\ lots'[l].symbol = lots[l].symbol
                                    /\ lots'[l].slot = lots[l].slot
                                    /\ lots'[l].order = lots[l].order
         /\ \A l \in 1..Len(lots') :
              /\ lots'[l].remaining <= lots'[l].total
              /\ \/ l \in 1..Len(lots)
                 \/ /\ lots'[l].order = i /\ lots'[l].symbol = orders[i].symbol
                    /\ lots'[l].slot = StrategyOf[orders[i].signal]
         /\ \A w : w # orders[i].symbol => Remaining(LotsOf(w))' = Remaining(LotsOf(w))
         /\ \A w : w = orders[i].symbol => Remaining(LotsOf(w))' = Remaining(LotsOf(w)) + n
         /\ \/ \A w, slot : OpenIn(w, slot)' \subseteq OpenIn(w, slot)
            \/ /\ \A l \in 1..Len(lots) : lots[l].order # i
               /\ \A w, slot : \A l \in OpenIn(w, slot)' :
                    \/ l \in OpenIn(w, slot)
                    \/ /\ l = Len(lots) + 1 /\ lots'[l].order = i
                       /\ w = orders[i].symbol /\ slot = StrategyOf[orders[i].signal]
<1>1. /\ Typed /\ Len(lots) \in Nat
      /\ orders[i].symbol \in Symbols /\ StrategyOf[orders[i].signal] \in Strategies
      /\ i \in Nat /\ i # 0
      /\ \A l \in 1..Len(lots) : lots[l] \in LotRow /\ lots[l].remaining <= lots[l].total
  BY OrderRows, LotRows, Constants DEF IInv, TablesSound, LotsSound
<1>2. PICK own : own = {l \in 1..Len(lots) : lots[l].order = i}
  OBVIOUS
<1>3. CASE own = {}
  <2>1. PICK lot : lot = Lot(orders[i].symbol, StrategyOf[orders[i].signal], n, n, i)
    OBVIOUS
  <2>2. /\ lot \in LotRow /\ lot.symbol = orders[i].symbol /\ lot.remaining = n /\ lot.total = n
        /\ lot.order = i /\ lot.slot = StrategyOf[orders[i].signal]
    BY <1>1, <2>1 DEF Lot, LotRow
  <2>3. lots' = Append(lots, lot)
    BY <1>2, <1>3, <2>1 DEF LotsAfterBuy
  <2>4. /\ lots' \in Seq(LotRow) /\ Len(lots') = Len(lots) + 1 /\ lots'[Len(lots) + 1] = lot
        /\ \A l \in 1..Len(lots) : lots'[l] = lots[l]
        /\ \A w : w # lot.symbol => Remaining(LotsOf(w))' = Remaining(LotsOf(w))
        /\ Remaining(LotsOf(lot.symbol))' = Remaining(LotsOf(lot.symbol)) + lot.remaining
    BY <1>1, <2>2, <2>3, AppendedLot
  <2>5. \A l : l \in 1..Len(lots') <=> l \in 1..Len(lots) \/ l = Len(lots) + 1
    BY <1>1, <2>4
  <2>6. ASSUME NEW w, NEW slot, NEW l \in OpenIn(w, slot)'
        PROVE  \/ l \in OpenIn(w, slot)
               \/ /\ l = Len(lots) + 1 /\ lots'[l].order = i
                  /\ w = orders[i].symbol /\ slot = StrategyOf[orders[i].signal]
    <3>1. l \in 1..Len(lots') /\ lots'[l].symbol = w /\ lots'[l].slot = slot /\ lots'[l].remaining > 0
      BY <2>6 DEF OpenIn, LotsOf, IsOpen
    <3>2. CASE l \in 1..Len(lots)
      BY <2>4, <3>1, <3>2 DEF OpenIn, LotsOf, IsOpen
    <3>3. CASE l = Len(lots) + 1
      BY <2>2, <2>4, <3>1, <3>3
    <3>. QED  BY <2>5, <3>1, <3>2, <3>3
  <2>7. \A l \in 1..Len(lots) : lots[l].order # i
    BY <1>2, <1>3
  <2>8. \A l \in 1..Len(lots') :
          /\ lots'[l].remaining <= lots'[l].total
          /\ \/ l \in 1..Len(lots)
             \/ /\ lots'[l].order = i /\ lots'[l].symbol = orders[i].symbol
                /\ lots'[l].slot = StrategyOf[orders[i].signal]
    BY <1>1, <2>2, <2>4, <2>5
  <2>9. Len(lots) <= Len(lots')
    BY <1>1, <2>4
  <2>. QED  BY <2>2, <2>4, <2>6, <2>7, <2>8, <2>9
<1>4. CASE own # {}
  <2>1. PICK l \in 1..Len(lots) :
          /\ lots[l].order = i /\ IsOpen(lots[l])
          /\ lots' = [lots EXCEPT ![l].total = @ + n, ![l].remaining = @ + n]
    BY <1>2, <1>4 DEF LotsAfterBuy
  <2>2. PICK lot : lot = [lots[l] EXCEPT !.total = @ + n, !.remaining = @ + n]
    OBVIOUS
  <2>3. lots[l] \in LotRow /\ lots[l].remaining \in Nat /\ lots[l].total \in Nat
    BY <1>1, LotRows
  <2>4. /\ lot \in LotRow /\ lot.symbol = lots[l].symbol /\ lot.slot = lots[l].slot
        /\ lot.order = lots[l].order /\ lot.remaining = lots[l].remaining + n
        /\ lot.total = lots[l].total + n
    <3>1. lots[l].remaining + n \in Nat /\ lots[l].total + n \in Nat \ {0}
      BY <2>3
    <3>. QED  BY <2>2, <2>3, <3>1 DEF LotRow
  <2>5. lots' = [lots EXCEPT ![l] = lot]
    BY <2>1, <2>2
  <2>6. /\ lots' \in Seq(LotRow) /\ Len(lots') = Len(lots) /\ lots'[l] = lot
        /\ \A k \in 1..Len(lots) : k # l => lots'[k] = lots[k]
        /\ \A w : LotsOf(w)' = LotsOf(w)
        /\ \A w : w # lot.symbol => Remaining(LotsOf(w))' = Remaining(LotsOf(w))
        /\ Remaining(LotsOf(lot.symbol))' = Remaining(LotsOf(lot.symbol)) + lot.remaining - lots[l].remaining
    BY <1>1, <2>4, <2>5, ChangedLot
  <2>7. lot.symbol = orders[i].symbol
    BY <1>1, <2>1, <2>4 DEF IInv, TablesSound, LotsSound
  <2>8. Remaining(LotsOf(lot.symbol)) \in Int
    <3>1. LotsOf(lot.symbol) \in SUBSET (1..Len(lots))
      BY DEF LotsOf
    <3>. QED  BY <1>1, <3>1, LotSums
  <2>9. \A w : w = orders[i].symbol => Remaining(LotsOf(w))' = Remaining(LotsOf(w)) + n
    BY <2>3, <2>4, <2>6, <2>7, <2>8
  <2>10. \A k \in 1..Len(lots) : /\ lots'[k].symbol = lots[k].symbol
                                 /\ lots'[k].slot = lots[k].slot
                                 /\ lots'[k].order = lots[k].order
                                 /\ lots'[k].remaining <= lots'[k].total
    <3>1. lots[l].remaining <= lots[l].total
      BY <1>1
    <3>2. lot.remaining <= lot.total
      BY <2>3, <2>4, <3>1
    <3>3. ASSUME NEW k \in 1..Len(lots)
          PROVE  /\ lots'[k].symbol = lots[k].symbol
                 /\ lots'[k].slot = lots[k].slot
                 /\ lots'[k].order = lots[k].order
                 /\ lots'[k].remaining <= lots'[k].total
      <4>1. CASE k = l
        BY <2>4, <2>6, <3>2, <4>1
      <4>2. CASE k # l
        <5>1. lots'[k] = lots[k] /\ lots[k].remaining <= lots[k].total
          BY <1>1, <2>6, <4>2
        <5>. QED  BY <5>1
      <4>. QED  BY <4>1, <4>2
    <3>. QED  BY <3>3
  <2>11. \A w, slot : OpenIn(w, slot)' \subseteq OpenIn(w, slot)
    BY <2>1, <2>6, <2>10 DEF OpenIn, IsOpen, LotsOf
  <2>. QED  BY <1>1, <2>6, <2>7, <2>9, <2>10, <2>11
<1>. QED  BY <1>3, <1>4

LEMMA ImportBuyKeeps ==
  ASSUME IInv, UNCHANGED proc, overlapped' = (overlapped \/ Overlap'), NEW i \in Rows, NEW n,
         Import(i, n), orders[i].side = "buy"
  PROVE  IInv'
<1>1. /\ Typed /\ orders' \in Seq(OrderRow) /\ Rows' = Rows
      /\ \A j \in Rows : j # i => orders'[j] = orders[j]
      /\ \A j \in Rows : Follows(j)
      /\ \A j \in Rows : orders'[j].broker = "none" <=> orders[j].broker = "none"
      /\ \A j \in Rows : orders[j].status = "PENDING" => orders'[j].status = "PENDING"
      /\ n \in Nat /\ n > 0
      /\ orders[i].status \in IMPORTABLE_STATUSES
      /\ orders[i].status = "CANCELLED" => orders[i].late /\ orders'[i].late
      /\ (\A t : LotKnown(t) => LotKnown(t)') => OrdersSound'
  BY ImportedRow
<1>2. PICK w \in Symbols : w = orders[i].symbol
  BY <1>1, OrderRows
<1>3. PICK s : s = StrategyOf[orders[i].signal]
  OBVIOUS
<1>4. /\ position' = [position EXCEPT ![w] = @ + n] /\ lots' \in LotsAfterBuy(i, n)
      /\ UNCHANGED <<found, log, acted, stale, sellQty, audit, cash, crashes>>
  BY <1>2 DEF Import
<1>5. /\ position' \in [Symbols -> Nat] /\ position'[w] = position[w] + n
      /\ \A z \in Symbols : /\ position[z] \in Nat /\ position[z] <= position'[z]
                            /\ z # w => position'[z] = position[z]
  BY <1>1, <1>4 DEF Typed
<1>6. /\ lots' \in Seq(LotRow) /\ Len(lots) <= Len(lots')
      /\ \A l \in 1..Len(lots) : /\ lots'[l].symbol = lots[l].symbol
                                 /\ lots'[l].slot = lots[l].slot
                                 /\ lots'[l].order = lots[l].order
      /\ \A l \in 1..Len(lots') :
           /\ lots'[l].remaining <= lots'[l].total
           /\ \/ l \in 1..Len(lots)
              \/ lots'[l].order = i /\ lots'[l].symbol = w /\ lots'[l].slot = s
      /\ \A z : z # w => Remaining(LotsOf(z))' = Remaining(LotsOf(z))
      /\ \A z : z = w => Remaining(LotsOf(z))' = Remaining(LotsOf(z)) + n
      /\ \/ \A z, slot : OpenIn(z, slot)' \subseteq OpenIn(z, slot)
         \/ /\ \A l \in 1..Len(lots) : lots[l].order # i
            /\ \A z, slot : \A l \in OpenIn(z, slot)' :
                 \/ l \in OpenIn(z, slot)
                 \/ l = Len(lots) + 1 /\ lots'[l].order = i /\ z = w /\ slot = s
  BY <1>1, <1>2, <1>3, <1>4, BoughtLots
<1>7. \A t : LotKnown(t) => LotKnown(t)'
  <2>1. \A l : l \in 1..Len(lots) => l \in 1..Len(lots')
    BY <1>1, <1>6, LotRows
  <2>. QED  BY <1>6, <2>1 DEF LotKnown
<1>8. LotsSound'
  <2>1. ASSUME NEW l \in 1..Len(lots'), lots'[l].order # 0
        PROVE  /\ lots'[l].order \in Rows'
               /\ lots'[l].symbol = orders'[lots'[l].order].symbol
               /\ lots'[l].slot = StrategyOf[orders'[lots'[l].order].signal]
    <3>1. PICK j : j = lots'[l].order
      OBVIOUS
    <3>2. j \in Rows /\ lots'[l].symbol = orders[j].symbol /\ lots'[l].slot = StrategyOf[orders[j].signal]
      <4>1. CASE l \in 1..Len(lots)
        BY <1>6, <2>1, <3>1, <4>1 DEF IInv, TablesSound, LotsSound
      <4>2. CASE l \notin 1..Len(lots)
        BY <1>2, <1>3, <1>6, <2>1, <3>1, <4>2
      <4>. QED  BY <4>1, <4>2
    <3>3. orders'[j].symbol = orders[j].symbol /\ orders'[j].signal = orders[j].signal
      BY <1>1, <3>2 DEF Follows
    <3>. QED  BY <1>1, <3>1, <3>2, <3>3
  <2>. QED  BY <1>6, <2>1 DEF LotsSound
<1>9. /\ \A side : UnresolvedSymbols(side)' \subseteq UnresolvedSymbols(side)
      /\ \A side, z : FillsLate(side, z) => FillsLate(side, z)'
      /\ \A z : SoldAsPosition(z) => SoldAsPosition(z)'
      /\ \A z : Blurred(z) => Blurred(z)'
      /\ \A z, slot : Entries(z, slot)' \subseteq Entries(z, slot)
      /\ \A j \in Rows : IsUnresolved(j)' => IsUnresolved(j)
  BY <1>1, Drifted
<1>10. LotsCovered'
  <2>1. ASSUME NEW z \in Symbols, ~SoldAsPosition(z)' PROVE Remaining(LotsOf(z))' <= position'[z]
    <3>1. Remaining(LotsOf(z)) <= position[z]
      BY <1>9, <2>1 DEF IInv, TablesSound, LotsCovered
    <3>2. Remaining(LotsOf(z)) \in Int
      <4>1. LotsOf(z) \in SUBSET (1..Len(lots))
        BY DEF LotsOf
      <4>. QED  BY <1>1, <4>1, LotSums
    <3>. QED  BY <1>1, <1>5, <1>6, <3>1, <3>2
  <2>. QED  BY <2>1 DEF LotsCovered
<1>11. FillsLate("buy", w)' \/ (IsUnresolved(i) /\ orders[i].status # "PENDING")
  <2>1. CASE orders[i].status = "CANCELLED"
    <3>1. orders'[i].late /\ orders'[i].side = "buy" /\ orders'[i].symbol = w /\ i \in 1..Len(orders')
      BY <1>1, <1>2, <2>1 DEF Follows, Rows
    <3>. QED  BY <3>1 DEF FillsLate, Orders
  <2>2. CASE orders[i].status # "CANCELLED"
    BY <1>1, <2>2 DEF IMPORTABLE_STATUSES, IsUnresolved, Unresolved
  <2>. QED  BY <2>1, <2>2
<1>12. Explained
  <2>1. FillsLate("buy", w)' \/ Bookable(w)
    BY <1>2, <1>11 DEF Bookable
  <2>2. \A z \in Symbols : z # w => \A slot : OpenIn(z, slot)' \subseteq OpenIn(z, slot)
    BY <1>6
  <2>3. \A z \in Symbols : position[z] <= position'[z] /\ (z # w => position'[z] <= position[z])
    BY <1>5
  <2>. QED  BY <2>1, <2>2, <2>3 DEF Explained
<1>13. ASSUME OrdersAlone PROVE SellsCovered'
  <2>1. SUFFICES ASSUME NEW j \in Rows, NEW z \in Symbols,
                        orders'[j].side = "sell", orders'[j].symbol = z, IsUnresolved(j)'
                 PROVE  FillsLate("sell", z)' \/ orders'[j].qty - orders'[j].booked <= position'[z]
    BY <1>1 DEF SellsCovered
  <2>2. j # i
    BY <1>1, <2>1 DEF Follows
  <2>3. orders'[j] = orders[j] /\ IsUnresolved(j)
    BY <1>1, <1>9, <2>1, <2>2
  <2>4. FillsLate("sell", z) \/ orders[j].qty - orders[j].booked <= position[z]
    BY <1>13, <2>1, <2>3 DEF OrdersAlone, SellsCovered
  <2>5. /\ position[z] <= position'[z] /\ position[z] \in Nat /\ position'[z] \in Nat
        /\ orders[j].qty \in Nat /\ orders[j].booked \in Nat
    BY <1>1, <1>5, OrderRows
  <2>. QED  BY <1>9, <2>3, <2>4, <2>5
<1>14. ASSUME OrdersAlone PROVE SlotOnce'
  <2>1. SUFFICES ASSUME NEW z \in Symbols, NEW slot \in TIMING2_30S_ENTRY_SLOTS, ~Blurred(z)'
                 PROVE  /\ \A l, k \in OpenIn(z, slot)' : l = k
                        /\ \A j \in Entries(z, slot)' : \A l \in OpenIn(z, slot)' : lots'[l].order = j
    BY DEF SlotOnce
  <2>2. /\ \A l, k \in OpenIn(z, slot) : l = k
        /\ \A j \in Entries(z, slot) : \A l \in OpenIn(z, slot) : lots[l].order = j
    BY <1>9, <1>14, <2>1 DEF OrdersAlone, SlotOnce
  <2>3. \A l \in OpenIn(z, slot) : lots'[l].order = lots[l].order
    BY <1>6 DEF OpenIn, LotsOf
  <2>4. CASE OpenIn(z, slot)' \subseteq OpenIn(z, slot)
    BY <1>9, <2>2, <2>3, <2>4
  <2>5. CASE ~(OpenIn(z, slot)' \subseteq OpenIn(z, slot))
    <3>1. /\ \A l \in 1..Len(lots) : lots[l].order # i
          /\ \A l \in OpenIn(z, slot)' :
               l \in OpenIn(z, slot) \/ (l = Len(lots) + 1 /\ lots'[l].order = i)
          /\ z = w /\ slot = s
      BY <1>6, <2>5
    <3>2. ~FillsLate("buy", w)'
      BY <2>1, <3>1 DEF Blurred
    <3>3. IsUnresolved(i) /\ i \in Entries(z, slot)
      BY <1>2, <1>3, <1>11, <3>1, <3>2 DEF Entries, InFlight, IsUnresolved, Rows
    <3>4. \A l \in OpenIn(z, slot) : FALSE
      BY <2>2, <3>1, <3>3 DEF OpenIn, LotsOf
    <3>5. \A j \in Entries(z, slot)' : j = i
      <4>1. \A j \in Entries(z, slot) : /\ j \in Rows /\ IsUnresolved(j) /\ orders[j].side = "buy"
                                        /\ orders[j].symbol = w
        BY <3>1 DEF Entries, InFlight, IsUnresolved, Rows
      <4>2. \A j \in Entries(z, slot) : j = i
        BY <1>2, <1>14, <3>3, <4>1 DEF OrdersAlone, OneInFlight
      <4>. QED  BY <1>9, <4>2
    <3>. QED  BY <3>1, <3>4, <3>5
  <2>. QED  BY <2>4, <2>5
<1>15. cash' \in Nat /\ cash <= cash'
  BY <1>1, <1>4 DEF Typed
<1>. QED  BY <1>1, <1>4, <1>5, <1>6, <1>7, <1>8, <1>10, <1>12, <1>13, <1>14, <1>15, DriftKeeps

\* What an import makes of the lots of a sell order.
LEMMA SoldLots ==
  ASSUME IInv, NEW i \in Rows, NEW n, n \in Nat, lots' \in LotsAfterSell(i, n),
         orders[i].side = "sell"
  PROVE  /\ lots' \in Seq(LotRow) /\ Len(lots') = Len(lots)
         /\ \A l \in 1..Len(lots) :
              /\ lots'[l].symbol = lots[l].symbol /\ lots'[l].slot = lots[l].slot
              /\ lots'[l].order = lots[l].order /\ lots'[l].total = lots[l].total
              /\ lots'[l].remaining <= lots[l].remaining
         /\ \A w : w # orders[i].symbol => Remaining(LotsOf(w))' = Remaining(LotsOf(w))
         /\ \/ StrategyOf[orders[i].signal] \in PositionExits
            \/ \A w : w = orders[i].symbol => Remaining(LotsOf(w))' = Remaining(LotsOf(w)) - n
<1>1. /\ Typed /\ OrderSound(i) /\ i # 0 /\ orders[i].signal \in Signals
      /\ \A l \in 1..Len(lots) : lots[l] \in LotRow /\ lots[l].remaining \in Nat
  BY OrderRows, LotRows DEF IInv, TablesSound, OrdersSound
<1>2. CASE StrategyOf[orders[i].signal] \in PositionExits
  <2>1. lots' = lots
    BY <1>2 DEF LotsAfterSell
  <2>2. \A w : LotsOf(w)' = LotsOf(w)
    BY <2>1 DEF LotsOf
  <2>3. \A w : Remaining(LotsOf(w))' = Remaining(LotsOf(w))
    BY <2>1, <2>2 DEF Remaining
  <2>. QED  BY <1>1, <1>2, <2>1, <2>3 DEF Typed
<1>3. CASE StrategyOf[orders[i].signal] \notin PositionExits
  <2>1. PICK k \in AuditedLot(i) : n <= lots[k].remaining /\ lots' = [lots EXCEPT ![k].remaining = @ - n]
    BY <1>3 DEF LotsAfterSell
  <2>2. PICK a \in audit : a.order = i /\ k = LotOf[a.signal]
    BY <2>1 DEF AuditedLot
  <2>3. k = LotOf[orders[i].signal]
    BY <1>1, <2>2 DEF IInv, TablesSound, AuditSound
  <2>4. StrategyOf[orders[i].signal] \in LotExits
    BY <1>1, <1>3 DEF OrderSound, TriggersOf, SellTriggers
  <2>5. LotOf[orders[i].signal] > 0
    BY <1>1, <2>4, Constants
  <2>6. k \in 1..Len(lots) /\ lots[k].symbol = orders[i].symbol
    BY <1>1, <2>3, <2>5 DEF OrderSound, LotKnown
  <2>7. PICK lot : lot = [lots[k] EXCEPT !.remaining = @ - n]
    OBVIOUS
  <2>8. /\ lot \in LotRow /\ lot.symbol = lots[k].symbol /\ lot.slot = lots[k].slot
        /\ lot.order = lots[k].order /\ lot.total = lots[k].total
        /\ lot.remaining = lots[k].remaining - n
    <3>1. lots[k].remaining - n \in Nat
      BY <1>1, <2>1, <2>6
    <3>. QED  BY <1>1, <2>6, <2>7, <3>1 DEF LotRow
  <2>9. lots' = [lots EXCEPT ![k] = lot]
    BY <2>1, <2>7
  <2>10. /\ lots' \in Seq(LotRow) /\ Len(lots') = Len(lots) /\ lots'[k] = lot
         /\ \A l \in 1..Len(lots) : l # k => lots'[l] = lots[l]
         /\ \A w : w # lot.symbol => Remaining(LotsOf(w))' = Remaining(LotsOf(w))
         /\ Remaining(LotsOf(lot.symbol))' = Remaining(LotsOf(lot.symbol)) + lot.remaining - lots[k].remaining
    BY <1>1, <2>6, <2>8, <2>9, ChangedLot
  <2>11. Remaining(LotsOf(lot.symbol)) \in Int
    <3>1. LotsOf(lot.symbol) \in SUBSET (1..Len(lots))
      BY DEF LotsOf
    <3>. QED  BY <1>1, <3>1, LotSums
  <2>12. \A w : w = orders[i].symbol => Remaining(LotsOf(w))' = Remaining(LotsOf(w)) - n
    BY <1>1, <2>6, <2>8, <2>10, <2>11
  <2>13. \A l \in 1..Len(lots) :
           /\ lots'[l].symbol = lots[l].symbol /\ lots'[l].slot = lots[l].slot
           /\ lots'[l].order = lots[l].order /\ lots'[l].total = lots[l].total
           /\ lots'[l].remaining <= lots[l].remaining
    BY <1>1, <2>6, <2>8, <2>10
  <2>. QED  BY <2>6, <2>8, <2>10, <2>12, <2>13
<1>. QED  BY <1>2, <1>3

LEMMA ImportSellKeeps ==
  ASSUME IInv, UNCHANGED proc, overlapped' = (overlapped \/ Overlap'), NEW i \in Rows, NEW n,
         Import(i, n), orders[i].side = "sell"
  PROVE  IInv'
<1>1. /\ Typed /\ orders' \in Seq(OrderRow) /\ Rows' = Rows
      /\ \A j \in Rows : j # i => orders'[j] = orders[j]
      /\ \A j \in Rows : Follows(j)
      /\ \A j \in Rows : orders'[j].broker = "none" <=> orders[j].broker = "none"
      /\ \A j \in Rows : orders[j].status = "PENDING" => orders'[j].status = "PENDING"
      /\ n \in Nat /\ n > 0
      /\ orders'[i].booked = orders[i].booked + n
      /\ orders[i].status \in IMPORTABLE_STATUSES
      /\ orders[i].status = "CANCELLED" => orders[i].late /\ orders'[i].late
      /\ (\A t : LotKnown(t) => LotKnown(t)') => OrdersSound'
  BY ImportedRow
<1>2. PICK w \in Symbols : w = orders[i].symbol
  BY <1>1, OrderRows
<1>3. /\ position' = [position EXCEPT ![w] = @ - n] /\ lots' \in LotsAfterSell(i, n)
      /\ n <= position[w]
      /\ UNCHANGED <<found, log, acted, stale, sellQty, audit, cash, crashes>>
  BY <1>2 DEF Import
<1>4. /\ position' \in [Symbols -> Nat] /\ position'[w] = position[w] - n
      /\ \A z \in Symbols : /\ position[z] \in Nat /\ position'[z] <= position[z]
                            /\ z # w => position'[z] = position[z]
  BY <1>1, <1>3 DEF Typed
<1>5. /\ lots' \in Seq(LotRow) /\ Len(lots') = Len(lots)
      /\ \A l \in 1..Len(lots) :
           /\ lots'[l].symbol = lots[l].symbol /\ lots'[l].slot = lots[l].slot
           /\ lots'[l].order = lots[l].order /\ lots'[l].total = lots[l].total
           /\ lots'[l].remaining <= lots[l].remaining
      /\ \A z : z # w => Remaining(LotsOf(z))' = Remaining(LotsOf(z))
      /\ \/ StrategyOf[orders[i].signal] \in PositionExits
         \/ \A z : z = w => Remaining(LotsOf(z))' = Remaining(LotsOf(z)) - n
  BY <1>1, <1>2, <1>3, SoldLots
<1>6. \A t : LotKnown(t) => LotKnown(t)'
  BY <1>5 DEF LotKnown
<1>7. /\ \A l \in 1..Len(lots) : lots'[l] \in LotRow /\ lots'[l].remaining \in Nat
                                 /\ lots[l].remaining \in Nat /\ lots[l].total \in Nat
  <2>1. \A l \in 1..Len(lots) : lots'[l] \in LotRow
    BY <1>5
  <2>. QED  BY <1>1, <2>1, LotRows DEF LotRow
<1>8. LotsSound'
  <2>1. \A l \in 1..Len(lots) : lots'[l].remaining <= lots'[l].total
    BY <1>5, <1>7 DEF IInv, TablesSound, LotsSound
  <2>. QED  BY <1>1, <1>5, <2>1 DEF LotsSound, Follows, IInv, TablesSound
<1>9. /\ \A side, z : FillsLate(side, z) => FillsLate(side, z)'
      /\ \A z : SoldAsPosition(z) => SoldAsPosition(z)'
      /\ \A z : Blurred(z) => Blurred(z)'
      /\ \A z, slot : Entries(z, slot)' \subseteq Entries(z, slot)
      /\ \A j \in Rows : IsUnresolved(j)' => IsUnresolved(j)
  BY <1>1, Drifted
<1>10. SoldAsPosition(w)' \/ \A z : z = w => Remaining(LotsOf(z))' = Remaining(LotsOf(z)) - n
  <2>1. orders[i].booked \in Nat
    BY <1>1, OrderRows
  <2>2. orders'[i].booked > 0 /\ orders'[i].symbol = w /\ orders'[i].signal = orders[i].signal
    BY <1>1, <1>2, <2>1 DEF Follows
  <2>3. CASE StrategyOf[orders[i].signal] \in PositionExits
    BY <1>1, <2>2, <2>3 DEF SoldAsPosition, Rows
  <2>. QED  BY <1>5, <2>3
<1>11. LotsCovered'
  <2>1. ASSUME NEW z \in Symbols, ~SoldAsPosition(z)' PROVE Remaining(LotsOf(z))' <= position'[z]
    <3>1. Remaining(LotsOf(z)) <= position[z]
      BY <1>9, <2>1 DEF IInv, TablesSound, LotsCovered
    <3>2. Remaining(LotsOf(z)) \in Int
      <4>1. LotsOf(z) \in SUBSET (1..Len(lots))
        BY DEF LotsOf
      <4>. QED  BY <1>1, <4>1, LotSums
    <3>3. CASE z # w
      BY <1>4, <1>5, <3>1, <3>3
    <3>4. CASE z = w
      BY <1>1, <1>4, <1>10, <2>1, <3>1, <3>2, <3>4
    <3>. QED  BY <3>3, <3>4
  <2>. QED  BY <2>1 DEF LotsCovered
<1>12. FillsLate("sell", w)' \/ IsUnresolved(i)
  <2>1. CASE orders[i].status = "CANCELLED"
    <3>1. orders'[i].late /\ orders'[i].side = "sell" /\ orders'[i].symbol = w /\ i \in 1..Len(orders')
      BY <1>1, <1>2, <2>1 DEF Follows, Rows
    <3>. QED  BY <3>1 DEF FillsLate, Orders
  <2>2. CASE orders[i].status # "CANCELLED"
    BY <1>1, <2>2 DEF IMPORTABLE_STATUSES, IsUnresolved, Unresolved
  <2>. QED  BY <2>1, <2>2
<1>13. \A z, slot : OpenIn(z, slot)' \subseteq OpenIn(z, slot)
  <2>1. \A l \in 1..Len(lots) : lots'[l].remaining > 0 => lots[l].remaining > 0
    BY <1>5, <1>7
  <2>2. \A l : l \in 1..Len(lots') <=> l \in 1..Len(lots)
    BY <1>5
  <2>. QED  BY <1>5, <2>1, <2>2 DEF OpenIn, IsOpen, LotsOf
<1>14. Explained
  <2>1. FillsLate("sell", w)' \/ w \in UnresolvedSymbols("sell")
    BY <1>2, <1>12, UnresolvedOf
  <2>2. \A z \in Symbols : position'[z] <= position[z] /\ (z # w => position[z] <= position'[z])
    BY <1>4
  <2>. QED  BY <1>13, <2>1, <2>2 DEF Explained
<1>15. ASSUME OrdersAlone PROVE SellsCovered'
  <2>1. SUFFICES ASSUME NEW j \in Rows, NEW z \in Symbols,
                        orders'[j].side = "sell", orders'[j].symbol = z, IsUnresolved(j)',
                        ~FillsLate("sell", z)'
                 PROVE  orders'[j].qty - orders'[j].booked <= position'[z]
    BY <1>1 DEF SellsCovered
  <2>2. orders[j].side = "sell" /\ orders[j].symbol = z /\ orders'[j].qty = orders[j].qty /\ IsUnresolved(j)
    BY <1>1, <1>9, <2>1 DEF Follows
  <2>3. orders[j].qty - orders[j].booked <= position[z]
    BY <1>9, <1>15, <2>1, <2>2 DEF OrdersAlone, SellsCovered
  <2>4. position[z] \in Nat /\ orders[j].qty \in Nat /\ orders[j].booked \in Nat
    BY <1>1, <1>4, OrderRows
  <2>5. CASE j = i
    <3>1. orders'[j].booked = orders[j].booked + n /\ z = w
      BY <1>1, <1>2, <2>2, <2>5
    <3>2. position'[z] = position[z] - n
      BY <1>4, <3>1
    <3>. QED  BY <1>1, <2>2, <2>3, <2>4, <3>1, <3>2
  <2>6. CASE j # i
    <3>1. z # w
      <4>1. SUFFICES ASSUME z = w PROVE FALSE
        OBVIOUS
      <4>2. IsUnresolved(i)
        BY <1>12, <2>1, <4>1
      <4>. QED  BY <1>2, <1>15, <2>2, <2>6, <4>1, <4>2 DEF OrdersAlone, OneInFlight
    <3>. QED  BY <1>1, <1>4, <2>3, <2>6, <3>1
  <2>. QED  BY <2>5, <2>6
<1>16. ASSUME OrdersAlone PROVE SlotOnce'
  <2>1. \A z, slot : \A l \in OpenIn(z, slot) : lots'[l].order = lots[l].order
    BY <1>5 DEF OpenIn, LotsOf
  <2>2. \A z \in Symbols, slot \in TIMING2_30S_ENTRY_SLOTS :
          \/ Blurred(z)'
          \/ /\ \A l, k \in OpenIn(z, slot)' : l = k
             /\ \A j \in Entries(z, slot)' : \A l \in OpenIn(z, slot)' : lots'[l].order = j
    BY <1>9, <1>13, <1>16, <2>1 DEF OrdersAlone, SlotOnce
  <2>. QED  BY <2>2 DEF SlotOnce
<1>17. cash' \in Nat /\ cash <= cash'
  BY <1>1, <1>3 DEF Typed
<1>. QED  BY <1>1, <1>3, <1>4, <1>5, <1>6, <1>8, <1>11, <1>14, <1>15, <1>16, <1>17, DriftKeeps

-----------------------------------------------------------------------------
(* The invariant of every behaviour                                        *)

LEMMA InitKeeps == Init => IInv
<1>. SUFFICES ASSUME Init PROVE IInv
  OBVIOUS
<1>1. /\ found \in Days /\ log = <<>> /\ acted = {} /\ stale = {} /\ audit = {} /\ orders = <<>>
      /\ sellQty = [s \in Signals |-> 0]
      /\ position = InitPosition /\ lots = InitLots /\ cash = InitCash /\ crashes = 0
      /\ proc = [p \in Executors |-> Idle] /\ overlapped = FALSE
  BY DEF Init, TablesInit
<1>2. Len(log) = 0 /\ Len(orders) = 0 /\ 1..Len(log) = {} /\ Rows = {}
  BY <1>1 DEF Rows
<1>3. lots \in Seq(LotRow)
  <2>. DEFINE M == [symbol : Symbols, slot : Strategies, total : Nat \ {0},
                    remaining : Nat, order : {0}]
  <2>1. M \subseteq LotRow /\ InitLots \in Seq(M)
    BY MorningAssumption DEF LotRow
  <2>. HIDE DEF M
  <2>. QED  BY <1>1, <2>1, SeqDef
<1>4. DOMAIN lots = 1..Len(lots)
  BY <1>3
<1>5. Typed
  <2>1. found \in SUBSET Signals /\ sellQty \in [Signals -> Nat] /\ cash \in Nat /\ crashes \in Nat
    BY <1>1, TablesAssumption
  <2>2. log \in Seq(LogRow) /\ orders \in Seq(OrderRow)
    BY <1>1
  <2>3. position \in [Symbols -> Nat]
    BY <1>1, Constants
  <2>4. proc \in [Executors -> Proc]
    BY <1>1, IdleSound
  <2>. QED  BY <1>1, <1>3, <2>1, <2>2, <2>3, <2>4 DEF Typed
<1>6. LogSound /\ OrdersSound /\ AuditSound /\ OneInFlight /\ SellsCovered
  BY <1>1, <1>2 DEF LogSound, IsRecorded, OrdersSound, AuditSound, OneInFlight, SellsCovered
<1>7. LotsSound
  <2>1. PICK M : /\ M = [symbol : Symbols, slot : Strategies, total : Nat \ {0},
                         remaining : Nat, order : {0}]
                 /\ InitLots \in Seq(M)
    BY MorningAssumption
  <2>2. \A l \in 1..Len(InitLots) : InitLots[l].order = 0
    <3>0. InitLots \in Seq(M)
      BY <2>1
    <3>1. \A l \in 1..Len(InitLots) : InitLots[l] \in M
      BY <3>0
    <3>2. \A m \in M : m.order = 0
      BY <2>1
    <3>. QED  BY <3>1, <3>2
  <2>. QED  BY <1>1, <1>4, <2>2, MorningAssumption DEF LotsSound
<1>8. LotsCovered
  <2>1. SUFFICES ASSUME NEW x \in Symbols PROVE Remaining(LotsOf(x)) <= position[x]
    BY DEF LotsCovered
  <2>2. LotsOf(x) = {l \in DOMAIN InitLots : InitLots[l].symbol = x}
    BY <1>1, <1>4 DEF LotsOf
  <2>. QED  BY <1>1, <2>2, MorningAssumption DEF Remaining
<1>9. SlotOnce
  <2>1. SUFFICES ASSUME NEW x \in Symbols, NEW slot \in TIMING2_30S_ENTRY_SLOTS
                 PROVE  (\A l, k \in OpenIn(x, slot) : l = k) /\ Entries(x, slot) = {}
    BY DEF SlotOnce
  <2>2. Entries(x, slot) = {}
    BY <1>2 DEF Entries, InFlight
  <2>3. ASSUME NEW l \in OpenIn(x, slot), NEW k \in OpenIn(x, slot) PROVE l = k
    <3>1. /\ l \in DOMAIN InitLots /\ k \in DOMAIN InitLots
          /\ InitLots[l].symbol = InitLots[k].symbol /\ InitLots[l].slot = InitLots[k].slot
          /\ InitLots[l].slot \in TIMING2_30S_ENTRY_SLOTS
          /\ InitLots[l].remaining > 0 /\ InitLots[k].remaining > 0
      BY <1>1, <1>4, <2>3 DEF OpenIn, LotsOf, IsOpen
    <3>. QED  BY <3>1, MorningAssumption
  <2>. QED  BY <2>2, <2>3
<1>10. Cardinality(Lost) <= crashes
  <2>1. Lost = {}
    BY <1>2 DEF Lost
  <2>. QED  BY <1>1, <2>1, FS_EmptySet
<1>11. Cardinality(Active) <= MaxHoldings
  <2>1. UnresolvedSymbols("buy") = {}
    BY <1>2 DEF UnresolvedSymbols, FindUnresolved
  <2>2. Active = {x \in Symbols : InitPosition[x] > 0}
    BY <1>1, <2>1 DEF Active, LiveSymbols
  <2>. QED  BY <2>2, ExecutionAssumption
<1>12. \A p \in Executors : proc[p] = Idle
  BY <1>1
<1>13. Distinct /\ ~Overlap
  BY <1>12, IdleSound DEF Distinct, Overlap, At, Idle
<1>. QED  BY <1>5, <1>6, <1>7, <1>8, <1>9, <1>10, <1>11, <1>12, <1>13, IdleSound
          DEF IInv, TablesSound, OrdersAlone

LEMMA StutterKeeps ==
  ASSUME IInv, UNCHANGED vars
  PROVE  IInv'
<1>1. UNCHANGED <<found, log, acted, stale, sellQty, audit, orders, position, lots, cash,
                  crashes, proc, overlapped>>
  BY DEF vars
<1>2. Typed'
  BY <1>1 DEF IInv, Typed
<1>3. LogSound'
  BY <1>1 DEF IInv, TablesSound, LogSound, IsRecorded, LotKnown
<1>4. \A s : IsRecorded(s) => IsRecorded(s)'
  BY <1>1 DEF IsRecorded
<1>5. overlapped' = (overlapped \/ Overlap')
  <2>1. Overlap' <=> Overlap
    BY <1>1 DEF Overlap, At
  <2>2. (overlapped \/ Overlap') <=> overlapped
    BY <2>1 DEF IInv
  <2>3. overlapped \in BOOLEAN /\ (overlapped \/ Overlap') \in BOOLEAN
    BY DEF IInv, Typed
  <2>4. (overlapped \/ Overlap') = overlapped
    BY <2>2, <2>3, Zenon
  <2>. QED  BY <1>1, <2>4
<1>. QED  BY <1>1, <1>2, <1>3, <1>4, <1>5, SignalStepKeeps

LEMMA StepKeeps ==
  ASSUME IInv, overlapped' = (overlapped \/ Overlap'), NEW p \in Executors, Step(p)
  PROVE  IInv'
<1>1. CASE \E side \in {"buy", "sell"} : Start(p, side)
  BY <1>1, StartKeeps DEF Sides
<1>2. CASE ConsumeSuperseded(p)
  BY <1>2, ConsumeSupersededKeeps
<1>3. CASE Guard(p)
  BY <1>3, GuardKeeps
<1>4. CASE ConsumeBlocked(p)
  BY <1>4, ConsumeBlockedKeeps
<1>5. CASE LoadBalance(p)
  BY <1>5, LoadBalanceKeeps
<1>6. CASE Snapshot(p)
  BY <1>6, SnapshotKeeps
<1>7. CASE EvaluateBuy(p)
  BY <1>7, EvaluateBuyKeeps
<1>8. CASE EvaluateSell(p)
  BY <1>8, EvaluateSellKeeps
<1>9. CASE Place(p)
  BY <1>9, PlaceKeeps
<1>10. CASE PreTrade(p)
  BY <1>10, PreTradeKeeps
<1>11. CASE \E taken \in BOOLEAN : Post(p, taken)
  BY <1>11, PostKeeps
<1>12. CASE \E outcome \in {"SUBMITTED", "UNKNOWN", "REJECTED"} : Replied(p, outcome)
  BY <1>12, RepliedKeeps
<1>13. CASE ConsumeDecided(p)
  BY <1>13, ConsumeDecidedKeeps
<1>. QED  BY <1>1, <1>2, <1>3, <1>4, <1>5, <1>6, <1>7, <1>8, <1>9, <1>10, <1>11, <1>12, <1>13
          DEF Step

LEMMA OrderMovesKeep ==
  ASSUME IInv, UNCHANGED proc, overlapped' = (overlapped \/ Overlap'), NEW i \in Rows, OrderMoves(i)
  PROVE  IInv'
<1>1. CASE \E n \in 1..Rest(i) : Fill(i, n)
  BY <1>1, FillKeeps
<1>2. CASE BrokerCancels(i)
  BY <1>2, BrokerCancelsKeeps
<1>3. CASE MarkCancelled(i)
  BY <1>3, MarkCancelledKeeps
<1>4. CASE \E n \in 1..orders[i].filled : Import(i, n)
  <2>1. orders[i].side = "buy" \/ orders[i].side = "sell"
    BY <1>4 DEF Import
  <2>. QED  BY <1>4, <2>1, ImportBuyKeeps, ImportSellKeeps
<1>. QED  BY <1>1, <1>2, <1>3, <1>4 DEF OrderMoves

LEMMA NextKeeps ==
  ASSUME IInv, [Next]_vars
  PROVE  IInv'
<1>1. CASE UNCHANGED vars
  BY <1>1, StutterKeeps
<1>2. CASE Next
  <2>0. overlapped' = (overlapped \/ Overlap')
    BY <1>2 DEF Next
  <2>1. ASSUME NEW p \in Executors, Step(p) \/ PassFails(p) \/ Crash(p) PROVE IInv'
    BY <2>0, <2>1, StepKeeps, PassFailsKeeps, CrashKeeps
  <2>2. CASE Environment /\ UNCHANGED proc
    <3>1. ASSUME NEW s \in Signals, RecordSignal(s) \/ RecordPositionExit(s) PROVE IInv'
      BY <2>0, <2>2, <3>1, RecordKeeps
    <3>2. ASSUME NEW s \in Signals, RecordLotExit(s) PROVE IInv'
      BY <2>0, <2>2, <3>2, RecordLotExitKeeps
    <3>3. ASSUME NEW s \in Signals, CleanupStaleSignal(s) PROVE IInv'
      BY <2>0, <2>2, <3>3, CleanupKeeps
    <3>4. CASE \/ \E s \in Signals : SignalAges(s)
               \/ \E on \in BOOLEAN : SetKillSwitch(on)
               \/ LossReached
               \/ TimePasses
      BY <2>0, <2>2, <3>4, OtherSignalStepsKeep
    <3>5. ASSUME NEW i \in Rows, OrderMoves(i) PROVE IInv'
      BY <2>0, <2>2, <3>5, OrderMovesKeep
    <3>. QED  BY <2>2, <3>1, <3>2, <3>3, <3>4, <3>5 DEF Environment, Rows
  <2>. QED  BY <1>2, <2>1, <2>2 DEF Next
<1>. QED  BY <1>1, <1>2

LEMMA Inductive == Spec => []IInv
<1>1. Init => IInv
  BY InitKeeps
<1>2. IInv /\ [Next]_vars => IInv'
  BY NextKeeps
<1>. QED  BY <1>1, <1>2, PTL DEF Spec

-----------------------------------------------------------------------------
(* The properties                                                          *)

LEMMA AtMostOne ==
  ASSUME NEW S, \A i, j \in S : i = j
  PROVE  /\ IsFiniteSet(S) /\ Cardinality(S) \in {0, 1}
         /\ S = {} => Cardinality(S) = 0
<1>1. CASE S = {}
  BY <1>1, FS_EmptySet
<1>2. CASE S # {}
  <2>1. PICK x : x \in S
    BY <1>2
  <2>2. S = {x}
    BY <2>1
  <2>. QED  BY <1>2, <2>2, FS_Singleton
<1>. QED  BY <1>1, <1>2

\* The orders, lots, positions and the work of the executors keep their types;
\* no order is filled beyond its quantity or booked beyond its fills, and no lot
\* or position sold below zero, by any interleaving of passes, fills and imports.
THEOREM TypeCorrect == Spec => []TypeOK
<1>1. ASSUME IInv PROVE TypeOK
  <2>1. Typed /\ OrdersSound /\ LotsSound
    BY <1>1 DEF IInv, TablesSound
  <2>2. \A i \in 1..Len(orders) :
          /\ orders[i].symbol = SymbolOf[orders[i].signal]
          /\ orders[i].qty \in Nat \ {0}
          /\ orders[i].filled \in 0..orders[i].qty
          /\ orders[i].booked \in 0..orders[i].filled
    BY <2>1, OrderRows DEF OrdersSound, OrderSound, Rows
  <2>3. \A l \in 1..Len(lots) : lots[l].remaining \in 0..lots[l].total
    BY <2>1, LotRows DEF LotsSound
  <2>4. \A p \in Executors : proc[p].todo \subseteq Signals
    BY <2>1 DEF Typed, Proc
  <2>. QED  BY <2>1, <2>2, <2>3, <2>4 DEF TypeOK, Typed
<1>. QED  BY <1>1, Inductive, PTL

\* Until two passes have overlapped, two unresolved orders of one side of a
\* symbol never exist, however late and in how many parts they are resolved:
\* what a pass read before is still true of its symbol when it places the order.
THEOREM OneOrderAtATime == Spec => []OneOrderInFlight
<1>1. ASSUME IInv PROVE OneOrderInFlight
  <2>1. SUFFICES ASSUME ~overlapped, NEW x \in Symbols, NEW side \in {"buy", "sell"}
                 PROVE  Cardinality(InFlight(side, x)) <= 1
    BY DEF OneOrderInFlight
  <2>2. \A i, j \in InFlight(side, x) : i = j
    BY <1>1, <2>1 DEF IInv, OrdersAlone, OneInFlight, InFlight, Rows, IsUnresolved
  <2>3. Cardinality(InFlight(side, x)) \in {0, 1}
    BY <2>2, AtMostOne
  <2>. QED  BY <2>3
<1>. QED  BY <1>1, Inductive, PTL

\* Until two passes have overlapped, a 30-second slot of a symbol has one entry:
\* an unresolved buy order and the lot its imports grow, or an open lot.  What
\* breaks it is named: a position-level sell, or late fills of a cancelled buy.
THEOREM SlotsEnteredOnce == Spec => []SlotEnteredOnce
<1>1. ASSUME IInv PROVE SlotEnteredOnce
  <2>1. SUFFICES ASSUME ~overlapped, NEW x \in Symbols, NEW slot \in TIMING2_30S_ENTRY_SLOTS,
                        ~SoldAsPosition(x), ~FillsLate("buy", x)
                 PROVE  Cardinality(Entries(x, slot)) + Cardinality(Holders(x, slot)) <= 1
    BY DEF SlotEnteredOnce
  <2>2. /\ \A l, k \in OpenIn(x, slot) : l = k
        /\ \A i \in Entries(x, slot) : \A l \in OpenIn(x, slot) : lots[l].order = i
    BY <1>1, <2>1 DEF IInv, OrdersAlone, SlotOnce, Blurred
  <2>3. PICK L : L = Holders(x, slot)
    OBVIOUS
  <2>4. PICK O : O = Entries(x, slot)
    OBVIOUS
  <2>5. \A l \in L : l \in OpenIn(x, slot) /\ lots[l].order \notin O
    BY <2>3, <2>4 DEF Holders, OpenIn, LotsOf
  <2>6. \A i, j \in O : i = j
    BY <1>1, <2>1, <2>4 DEF IInv, OrdersAlone, OneInFlight, Entries, InFlight, Rows, IsUnresolved
  <2>7. \A l, k \in L : l = k
    BY <2>2, <2>5
  <2>8. L = {} \/ O = {}
    BY <2>2, <2>4, <2>5
  <2>9. /\ Cardinality(L) \in {0, 1} /\ (L = {} => Cardinality(L) = 0)
        /\ Cardinality(O) \in {0, 1} /\ (O = {} => Cardinality(O) = 0)
    BY <2>6, <2>7, AtMostOne
  <2>. QED  BY <2>3, <2>4, <2>8, <2>9
<1>. QED  BY <1>1, Inductive, PTL

\* Until two passes have overlapped or fills of a cancelled sell came late, the
\* position covers what the unresolved sell orders may still sell; and whatever
\* overlaps, it covers its open lots, unless a position-level sell reduced it.
THEOREM PositionCoversItsSells == Spec => []PositionCovers
<1>1. ASSUME IInv PROVE PositionCovers
  <2>1. ASSUME NEW x \in Symbols, ~overlapped, ~FillsLate("sell", x)
        PROVE  Outstanding(InFlight("sell", x)) <= position[x]
    <3>1. position[x] \in Nat /\ Typed
      BY <1>1 DEF IInv, Typed
    <3>2. PICK S : S = InFlight("sell", x)
      OBVIOUS
    <3>3. PICK f : f = [i \in DOMAIN orders |-> orders[i].qty - orders[i].booked]
      OBVIOUS
    <3>4. Outstanding(S) = Sum(f, S)
      BY <3>3 DEF Outstanding, Sum
    <3>5. CASE S = {}
      BY <3>1, <3>2, <3>4, <3>5, SumEmpty
    <3>6. CASE S # {}
      <4>1. PICK i : i \in S
        BY <3>6
      <4>2. S = {i}
        BY <1>1, <2>1, <3>2, <4>1 DEF IInv, OrdersAlone, OneInFlight, InFlight, Rows, IsUnresolved
      <4>3. i \in Rows /\ orders[i].qty - orders[i].booked <= position[x]
        BY <1>1, <2>1, <3>2, <4>1 DEF IInv, OrdersAlone, SellsCovered, InFlight, Rows, IsUnresolved
      <4>4. f[i] = orders[i].qty - orders[i].booked /\ f[i] \in Int
        BY <3>1, <3>3, <4>3, OrderRows
      <4>5. Sum(f, S) = f[i]
        BY <4>2, <4>4, SumOne
      <4>. QED  BY <3>2, <3>4, <4>3, <4>4, <4>5
    <3>. QED  BY <3>5, <3>6
  <2>2. ASSUME NEW x \in Symbols
        PROVE  SoldAsPosition(x) \/ Remaining({l \in 1..Len(lots) : lots[l].symbol = x}) <= position[x]
    BY <1>1 DEF IInv, TablesSound, LotsCovered, LotsOf
  <2>. QED  BY <2>1, <2>2 DEF PositionCovers
<1>. QED  BY <1>1, Inductive, PTL

\* Each crash costs the audit row of at most one order, with any number of
\* executors at once.
THEOREM OrdersStayAudited == Spec => []OrdersAudited
<1>1. ASSUME IInv PROVE OrdersAudited
  BY <1>1 DEF IInv, Lost, OrdersAudited, Rows
<1>. QED  BY <1>1, Inductive, PTL

\* An order row appears when an executor places it, and keeps its side.
LEMMA NewOrders ==
  ASSUME IInv, [Next]_vars
  PROVE  \/ \E p \in Executors : Place(p)
         \/ /\ Len(orders') = Len(orders)
            /\ \A j \in Rows : orders'[j].side = orders[j].side
<1>0. /\ orders \in Seq(OrderRow) /\ DOMAIN orders = Rows
      /\ \A j \in Rows : orders[j] \in OrderRow
  BY OrderRows DEF IInv, Typed
<1>. DEFINE Same == /\ Len(orders') = Len(orders)
                    /\ \A j \in Rows : orders'[j].side = orders[j].side
<1>1. ASSUME NEW i, NEW o, orders' = [orders EXCEPT ![i] = o],
             i \in Rows => o.side = orders[i].side
      PROVE  Same
  <2>1. Len(orders') = Len(orders)
    BY <1>0, <1>1
  <2>2. \A j \in Rows : orders'[j] = IF j = i THEN o ELSE orders[j]
    BY <1>0, <1>1
  <2>. QED  BY <1>1, <2>1, <2>2
<1>2. ASSUME orders' = orders PROVE Same
  BY <1>2
<1>3. ASSUME NEW i,
             \/ \E d : orders' = [orders EXCEPT ![i].broker = d]
             \/ \E d : orders' = [orders EXCEPT ![i].status = d]
             \/ \E d : orders' = [orders EXCEPT ![i].filled = d]
             \/ \E d, e : orders' = [orders EXCEPT ![i].status = d, ![i].numbered = e]
             \/ \E d, e : orders' = [orders EXCEPT ![i].status = d, ![i].late = e]
             \/ \E d, e : orders' = [orders EXCEPT ![i].booked = d, ![i].status = e]
      PROVE  Same
  <2>1. \E o : orders' = [orders EXCEPT ![i] = o] /\ (i \in Rows => o.side = orders[i].side)
    <3>1. ASSUME NEW d, orders' = [orders EXCEPT ![i].broker = d]
          PROVE  \E o : orders' = [orders EXCEPT ![i] = o] /\ (i \in Rows => o.side = orders[i].side)
      <4>1. PICK o : o = [orders[i] EXCEPT !.broker = d]
        OBVIOUS
      <4>2. orders' = [orders EXCEPT ![i] = o]
        BY <1>0, <3>1, <4>1
      <4>3. i \in Rows => o.side = orders[i].side
        BY <1>0, <4>1 DEF OrderRow
      <4>. QED  BY <4>2, <4>3
    <3>2. ASSUME NEW d, orders' = [orders EXCEPT ![i].status = d]
          PROVE  \E o : orders' = [orders EXCEPT ![i] = o] /\ (i \in Rows => o.side = orders[i].side)
      <4>1. PICK o : o = [orders[i] EXCEPT !.status = d]
        OBVIOUS
      <4>2. orders' = [orders EXCEPT ![i] = o]
        BY <1>0, <3>2, <4>1
      <4>3. i \in Rows => o.side = orders[i].side
        BY <1>0, <4>1 DEF OrderRow
      <4>. QED  BY <4>2, <4>3
    <3>3. ASSUME NEW d, orders' = [orders EXCEPT ![i].filled = d]
          PROVE  \E o : orders' = [orders EXCEPT ![i] = o] /\ (i \in Rows => o.side = orders[i].side)
      <4>1. PICK o : o = [orders[i] EXCEPT !.filled = d]
        OBVIOUS
      <4>2. orders' = [orders EXCEPT ![i] = o]
        BY <1>0, <3>3, <4>1
      <4>3. i \in Rows => o.side = orders[i].side
        BY <1>0, <4>1 DEF OrderRow
      <4>. QED  BY <4>2, <4>3
    <3>4. ASSUME NEW d, NEW e, orders' = [orders EXCEPT ![i].status = d, ![i].numbered = e]
          PROVE  \E o : orders' = [orders EXCEPT ![i] = o] /\ (i \in Rows => o.side = orders[i].side)
      <4>1. PICK o : o = [orders[i] EXCEPT !.status = d, !.numbered = e]
        OBVIOUS
      <4>2. orders' = [orders EXCEPT ![i] = o]
        BY <1>0, <3>4, <4>1
      <4>3. i \in Rows => o.side = orders[i].side
        BY <1>0, <4>1 DEF OrderRow
      <4>. QED  BY <4>2, <4>3
    <3>5. ASSUME NEW d, NEW e, orders' = [orders EXCEPT ![i].status = d, ![i].late = e]
          PROVE  \E o : orders' = [orders EXCEPT ![i] = o] /\ (i \in Rows => o.side = orders[i].side)
      <4>1. PICK o : o = [orders[i] EXCEPT !.status = d, !.late = e]
        OBVIOUS
      <4>2. orders' = [orders EXCEPT ![i] = o]
        BY <1>0, <3>5, <4>1
      <4>3. i \in Rows => o.side = orders[i].side
        BY <1>0, <4>1 DEF OrderRow
      <4>. QED  BY <4>2, <4>3
    <3>6. ASSUME NEW d, NEW e, orders' = [orders EXCEPT ![i].booked = d, ![i].status = e]
          PROVE  \E o : orders' = [orders EXCEPT ![i] = o] /\ (i \in Rows => o.side = orders[i].side)
      <4>1. PICK o : o = [orders[i] EXCEPT !.booked = d, !.status = e]
        OBVIOUS
      <4>2. orders' = [orders EXCEPT ![i] = o]
        BY <1>0, <3>6, <4>1
      <4>3. i \in Rows => o.side = orders[i].side
        BY <1>0, <4>1 DEF OrderRow
      <4>. QED  BY <4>2, <4>3
    <3>. QED  BY <1>3, <3>1, <3>2, <3>3, <3>4, <3>5, <3>6
  <2>. QED  BY <1>1, <2>1
<1>. HIDE DEF Same
<1>4. ASSUME UNCHANGED vars PROVE Same
  BY <1>2, <1>4 DEF vars
<1>5. ASSUME NEW p \in Executors, Step(p) PROVE Place(p) \/ Same
  <2>1. ASSUME PreTrade(p) PROVE Same
    <3>1. orders' = orders \/ \E i, d : orders' = [orders EXCEPT ![i].status = d]
      BY <2>1 DEF PreTrade
    <3>. QED  BY <1>2, <1>3, <3>1
  <2>2. ASSUME NEW taken, Post(p, taken) PROVE Same
    <3>1. \E i, d : orders' = [orders EXCEPT ![i].broker = d]
      BY <2>2 DEF Post
    <3>. QED  BY <1>3, <3>1
  <2>3. ASSUME NEW outcome, Replied(p, outcome) PROVE Same
    <3>1. \E i, d, e : orders' = [orders EXCEPT ![i].status = d, ![i].numbered = e]
      BY <2>3 DEF Replied
    <3>. QED  BY <1>3, <3>1
  <2>4. ASSUME ~Place(p), ~PreTrade(p), ~\E taken \in BOOLEAN : Post(p, taken),
               ~\E outcome \in {"SUBMITTED", "UNKNOWN", "REJECTED"} : Replied(p, outcome)
        PROVE  orders' = orders
    BY <1>5, <2>4 DEF Step, Start, ConsumeSuperseded, Guard, ConsumeBlocked, LoadBalance, Snapshot,
                      EvaluateBuy, EvaluateSell, ConsumeDecided, tableVars
  <2>. QED  BY <1>2, <2>1, <2>2, <2>3, <2>4
<1>6. ASSUME NEW p \in Executors, PassFails(p) \/ Crash(p) PROVE Same
  BY <1>2, <1>6 DEF PassFails, Crash, tableVars
<1>7. ASSUME Environment PROVE Same
  <2>1. ASSUME NEW i, OrderMoves(i) PROVE Same
    <3>1. ASSUME NEW n, Fill(i, n) PROVE Same
      <4>1. \E d : orders' = [orders EXCEPT ![i].filled = d]
        BY <3>1 DEF Fill
      <4>. QED  BY <1>3, <4>1
    <3>2. ASSUME BrokerCancels(i) PROVE Same
      <4>1. \E d : orders' = [orders EXCEPT ![i].broker = d]
        BY <3>2 DEF BrokerCancels
      <4>. QED  BY <1>3, <4>1
    <3>3. ASSUME MarkCancelled(i) PROVE Same
      <4>1. \E d, e : orders' = [orders EXCEPT ![i].status = d, ![i].late = e]
        BY <3>3 DEF MarkCancelled
      <4>. QED  BY <1>3, <4>1
    <3>4. ASSUME NEW n, Import(i, n) PROVE Same
      <4>1. \E d, e : orders' = [orders EXCEPT ![i].booked = d, ![i].status = e]
        BY <3>4 DEF Import
      <4>. QED  BY <1>3, <4>1
    <3>. QED  BY <2>1, <3>1, <3>2, <3>3, <3>4 DEF OrderMoves
  <2>2. ASSUME ~\E i \in 1..Len(orders) : OrderMoves(i)
        PROVE  orders' = orders
    BY <1>7, <2>2 DEF Environment, RecordSignal, RecordPositionExit, RecordLotExit, SignalAges,
                      CleanupStaleSignal, SetKillSwitch, LossReached, TimePasses
  <2>. QED  BY <1>2, <2>1, <2>2
<1>8. Same \/ \E p \in Executors : Place(p)
  BY <1>4, <1>5, <1>6, <1>7 DEF Next
<1>. QED  BY <1>8 DEF Same

\* Without a buy gone astray, what the account is exposed to is what the limits
\* count: the symbols held or with an unresolved buy order.
LEMMA ExposedCounted ==
  ASSUME IInv, ~Astray
  PROVE  Exposed \subseteq Active
<1>1. SUFFICES ASSUME NEW i \in BuyOrders, BrokerOpen(i) \/ orders[i].booked < orders[i].filled
               PROVE  orders[i].symbol \in UnresolvedSymbols("buy")
  BY DEF Exposed, Active
<1>2. /\ i \in Rows /\ orders[i].side = "buy" /\ OrderSound(i) /\ orders[i] \in OrderRow
      /\ orders[i].qty \in Nat /\ orders[i].filled \in Nat /\ orders[i].booked \in Nat
  BY OrderRows DEF IInv, TablesSound, OrdersSound, BuyOrders, Rows
<1>3. orders[i].status # "FILLED"
  BY <1>1, <1>2 DEF OrderSound, BrokerOpen
<1>4. orders[i].status # "CANCELLED"
  <2>1. ~orders[i].late
    BY DEF Astray
  <2>. QED  BY <1>1, <1>2, <2>1 DEF OrderSound, BrokerOpen
<1>5. orders[i].broker # "none"
  BY <1>1, <1>2 DEF OrderSound, BrokerOpen
<1>6. orders[i].status # "REJECTED" /\ orders[i].status # "FAILED"
  BY <1>2, <1>5 DEF Astray, OrderSound
<1>7. IsUnresolved(i)
  BY <1>2, <1>3, <1>4, <1>6 DEF OrderRow, IsUnresolved
<1>. QED  BY <1>2, <1>7, UnresolvedOf

\* Until two passes have overlapped or a buy has gone astray, the limits of the
\* buy side hold over all the passes and whatever the orders do between them.
THEOREM LimitsHold == Spec => BuysWithinLimits
<1>. DEFINE A == \/ overlapped'
                 \/ Astray'
                 \/ /\ Cardinality(Exposed') <= MaxHoldings
                    /\ \A i \in BuyOrders' \ BuyOrders :
                         /\ Worth(i, orders[i].qty)' <= cash
                         /\ Cardinality(Counted) < MaxDailyOrders
            Known == Astray \/ (Exposed \subseteq Active /\ IsFiniteSet(Active))
<1>1. ASSUME IInv PROVE Known
  BY <1>1, ExposedCounted, Finite DEF IInv
<1>2. ASSUME IInv, IInv', Known', [Next]_vars PROVE A
  <2>1. SUFFICES ASSUME ~overlapped', ~Astray'
                 PROVE  /\ Cardinality(Exposed') <= MaxHoldings
                        /\ \A i \in BuyOrders' \ BuyOrders :
                             /\ Worth(i, orders[i].qty)' <= cash
                             /\ Cardinality(Counted) < MaxDailyOrders
    OBVIOUS
  <2>2. /\ Typed /\ Len(orders) \in Nat /\ cash \in Nat /\ orders \in Seq(OrderRow)
        /\ DOMAIN orders = Rows
    BY <1>2, OrderRows DEF IInv, Typed
  <2>3. Cardinality(Exposed') <= MaxHoldings
    <3>1. Exposed' \subseteq Active' /\ IsFiniteSet(Active')
      BY <1>2, <2>1
    <3>2. Cardinality(Active') <= MaxHoldings
      BY <1>2, <2>1 DEF IInv
    <3>3. /\ Cardinality(Exposed') <= Cardinality(Active')
          /\ Cardinality(Exposed') \in Nat /\ Cardinality(Active') \in Nat
      BY <3>1, FS_Subset, FS_CardinalityType
    <3>. QED  BY <3>2, <3>3, Constants
  <2>4. ASSUME NEW i \in BuyOrders' \ BuyOrders
        PROVE  Worth(i, orders[i].qty)' <= cash /\ Cardinality(Counted) < MaxDailyOrders
    <3>1. i \in 1..Len(orders') /\ orders'[i].side = "buy"
      BY DEF BuyOrders
    <3>2. UNCHANGED vars \/ overlapped' = (overlapped \/ Overlap')
      BY <1>2 DEF Next
    <3>3. ~overlapped
      BY <2>1, <3>2 DEF vars
    <3>4. PICK p \in Executors : Place(p)
      <4>1. SUFFICES ASSUME ~\E p \in Executors : Place(p) PROVE FALSE
        OBVIOUS
      <4>2. /\ Len(orders') = Len(orders)
            /\ \A j \in Rows : orders'[j].side = orders[j].side
        BY <1>2, <4>1, NewOrders
      <4>. QED  BY <3>1, <4>2 DEF BuyOrders, Rows
    <3>5. PICK x : x = proc[p]
      OBVIOUS
    <3>6. /\ x \in Proc /\ Sound(x) /\ x.pc = "place" /\ x.signal \in Signals
          /\ SymbolOf[x.signal] \in Symbols
      <4>1. x \in Proc /\ Sound(x) /\ x.pc = "place"
        BY <1>2, <2>2, <3>4, <3>5 DEF IInv, Typed, Place, At
      <4>2. x.signal \in x.todo /\ x.todo \in SUBSET Signals
        BY <4>1 DEF Sound, WorkSound, Proc
      <4>. QED  BY <4>1, <4>2, Constants
    <3>7. PICK o : /\ orders' = Append(orders, o) /\ o.side = x.side
                   /\ o.qty = x.qty /\ o.symbol = SymbolOf[x.signal]
      BY <3>4, <3>5 DEF Place
    <3>8. /\ Len(orders') = Len(orders) + 1 /\ orders'[Len(orders) + 1] = o
          /\ \A j \in Rows : orders'[j] = orders[j]
      BY <2>2, <3>7 DEF Rows
    <3>9. i = Len(orders) + 1
      <4>1. i \notin Rows
        BY <3>1, <3>8 DEF BuyOrders, Rows
      <4>. QED  BY <2>2, <3>1, <3>8, <4>1 DEF Rows
    <3>10. ~Astray
      <4>1. SUFFICES ASSUME Astray PROVE FALSE
        OBVIOUS
      <4>2. PICK j \in BuyOrders :
              orders[j].late \/ (orders[j].status = "REJECTED" /\ orders[j].broker # "none")
        BY <4>1 DEF Astray
      <4>3. j \in Rows /\ orders'[j] = orders[j]
        BY <3>8 DEF BuyOrders, Rows
      <4>4. j \in 1..Len(orders')
        BY <2>2, <3>8, <4>3 DEF Rows
      <4>. QED  BY <2>1, <4>2, <4>3, <4>4 DEF Astray, BuyOrders
    <3>11. SnapshotSound(x) /\ x.side = "buy"
      BY <3>1, <3>3, <3>6, <3>7, <3>8, <3>9, <3>10 DEF Sound
    <3>12. /\ Cardinality(Counted) <= x.snapshot.count /\ x.snapshot.count < MaxDailyOrders
           /\ x.snapshot.cash <= cash
           /\ x.qty * Price[SymbolOf[x.signal]] <= x.snapshot.cash
      BY <3>6, <3>11 DEF SnapshotSound, CashLeft
    <3>13. /\ Cardinality(Counted) \in Nat /\ MaxDailyOrders \in Nat
           /\ x.snapshot.count \in Nat /\ x.snapshot.cash \in Nat /\ x.qty \in Nat
      BY <2>2, <3>6, Finite, FS_CardinalityType, Constants DEF Proc, SnapshotRecord
    <3>14. PICK c \in Nat : c = Price[SymbolOf[x.signal]]
      BY <3>6, Constants
    <3>15. Worth(i, orders[i].qty)' = x.qty * c
      BY <3>7, <3>8, <3>9, <3>14 DEF Worth
    <3>16. x.qty * c \in Nat
      BY <3>13
    <3>. QED  BY <2>2, <3>12, <3>13, <3>14, <3>15, <3>16
  <2>. QED  BY <2>3, <2>4
<1>3. ASSUME IInv, IInv', Known', [Next]_vars PROVE [A]_vars
  BY <1>2, <1>3
<1>. HIDE DEF A, Known
<1>4. Spec => [][A]_vars
  BY <1>1, <1>3, Inductive, PTL DEF Spec
<1>. QED  BY <1>4 DEF BuysWithinLimits, A
=============================================================================
