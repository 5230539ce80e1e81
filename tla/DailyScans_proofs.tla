--------------------------- MODULE DailyScans_proofs ---------------------------
(***************************************************************************)
(* Proofs about DailyScans, for any scanners, any universe, any number of   *)
(* days, bars and rules.                                                   *)
(*                                                                         *)
(* The inductive invariant says what a row that a scan has found needs of  *)
(* the rows already recorded (Admissible), which later rows do not take    *)
(* away, and, as long as no two scans have overlapped, that nothing speaks *)
(* against it (Fresh).                                                     *)
(***************************************************************************)
EXTENDS DailyScans, Sums_proofs

-----------------------------------------------------------------------------
(* The inductive invariant                                                 *)

ScanRow ==
  [kind : Kinds \union {"none"}, day : 0..Days, todo : SUBSET Symbols, seen : SUBSET Row,
   found : SUBSET Row, store : SUBSET (Symbols \X SUBSET (1..Slots)), answer : SUBSET (1..Slots)]

Typed ==
  /\ now \in Moments
  /\ market \subseteq MayConverge
  /\ bars \in [Symbols -> [1..Days -> SUBSET (1..Slots)]]
  /\ rows \subseteq Row
  /\ scan \in [Scanners -> ScanRow]
  /\ overlapped \in BOOLEAN
  /\ IsFiniteSet(rows)

\* Bars of day d that are complete by now.
Complete(d, slots) == \A i \in slots : d < Today \/ (d = Today /\ i <= CompletedAt[Part])

BarsSound == \A s \in Symbols, d \in 1..Days : Complete(d, bars[s][d])

IsEntry(row) == row.strategy \in {"timing1_trigger", "timing1_expired"}
IsConvergence(row) == row.strategy = "timing1_convergence"

\* An entry of timing 1 tells of a convergence recorded on the day before.
FromConvergence(row) ==
  /\ row.conv = row.date - 1
  /\ \E c \in rows : /\ c.symbol = row.symbol /\ IsConvergence(c)
                    /\ c.conv = row.conv /\ c.date = row.conv

\* What the order of the stages asks of a row.
Follows(row) ==
  /\ row.strategy = "timing1_trigger" => FromConvergence(row)
  /\ row.strategy = "timing2_trigger" => Has(row.symbol, "timing2_pullback", row.date)
  /\ row.strategy = "timing2_pullback" => Has(row.symbol, "timing2_breakout", row.date)

RowSound(row) ==
  /\ row.date <= Today
  /\ IsConvergence(row) => row.conv <= row.date /\ (row.date < Today \/ now[2] = 4)
  /\ Follows(row)

OnceEach == \A row \in rows : row.nth = 1

Exclusive ==
  \A r1, r2 \in rows : r1.symbol = r2.symbol /\ r1.date = r2.date =>
    /\ ~(r1.strategy = "timing1_trigger" /\ r2.strategy = "timing1_expired")
    /\ ~(r1.strategy = "timing2_trigger" /\ r2.strategy = "timing2_expired")

RowsSound ==
  /\ \A row \in rows : RowSound(row)
  /\ ~overlapped => OnceEach /\ Exclusive

\* What a row that was found needs of the rows recorded before it.
Admissible(row) ==
  /\ row.nth = 1
  /\ IsConvergence(row) => row.conv <= row.date
  /\ Follows(row)

\* What they may not say.
Fresh(row) ==
  /\ ~Has(row.symbol, row.strategy, row.date)
  /\ IsEntry(row) => ~Timing1Done(rows, row.symbol, row.date)
  /\ row.strategy = "timing2_trigger" => ~Has(row.symbol, "timing2_expired", row.date)
  /\ row.strategy = "timing2_expired" => ~Has(row.symbol, "timing2_trigger", row.date)

\* A scan under way: what it goes by still holds, and without another scan
\* everything is still as it read it.
ScanSound(r) ==
  /\ r.kind # "none" => r.day \in 1..Today
  /\ r.kind = "none" => r.found = {}
  /\ IsFiniteSet(r.found)
  /\ r.kind # "bar_refresh" => r.answer = {}
  /\ Complete(r.day, r.answer)
  /\ \A x \in r.store : Complete(r.day, x[2])
  /\ r.seen \subseteq rows
  /\ ~overlapped /\ r.kind \in {"timing1_intraday", "timing2_intraday"} => r.seen = rows
  /\ r.kind = "timing1_intraday" => \A s \in r.todo : HasConverged(r.seen, s, r.day)
  /\ r.kind = "timing1_convergence" => r.day < Today \/ now[2] = 4
  /\ \A row \in r.found :
       /\ row.date = r.day /\ row.symbol \notin r.todo /\ Admissible(row)
       /\ IsConvergence(row) <=> r.kind = "timing1_convergence"
       /\ ~overlapped => Fresh(row)
  /\ \A r1, r2 \in r.found : r1.symbol = r2.symbol => r1 = r2

IInv ==
  /\ Typed /\ BarsSound /\ RowsSound
  /\ \A p \in Scanners : ScanSound(scan[p])
  /\ Overlap => overlapped

\* The history variable goes on.
Noted == overlapped' \in BOOLEAN /\ (overlapped => overlapped') /\ (Overlap' => overlapped')

-----------------------------------------------------------------------------
(* The clock, the universe and the rows                                    *)

LEMMA Constants ==
  /\ Days \in Nat /\ Days > 0 /\ Slots \in Nat /\ Slots > 0 /\ MinBars \in Nat
  /\ ToSet(Parts) = {"preopen", "morning", "afternoon", "closed"} /\ Len(Parts) = 4
  /\ Parts[1] = "preopen" /\ Parts[2] = "morning" /\ Parts[3] = "afternoon" /\ Parts[4] = "closed"
  /\ \A part \in ToSet(Parts) : CompletedAt[part] \in 0..Slots
  /\ CompletedAt["closed"] = Slots
  /\ Held \subseteq Symbols
<1>1. /\ Len(Parts) = 4 /\ DOMAIN Parts = 1..4
      /\ Parts[1] = "preopen" /\ Parts[2] = "morning" /\ Parts[3] = "afternoon" /\ Parts[4] = "closed"
  BY DEF Parts
<1>2. ToSet(Parts) = {"preopen", "morning", "afternoon", "closed"}
  <2>1. ToSet(Parts) = {Parts[i] : i \in 1..4}
    BY <1>1 DEF ToSet
  <2>. QED  BY <1>1, <2>1
<1>. QED  BY <1>1, <1>2, ScansAssumption

LEMMA Clock ==
  ASSUME now \in Moments
  PROVE  /\ Today \in 1..Days /\ now[2] \in 1..4 /\ now = <<Today, now[2]>>
         /\ Part \in ToSet(Parts) /\ CompletedAt[Part] \in 0..Slots
         /\ Part = "closed" <=> now[2] = 4
         /\ CompletedSlots \subseteq 1..Slots /\ (Part = "closed" => CompletedSlots = 1..Slots)
<1>1. Today \in 1..Days /\ now[2] \in 1..4 /\ now = <<Today, now[2]>>
  BY Constants DEF Moments, Today
<1>2. now[2] = 1 \/ now[2] = 2 \/ now[2] = 3 \/ now[2] = 4
  BY <1>1
<1>3. Part \in ToSet(Parts) /\ (Part = "closed" <=> now[2] = 4)
  BY <1>2, Constants DEF Part
<1>. QED  BY <1>1, <1>3, Constants DEF CompletedSlots

\* The bars of a day that are complete stay so.
LEMMA ClockGoesOn ==
  ASSUME now \in Moments, TimePasses
  PROVE  /\ now' \in Moments
         /\ \/ Today' = Today /\ now[2]' = now[2] + 1 /\ now[2] < 4
            \/ Today' = Today + 1 /\ now[2]' = 1 /\ now[2] = 4
         /\ Today' = Today => CompletedAt[Part] <= CompletedAt[Part']
<1>1. Today \in 1..Days /\ now[2] \in 1..4 /\ now = <<Today, now[2]>>
  BY Clock
<1>2. \/ /\ now[2] < 4 /\ now' = <<Today, now[2] + 1>>
      \/ /\ now[2] = 4 /\ Today < Days /\ now' = <<Today + 1, 1>>
  BY Constants DEF TimePasses, Today
<1>3. /\ \/ Today' = Today /\ now[2]' = now[2] + 1 /\ now[2] < 4
         \/ Today' = Today + 1 /\ now[2]' = 1 /\ now[2] = 4
      /\ now' \in Moments
  BY <1>1, <1>2, Constants DEF Today, Moments
<1>4. ASSUME Today' = Today PROVE CompletedAt[Part] <= CompletedAt[Part']
  <2>1. now[2] \in 1..4 /\ now[2]' \in 1..4 /\ now[2] <= now[2]'
    BY <1>1, <1>3, <1>4
  <2>2. \A i, j \in 1..4 : i <= j => CompletedAt[Parts[i]] <= CompletedAt[Parts[j]]
    BY ScansAssumption, Constants
  <2>. QED  BY <2>1, <2>2 DEF Part
<1>. QED  BY <1>3, <1>4

LEMMA FirstIn ==
  ASSUME NEW todo \in SUBSET Symbols, todo # {}
  PROVE  First(todo) \in todo
<1>1. \A s \in Symbols : Place(s) \in DOMAIN Universe
  BY DEF Symbols, ToSet, Place
<1>2. DOMAIN Universe \subseteq Nat
  BY ScansAssumption
<1>3. PICK T : T = {Place(s) : s \in todo}
  OBVIOUS
<1>4. T \in SUBSET Nat /\ T # {}
  BY <1>1, <1>2, <1>3
<1>5. Min(T) \in T /\ \A y \in T : Min(T) <= y
  BY <1>4, NatMin
<1>6. PICK s \in todo : Place(s) = Min(T)
  BY <1>3, <1>5
<1>7. \A r \in todo : Place(s) <= Place(r)
  BY <1>3, <1>5, <1>6
<1>. QED  BY <1>7, Zenon DEF First

LEMMA RowFields ==
  \A row \in Row : /\ row.symbol \in Symbols /\ row.strategy \in Strategies
                   /\ row.date \in 1..Days /\ row.conv \in 0..Days
                   /\ row.high \in SUBSET (1..Slots) /\ row.nth \in Nat
BY DEF Row

LEMMA Names ==
  /\ {"timing1_setup", "timing2_setup", "timing1_convergence", "timing1_trigger",
      "timing1_expired", "timing2_breakout", "timing2_pullback", "timing2_trigger",
      "timing2_expired", "sell_macd"} \subseteq Strategies
  /\ Setups = {"timing1_setup", "timing2_setup"}
  /\ Kinds = {"timing1_setup", "timing2_setup", "timing1_convergence", "timing1_intraday",
              "timing2_intraday", "bar_refresh", "sell_macd"}
<1>1. /\ DOMAIN Timing2Stages = 1..3 /\ Timing2Stages[1] = "timing2_breakout"
      /\ Timing2Stages[2] = "timing2_pullback" /\ Timing2Stages[3] = "timing2_trigger"
  BY DEF Timing2Stages
<1>2. {"timing2_breakout", "timing2_pullback", "timing2_trigger"} \subseteq ToSet(Timing2Stages)
  <2>1. ToSet(Timing2Stages) = {Timing2Stages[i] : i \in 1..3}
    BY <1>1 DEF ToSet
  <2>. QED  BY <1>1, <2>1
<1>. QED  BY <1>2 DEF Strategies, Setups, Kinds

LEMMA NewRow ==
  ASSUME NEW s \in Symbols, NEW strategy \in Strategies, NEW date \in 1..Days,
         NEW conv \in 0..Days, NEW high \in SUBSET (1..Slots)
  PROVE  LET row == RowOf(s, strategy, date, conv, high)
         IN  /\ row \in Row /\ row.symbol = s /\ row.strategy = strategy /\ row.date = date
             /\ row.conv = conv /\ row.high = high /\ row.nth = 1
BY DEF RowOf, Row

LEMMA ScanFields ==
  \A r \in ScanRow :
    /\ r.kind \in Kinds \union {"none"} /\ r.day \in 0..Days /\ r.todo \in SUBSET Symbols
    /\ r.seen \in SUBSET Row /\ r.found \in SUBSET Row
    /\ r.store \in SUBSET (Symbols \X SUBSET (1..Slots)) /\ r.answer \in SUBSET (1..Slots)
BY DEF ScanRow

LEMMA IdleSound ==
  /\ Idle \in ScanRow /\ Idle.kind = "none" /\ Idle.day = 0 /\ Idle.todo = {} /\ Idle.found = {}
  /\ Idle.store = {} /\ Idle.answer = {} /\ Idle.seen = {}
  /\ ScanSound(Idle)
<1>1. /\ Idle.kind = "none" /\ Idle.day = 0 /\ Idle.todo = {} /\ Idle.found = {}
      /\ Idle.store = {} /\ Idle.answer = {} /\ Idle.seen = {}
  BY DEF Idle
<1>2. Idle \in ScanRow
  BY Constants DEF Idle, ScanRow
<1>. QED  BY <1>1, <1>2, FS_EmptySet DEF ScanSound, Complete

\* The newest convergence of a symbol is among those recorded.
LEMMA NewestConvergence ==
  ASSUME NEW table \in SUBSET Row, NEW s, NEW date, HasConverged(table, s, date)
  PROVE  LET c == ConvergenceRow(table, s, date)
         IN  c \in table /\ c.symbol = s /\ IsConvergence(c) /\ c.conv < date
<1>1. PICK E : E = {row \in table : /\ row.symbol = s
                                    /\ row.strategy = "timing1_convergence"
                                    /\ row.conv < date}
  OBVIOUS
<1>2. E # {} /\ \A row \in E : row.date \in Nat /\ row.date <= Days
  BY <1>1, RowFields, Constants DEF HasConverged
<1>3. PICK T : T = {row.date : row \in E}
  OBVIOUS
<1>4. T \in SUBSET Nat /\ T # {} /\ \A y \in T : y <= Days
  BY <1>2, <1>3
<1>5. Max(T) \in T /\ \A y \in T : y <= Max(T)
  BY <1>4, NatMax, Constants
<1>6. PICK c \in E : \A r \in E : r.date <= c.date
  BY <1>3, <1>5
<1>7. ConvergenceRow(table, s, date) = CHOOSE row \in E : \A r \in E : r.date <= row.date
  BY <1>1, Zenon DEF ConvergenceRow
<1>8. ConvergenceRow(table, s, date) \in E
  BY <1>6, <1>7, Zenon
<1>. QED  BY <1>1, <1>8 DEF IsConvergence

-----------------------------------------------------------------------------
(* Steps of a scan that record nothing                                     *)

LEMMA RowsGrow ==
  ASSUME rows \subseteq rows'
  PROVE  /\ \A row : Follows(row) => Follows(row)'
         /\ \A row : Admissible(row) => Admissible(row)'
<1>1. \A s, strategy, d : Has(s, strategy, d) => Has(s, strategy, d)'
  BY DEF Has, IsRecorded
<1>2. \A row : FromConvergence(row) => FromConvergence(row)'
  BY DEF FromConvergence, IsConvergence
<1>3. \A row : Follows(row) => Follows(row)'
  BY <1>1, <1>2 DEF Follows
<1>4. \A row : Admissible(row) => Admissible(row)'
  BY <1>3 DEF Admissible, IsConvergence
<1>. QED  BY <1>3, <1>4

LEMMA RowsUnmoved ==
  ASSUME UNCHANGED rows
  PROVE  \A row : Fresh(row) => Fresh(row)'
<1>1. \A s, strategy, d : Has(s, strategy, d)' <=> Has(s, strategy, d)
  BY DEF Has
<1>2. \A s, d : Timing1Done(rows, s, d)' <=> Timing1Done(rows, s, d)
  BY DEF Timing1Done
<1>. QED  BY <1>1, <1>2 DEF Fresh, IsEntry

\* A scan that did not move stays sound while the rows grow, if nothing it
\* found could have been recorded meanwhile.
LEMMA StillSound ==
  ASSUME NEW r \in ScanRow, ScanSound(r), Noted, rows \subseteq rows',
         UNCHANGED now, UNCHANGED rows \/ overlapped' \/ r.kind = "none"
  PROVE  ScanSound(r)'
<1>1. Today' = Today /\ \A d, slots : Complete(d, slots)' <=> Complete(d, slots)
  BY DEF Complete, Today, Part
<1>2. \A row : IsConvergence(row)' <=> IsConvergence(row)
  BY DEF IsConvergence
<1>3. \A row \in r.found :
        /\ row.date = r.day /\ row.symbol \notin r.todo /\ Admissible(row)'
        /\ IsConvergence(row) <=> r.kind = "timing1_convergence"
  BY RowsGrow DEF ScanSound
<1>4. ASSUME ~overlapped', NEW row \in r.found PROVE Fresh(row)'
  <2>1. r.kind # "none" /\ ~overlapped /\ UNCHANGED rows
    BY <1>4 DEF ScanSound, Noted
  <2>. QED  BY <1>4, <2>1, RowsUnmoved DEF ScanSound
<1>5. ~overlapped' /\ r.kind \in {"timing1_intraday", "timing2_intraday"} => r.seen = rows'
  BY DEF ScanSound, Noted
<1>. QED  BY <1>1, <1>2, <1>3, <1>4, <1>5 DEF ScanSound

\* After a step of p, which goes on as r.
LEMMA ScannersAfter ==
  ASSUME IInv, Noted, NEW p \in Scanners, NEW r \in ScanRow, Goes(p, r), ScanSound(r)',
         rows \subseteq rows', UNCHANGED now, UNCHANGED rows \/ scan[p].kind # "none"
  PROVE  /\ scan' \in [Scanners -> ScanRow]
         /\ (\A q \in Scanners : ScanSound(scan[q]))'
<1>1. /\ scan \in [Scanners -> ScanRow] /\ scan' \in [Scanners -> ScanRow] /\ scan'[p] = r
      /\ \A q \in Scanners : q # p => scan'[q] = scan[q]
  BY DEF IInv, Typed, Goes
<1>2. ASSUME NEW q \in Scanners PROVE ScanSound(scan[q])'
  <2>1. CASE q = p
    BY <1>1, <2>1
  <2>2. CASE q # p
    <3>1. PICK x \in ScanRow : x = scan[q] /\ x = scan'[q] /\ ScanSound(x)
      BY <1>1, <2>2 DEF IInv
    <3>2. UNCHANGED rows \/ overlapped' \/ x.kind = "none"
      BY <2>2, <3>1 DEF IInv, Overlap, Noted
    <3>3. ScanSound(x)'
      BY <3>1, <3>2, StillSound
    <3>. QED  BY <3>1, <3>3
  <2>. QED  BY <2>1, <2>2
<1>. QED  BY <1>1, <1>2

LEMMA RowsKept ==
  ASSUME IInv, Noted, UNCHANGED <<now, rows>>
  PROVE  RowsSound'
<1>1. \A row \in rows : RowSound(row)'
  BY RowsGrow DEF IInv, RowsSound, RowSound, Today, IsConvergence
<1>2. ~overlapped' => (OnceEach /\ Exclusive)'
  BY DEF IInv, RowsSound, OnceEach, Exclusive, Noted
<1>. QED  BY <1>1, <1>2 DEF RowsSound

LEMMA GoesKeeps ==
  ASSUME IInv, Noted, NEW p \in Scanners, NEW r \in ScanRow, Goes(p, r),
         UNCHANGED <<now, market, bars, rows>>, ScanSound(r)
  PROVE  IInv'
<1>1. ScanSound(r)'
  BY StillSound
<1>2. scan' \in [Scanners -> ScanRow] /\ (\A q \in Scanners : ScanSound(scan[q]))'
  BY <1>1, ScannersAfter
<1>3. Typed'
  BY <1>2 DEF IInv, Typed, Noted
<1>4. BarsSound'
  BY DEF IInv, BarsSound, Complete, Today, Part
<1>. QED  BY <1>2, <1>3, <1>4, RowsKept DEF IInv, Noted

LEMMA AbortKeeps ==
  ASSUME IInv, Noted, NEW p \in Scanners, Goes(p, Idle),
         UNCHANGED <<now, market, bars, rows>>
  PROVE  IInv'
BY IdleSound, GoesKeeps

LEMMA Current_In ==
  ASSUME IInv, NEW p \in Scanners
  PROVE  /\ scan[p] \in ScanRow /\ ScanSound(scan[p])
         /\ Others(p) \in SUBSET Symbols
         /\ scan[p].todo # {} => /\ Current(p) \in Symbols /\ Current(p) \in scan[p].todo
                                 /\ Current(p) \notin Others(p) /\ Others(p) \subseteq scan[p].todo
<1>1. scan[p] \in ScanRow /\ scan[p].todo \in SUBSET Symbols
  BY ScanFields DEF IInv, Typed
<1>2. scan[p].todo # {} => Current(p) \in scan[p].todo
  BY <1>1, FirstIn DEF Current
<1>. QED  BY <1>1, <1>2 DEF IInv, Others

LEMMA BeginKeeps ==
  ASSUME IInv, Noted, NEW p \in Scanners, NEW kind \in Kinds, NEW targets \in SUBSET Symbols,
         NEW seen \in SUBSET Row, Begin(p, kind, targets, seen), seen \subseteq rows,
         kind \in {"timing1_intraday", "timing2_intraday"} => seen = rows,
         kind = "timing1_intraday" => \A s \in targets : HasConverged(seen, s, Today),
         kind = "timing1_convergence" => Part = "closed"
  PROVE  IInv'
<1>1. Today \in 1..Days /\ (Part = "closed" => now[2] = 4)
  BY Clock DEF IInv, Typed
<1>2. PICK r : r = [Idle EXCEPT !.kind = kind, !.day = Today, !.todo = targets, !.seen = seen]
  OBVIOUS
<1>3. /\ r.kind = kind /\ r.day = Today /\ r.todo = targets /\ r.seen = seen
      /\ r.found = {} /\ r.store = {} /\ r.answer = {}
  BY <1>2 DEF Idle
<1>4. r \in ScanRow
  <2>1. r = [kind |-> kind, day |-> Today, todo |-> targets, seen |-> seen, found |-> {},
             store |-> {}, answer |-> {}]
    BY <1>2 DEF Idle
  <2>2. Today \in 0..Days
    BY <1>1, Constants
  <2>. QED  BY <2>1, <2>2 DEF ScanRow
<1>5. ScanSound(r)
  BY <1>1, <1>3, Names, FS_EmptySet DEF ScanSound, Complete
<1>. QED  BY <1>2, <1>4, <1>5, GoesKeeps DEF Begin

LEMMA BeginsKeep ==
  ASSUME IInv, Noted, NEW p \in Scanners,
         \/ BeginTiming1Setup(p) \/ BeginTiming2Setup(p) \/ BeginConvergence(p)
         \/ BeginTiming1Intraday(p) \/ BeginTiming2Intraday(p)
         \/ BeginSellMacd(p) \/ BeginBarRefresh(p)
  PROVE  IInv'
<1>1. rows \in SUBSET Row /\ {} \in SUBSET Row /\ Held \in SUBSET Symbols
  BY Constants DEF IInv, Typed
<1>2. /\ ConvergenceTargets \in SUBSET Symbols /\ Timing1Targets \in SUBSET Symbols
      /\ Timing2Targets \in SUBSET Symbols
      /\ \A s \in Timing1Targets : HasConverged(rows, s, Today)
  BY DEF ConvergenceTargets, Timing1Targets, Timing2Targets
<1>3. CASE BeginTiming1Setup(p) \/ BeginTiming2Setup(p)
  BY <1>1, <1>3, BeginKeeps, Names DEF BeginTiming1Setup, BeginTiming2Setup
<1>4. CASE BeginConvergence(p)
  BY <1>1, <1>2, <1>4, BeginKeeps, Names DEF BeginConvergence
<1>5. CASE BeginTiming1Intraday(p)
  BY <1>1, <1>2, <1>5, BeginKeeps, Names DEF BeginTiming1Intraday
<1>6. CASE BeginTiming2Intraday(p)
  BY <1>1, <1>2, <1>6, BeginKeeps, Names DEF BeginTiming2Intraday
<1>7. CASE BeginSellMacd(p) \/ BeginBarRefresh(p)
  BY <1>1, <1>7, BeginKeeps, Names DEF BeginSellMacd, BeginBarRefresh
<1>. QED  BY <1>3, <1>4, <1>5, <1>6, <1>7

-----------------------------------------------------------------------------
(* One symbol is visited                                                   *)

\* What a scan may add to what it has found and to what it will store.
Addable(p, row) ==
  /\ row \in Row /\ row.symbol = Current(p) /\ row.date = scan[p].day /\ Admissible(row)
  /\ IsConvergence(row) <=> scan[p].kind = "timing1_convergence"
  /\ ~overlapped => Fresh(row)

Storable(p, x) ==
  /\ x \in {Current(p)} \X SUBSET (1..Slots) /\ Complete(scan[p].day, x[2])

LEMMA VisitedKeeps ==
  ASSUME IInv, Noted, NEW p \in Scanners, scan[p].todo # {},
         scan[p].kind \notin {"none", "bar_refresh"}, NEW new, NEW store, Visited(p, new, store), UNCHANGED <<now, market, bars, rows>>,
         \A row \in new : Addable(p, row), \A r1, r2 \in new : r1 = r2,
         \A x \in store : Storable(p, x)
  PROVE  IInv'
<1>1. PICK r : r = [scan[p] EXCEPT !.todo = Others(p), !.found = scan[p].found \union new,
                                   !.store = scan[p].store \union store]
  OBVIOUS
<1>2. CASE Goes(p, Idle)
  BY <1>2, AbortKeeps
<1>3. CASE Goes(p, r)
  <2>1. PICK q \in ScanRow : q = scan[p]
    BY Current_In
  <2>2. /\ r.kind = q.kind /\ r.day = q.day /\ r.todo = Others(p) /\ r.seen = q.seen
        /\ r.found = q.found \union new /\ r.store = q.store \union store /\ r.answer = q.answer
    BY <1>1, <2>1 DEF ScanRow
  <2>3. /\ Current(p) \in Symbols /\ Current(p) \in q.todo /\ Current(p) \notin Others(p)
        /\ Others(p) \subseteq q.todo /\ Others(p) \in SUBSET Symbols
    BY <2>1, Current_In
  <2>4. r \in ScanRow
    <3>1. r.found \in SUBSET Row
      BY <2>2, ScanFields DEF Addable
    <3>2. r.store \in SUBSET (Symbols \X SUBSET (1..Slots))
      <4>1. store \subseteq Symbols \X SUBSET (1..Slots)
        BY <2>3 DEF Storable
      <4>. QED  BY <2>2, <4>1, ScanFields
    <3>. QED  BY <1>1, <2>1, <2>2, <2>3, <3>1, <3>2 DEF ScanRow
  <2>5. ScanSound(q)
    BY <2>1 DEF IInv
  <2>6. ScanSound(r)
    <3>1. \A x \in r.store : Complete(r.day, x[2])
      BY <2>1, <2>2, <2>5 DEF ScanSound, Storable
    <3>2. \A row \in new : /\ row.symbol = Current(p) /\ row.date = q.day /\ Admissible(row)
                           /\ IsConvergence(row) <=> q.kind = "timing1_convergence"
                           /\ ~overlapped => Fresh(row)
      BY <2>1 DEF Addable
    <3>3. \A row \in q.found : /\ row.date = q.day /\ row.symbol \notin q.todo /\ Admissible(row)
                               /\ IsConvergence(row) <=> q.kind = "timing1_convergence"
                               /\ ~overlapped => Fresh(row)
      BY <2>5 DEF ScanSound
    <3>4. \A row \in r.found :
            /\ row.date = r.day /\ row.symbol \notin r.todo /\ Admissible(row)
            /\ IsConvergence(row) <=> r.kind = "timing1_convergence"
            /\ ~overlapped => Fresh(row)
      BY <2>2, <2>3, <3>2, <3>3
    <3>5. \A r1, r2 \in r.found : r1.symbol = r2.symbol => r1 = r2
      <4>1. \A r1, r2 \in q.found : r1.symbol = r2.symbol => r1 = r2
        BY <2>5 DEF ScanSound
      <4>. QED  BY <2>2, <2>3, <3>2, <3>3, <4>1
    <3>6. r.kind # "none" /\ (r.kind = "timing1_intraday" =>
                                \A s \in r.todo : HasConverged(r.seen, s, r.day))
      BY <2>1, <2>2, <2>3, <2>5 DEF ScanSound
    <3>7. IsFiniteSet(r.found)
      <4>1. new = {} \/ \E x : new = {x}
        OBVIOUS
      <4>2. IsFiniteSet(new) /\ IsFiniteSet(q.found)
        <5>1. IsFiniteSet({}) /\ \A x : IsFiniteSet({x})
          BY FS_EmptySet, FS_Singleton, Zenon
        <5>2. IsFiniteSet(new)
          BY <4>1, <5>1, Zenon
        <5>. QED  BY <2>5, <5>2 DEF ScanSound
      <4>3. IsFiniteSet(q.found \cup new)
        BY <4>2, FS_Union, Zenon
      <4>. QED  BY <2>2, <4>3
    <3>. QED  BY <2>2, <2>5, <3>1, <3>4, <3>5, <3>6, <3>7 DEF ScanSound
  <2>. QED  BY <1>3, <2>4, <2>6, GoesKeeps
<1>. QED  BY <1>1, <1>2, <1>3 DEF Visited

LEMMA AtWork ==
  ASSUME IInv, NEW p \in Scanners, NEW kinds \in SUBSET Kinds, Does(p, kinds)
  PROVE  /\ scan[p].kind \in kinds /\ scan[p].todo # {}
         /\ Current(p) \in Symbols /\ Current(p) \in scan[p].todo
         /\ scan[p].day \in 1..Days /\ scan[p].day \in 1..Today
<1>1. scan[p].kind \in kinds /\ scan[p].todo # {} /\ scan[p].kind # "none"
  BY Names DEF Does
<1>2. scan[p].day \in 1..Today /\ scan[p].day \in 0..Days
  BY <1>1, Current_In, ScanFields DEF ScanSound
<1>3. Today \in 1..Days
  BY Clock DEF IInv, Typed
<1>. QED  BY <1>1, <1>2, <1>3, Current_In

LEMMA VisitOnceKeeps ==
  ASSUME IInv, Noted, NEW p \in Scanners,
         NEW kind \in {"timing1_setup", "timing2_setup", "sell_macd"}, NEW may,
         VisitOnce(p, kind, may)
  PROVE  IInv'
<1>1. /\ scan[p].kind = kind /\ scan[p].todo # {} /\ Current(p) \in Symbols
      /\ scan[p].day \in 1..Days
  BY AtWork, Names DEF VisitOnce
<1>2. PICK row : row = PlainRow(Current(p), kind, scan[p].day)
  OBVIOUS
<1>3. /\ row \in Row /\ row.symbol = Current(p) /\ row.strategy = kind /\ row.date = scan[p].day
      /\ row.nth = 1
  <2>1. 0 \in 0..Days /\ kind \in Strategies /\ {} \in SUBSET (1..Slots)
    BY Names, Constants
  <2>. QED  BY <1>1, <1>2, <2>1, NewRow DEF PlainRow
<1>4. ~IsRecorded(rows, Current(p), kind, scan[p].day) => Addable(p, row)
  BY <1>1, <1>3 DEF Addable, Admissible, Follows, Fresh, Has, IsConvergence, IsEntry
<1>5. PICK new : /\ Visited(p, new, {})
                 /\ new = {} \/ (new = {row} /\ ~IsRecorded(rows, Current(p), kind, scan[p].day))
  BY <1>2 DEF VisitOnce
<1>. QED  BY <1>1, <1>4, <1>5, VisitedKeeps DEF VisitOnce

LEMMA ConvergenceBars ==
  ASSUME NEW s, NEW day \in 1..Days, NEW answer \in SUBSET (1..Slots)
  PROVE  /\ \A bar \in Convergences(s, day, answer) :
              /\ bar \in (1..Days) \X (1..Slots) /\ bar[1] \in 1..day
         /\ \A b1, b2 \in Convergences(s, day, answer) : b1 = b2
         /\ {i \in 1..Slots : <<day, i>> \in History(s, day, answer)} = answer
<1>1. \A bar \in History(s, day, answer) :
        bar \in (1..Days) \X (1..Slots) /\ bar[1] \in 1..Days /\ bar[2] \in 1..Slots
        /\ bar = <<bar[1], bar[2]>> /\ (bar[1] = day \/ bar[1] < day)
  BY DEF History
<1>2. Convergences(s, day, answer) \subseteq History(s, day, answer)
  BY DEF Convergences
<1>3. \A b1, b2 \in Convergences(s, day, answer) : Older(b1, b2) /\ Older(b2, b1)
  BY DEF Convergences
<1>4. \A b1, b2 \in History(s, day, answer) : Older(b1, b2) /\ Older(b2, b1) => b1 = b2
  <2>1. SUFFICES ASSUME NEW b1 \in History(s, day, answer), NEW b2 \in History(s, day, answer),
                        Older(b1, b2), Older(b2, b1)
                 PROVE  b1 = b2
    OBVIOUS
  <2>2. b1[1] = b2[1] /\ b1[2] = b2[2]
    BY <1>1, <2>1, Constants DEF Older
  <2>. QED  BY <1>1, <2>2
<1>5. {i \in 1..Slots : <<day, i>> \in History(s, day, answer)} = answer
  <2>1. \A i \in 1..Slots : <<day, i>> \in History(s, day, answer) <=> i \in answer
    BY DEF History
  <2>. QED  BY <2>1
<1>6. \A bar \in History(s, day, answer) : bar[1] \in 1..day
  BY <1>1, Constants
<1>. QED  BY <1>1, <1>2, <1>3, <1>4, <1>5, <1>6

LEMMA AnswersInTime ==
  ASSUME now \in Moments, NEW kind, NEW answer \in Answers(kind)
  PROVE  /\ CompletedSlots \subseteq 1..Slots /\ answer \subseteq CompletedSlots
         /\ answer \in SUBSET (1..Slots)
<1>1. CompletedAt[Part] \in 0..Slots /\ CompletedSlots = 1..CompletedAt[Part]
  BY Clock DEF CompletedSlots
<1>2. answer = CompletedSlots \/ \E first \in 1..(Slots + 1) : answer = first..CompletedAt[Part]
  BY DEF Answers
<1>3. answer \subseteq CompletedSlots
  BY <1>1, <1>2, Constants
<1>. QED  BY <1>1, <1>3, Constants

LEMMA VisitConvergenceKeeps ==
  ASSUME IInv, Noted, NEW p \in Scanners, VisitConvergence(p)
  PROVE  IInv'
<1>1. /\ scan[p].kind = "timing1_convergence" /\ scan[p].todo # {} /\ Current(p) \in Symbols
      /\ scan[p].day \in 1..Days /\ Today = scan[p].day
  BY AtWork, Names DEF VisitConvergence
<1>2. PICK s \in Symbols : s = Current(p)
  BY <1>1
<1>3. PICK day \in 1..Days : day = scan[p].day
  BY <1>1
<1>4. PICK answer \in Answers("timing1_convergence") :
        Visited(p, ConvergenceRows(s, day, answer), {<<s, answer>>})
  BY <1>2, <1>3 DEF VisitConvergence
<1>5. /\ CompletedSlots \subseteq 1..Slots /\ answer \subseteq CompletedSlots
      /\ answer \in SUBSET (1..Slots)
  BY AnswersInTime DEF IInv, Typed
<1>6. PICK new : new = ConvergenceRows(s, day, answer)
  OBVIOUS
<1>7. PICK HighOf : HighOf = [d \in 1..Days |->
                                {i \in 1..Slots : <<d, i>> \in History(s, day, answer)}]
  OBVIOUS
<1>8. ASSUME NEW row \in new
      PROVE  /\ ~IsRecorded(rows, s, "timing1_convergence", day)
             /\ row \in Row /\ row.symbol = s /\ row.date = day /\ row.nth = 1
             /\ row.strategy = "timing1_convergence"
             /\ row.conv \in 1..day /\ row.conv <= row.date /\ row.high = HighOf[row.conv]
             /\ row = RowOf(s, "timing1_convergence", day, row.conv, HighOf[row.conv])
             /\ \E bar \in Convergences(s, day, answer) : row.conv = bar[1]
  <2>1. ~IsRecorded(rows, s, "timing1_convergence", day)
    BY <1>6, <1>8 DEF ConvergenceRows
  <2>2. PICK bar \in Convergences(s, day, answer) :
          row = RowOf(s, "timing1_convergence", day, bar[1],
                      {i \in 1..Slots : <<bar[1], i>> \in History(s, day, answer)})
    BY <1>6, <1>8, <2>1 DEF ConvergenceRows
  <2>3. PICK conv \in 1..day : conv = bar[1]
    BY <1>5, <2>2, ConvergenceBars
  <2>4. conv \in 0..Days /\ conv \in 1..Days /\ conv <= day
    BY <2>3, Constants
  <2>5. PICK high \in SUBSET (1..Slots) : high = HighOf[conv]
    BY <1>7, <2>4
  <2>6. row = RowOf(s, "timing1_convergence", day, conv, high)
    BY <1>7, <2>2, <2>3, <2>4, <2>5
  <2>7. /\ row \in Row /\ row.symbol = s /\ row.date = day /\ row.nth = 1
        /\ row.strategy = "timing1_convergence" /\ row.conv = conv /\ row.high = high
    <3>1. "timing1_convergence" \in Strategies
      BY Names
    <3>. QED  BY <2>4, <2>6, <3>1 DEF RowOf, Row
  <2>. QED  BY <2>1, <2>3, <2>4, <2>5, <2>6, <2>7
<1>9. \A row \in new : Addable(p, row)
  <2>1. SUFFICES ASSUME NEW row \in new PROVE Addable(p, row)
    OBVIOUS
  <2>2. /\ row \in Row /\ row.symbol = s /\ row.date = day /\ row.conv <= row.date
        /\ row.strategy = "timing1_convergence" /\ row.nth = 1
        /\ ~IsRecorded(rows, s, "timing1_convergence", day)
    BY <1>8
  <2>3. Admissible(row) /\ Fresh(row)
    BY <2>2 DEF Admissible, Follows, Fresh, Has, IsEntry, IsConvergence
  <2>. QED  BY <1>1, <1>2, <1>3, <2>2, <2>3 DEF Addable, IsConvergence
<1>10. /\ \A r1, r2 \in new : r1 = r2
       /\ \A x \in {<<s, answer>>} : Storable(p, x)
  <2>1. ASSUME NEW r1 \in new, NEW r2 \in new PROVE r1 = r2
    <3>1. PICK b1 \in Convergences(s, day, answer) : r1.conv = b1[1]
      BY <1>8
    <3>2. PICK b2 \in Convergences(s, day, answer) : r2.conv = b2[1]
      BY <1>8
    <3>3. r1.conv = r2.conv
      BY <1>5, <3>1, <3>2, ConvergenceBars
    <3>. QED  BY <1>8, <3>3
  <2>2. Today = day /\ \A i \in answer : i <= CompletedAt[Part]
    <3>1. CompletedSlots = 1..CompletedAt[Part] /\ CompletedAt[Part] \in 0..Slots
      BY Clock DEF CompletedSlots, IInv, Typed
    <3>. QED  BY <1>1, <1>3, <1>5, <3>1
  <2>3. PICK x : x = <<s, answer>>
    OBVIOUS
  <2>4. x[2] = answer /\ x \in {s} \X SUBSET (1..Slots)
    BY <1>5, <2>3
  <2>5. Storable(p, x)
    BY <1>2, <1>3, <2>2, <2>4 DEF Storable, Complete
  <2>. QED  BY <2>1, <2>3, <2>5
<1>11. UNCHANGED <<now, market, bars, rows>> /\ Visited(p, new, {<<s, answer>>})
  BY <1>4, <1>6 DEF VisitConvergence
<1>. QED  BY <1>1, <1>9, <1>10, <1>11, VisitedKeeps

LEMMA VisitTiming1Keeps ==
  ASSUME IInv, Noted, NEW p \in Scanners, VisitTiming1Intraday(p)
  PROVE  IInv'
<1>1. /\ scan[p].kind = "timing1_intraday" /\ scan[p].todo # {} /\ Current(p) \in Symbols
      /\ Current(p) \in scan[p].todo /\ scan[p].day \in 1..Days /\ Today = scan[p].day
  BY AtWork, Names DEF VisitTiming1Intraday
<1>2. PICK s \in Symbols : s = Current(p)
  BY <1>1
<1>3. PICK day \in 1..Days : day = scan[p].day
  BY <1>1
<1>4. PICK seen \in SUBSET Row :
        /\ seen = scan[p].seen /\ seen \subseteq rows /\ HasConverged(seen, s, day)
        /\ ~overlapped => seen = rows
  BY <1>1, <1>2, <1>3, Current_In, ScanFields DEF ScanSound
<1>5. PICK price \in Levels : Visited(p, Timing1Rows(seen, s, day, price), {})
  BY <1>2, <1>3, <1>4 DEF VisitTiming1Intraday
<1>6. PICK new : new = Timing1Rows(seen, s, day, price)
  OBVIOUS
<1>7. PICK c : c = ConvergenceRow(seen, s, day)
  OBVIOUS
<1>8. c \in rows /\ c.symbol = s /\ IsConvergence(c) /\ c \in Row /\ RowSound(c)
  BY <1>4, <1>7, NewestConvergence DEF IInv, Typed, RowsSound
<1>9. \/ new = {}
      \/ /\ c.conv = day - 1 /\ ~Timing1Done(seen, s, day)
         /\ \/ new = {RowOf(s, "timing1_expired", day, c.conv, c.high)}
            \/ /\ Part = "morning"
               /\ new = {RowOf(s, "timing1_trigger", day, c.conv, c.high)}
  <2>1. CASE ~IsNextTradingDay(c.conv, day) \/ Timing1Done(seen, s, day)
    BY <1>6, <1>7, <2>1 DEF Timing1Rows
  <2>2. CASE IsNextTradingDay(c.conv, day) /\ ~Timing1Done(seen, s, day)
    <3>1. new = CASE Part \in {"afternoon", "closed"} ->
                       {RowOf(s, "timing1_expired", day, c.conv, c.high)}
                  [] Part = "morning" /\ AtBase(price) ->
                       {RowOf(s, "timing1_trigger", day, c.conv, c.high)}
                  [] OTHER -> {}
      BY <1>6, <1>7, <2>2 DEF Timing1Rows
    <3>. QED  BY <2>2, <3>1 DEF IsNextTradingDay
  <2>. QED  BY <2>1, <2>2
<1>10. CASE new = {}
  BY <1>1, <1>5, <1>6, <1>10, VisitedKeeps DEF VisitTiming1Intraday
<1>11. ASSUME NEW strategy \in {"timing1_expired", "timing1_trigger"},
              c.conv = day - 1, ~Timing1Done(seen, s, day),
              new = {RowOf(s, strategy, day, c.conv, c.high)},
              strategy = "timing1_trigger" => Part = "morning"
       PROVE  IInv'
  <2>1. PICK row : row = RowOf(s, strategy, day, c.conv, c.high)
    OBVIOUS
  <2>2. /\ row \in Row /\ row.symbol = s /\ row.strategy = strategy /\ row.date = day
        /\ row.conv = c.conv /\ row.high = c.high /\ row.nth = 1
    <3>1. strategy \in Strategies /\ c.conv \in 0..Days /\ c.high \in SUBSET (1..Slots)
      BY <1>8, Names, RowFields
    <3>. QED  BY <2>1, <3>1, NewRow
  <2>3. ASSUME strategy = "timing1_trigger" PROVE FromConvergence(row)
    <3>1. now[2] # 4 /\ Today = day
      BY <1>1, <1>3, <1>11, <2>3, Clock DEF IInv, Typed
    <3>2. c.date < day /\ c.conv <= c.date /\ c.date \in 1..Days /\ c.conv \in 0..Days
      BY <1>8, <3>1, RowFields DEF RowSound
    <3>3. c.conv = c.date
      BY <1>11, <3>2, Constants
    <3>. QED  BY <1>8, <1>11, <2>2, <3>3 DEF FromConvergence
  <2>4. Admissible(row) /\ ~IsConvergence(row)
    BY <1>11, <2>2, <2>3 DEF Admissible, Follows, IsConvergence
  <2>5. ASSUME ~overlapped PROVE Fresh(row)
    BY <1>4, <1>11, <2>2, <2>5 DEF Fresh, IsEntry, Timing1Done, Has
  <2>6. Visited(p, {row}, {}) /\ UNCHANGED <<now, market, bars, rows>>
    BY <1>5, <1>6, <1>11, <2>1 DEF VisitTiming1Intraday
  <2>7. Addable(p, row)
    BY <1>1, <1>2, <1>3, <2>2, <2>4, <2>5 DEF Addable
  <2>. QED  BY <1>1, <2>6, <2>7, VisitedKeeps
<1>. QED  BY <1>9, <1>10, <1>11

LEMMA VisitTiming2Keeps ==
  ASSUME IInv, Noted, NEW p \in Scanners, VisitTiming2Intraday(p)
  PROVE  IInv'
<1>1. /\ scan[p].kind = "timing2_intraday" /\ scan[p].todo # {} /\ Current(p) \in Symbols
      /\ scan[p].day \in 1..Days
  BY AtWork, Names DEF VisitTiming2Intraday
<1>2. PICK s \in Symbols : s = Current(p)
  BY <1>1
<1>3. PICK day \in 1..Days : day = scan[p].day
  BY <1>1
<1>4. PICK seen \in SUBSET Row :
        seen = scan[p].seen /\ seen \subseteq rows /\ (~overlapped => seen = rows)
  BY <1>1, Current_In, ScanFields DEF ScanSound
<1>5. PICK price \in Levels : Visited(p, Timing2Rows(seen, s, day, price), {})
  BY <1>2, <1>3, <1>4 DEF VisitTiming2Intraday
<1>6. PICK new : new = Timing2Rows(seen, s, day, price)
  OBVIOUS
<1>7. PICK stage : stage = Timing2Stage(seen, s, day)
  OBVIOUS
<1>8. \/ new = {}
      \/ /\ stage \notin {"TRIGGERED", "EXPIRED"}
         /\ \/ new = {PlainRow(s, "timing2_expired", day)}
            \/ stage = "WAIT_BREAKOUT" /\ new = {PlainRow(s, "timing2_breakout", day)}
            \/ stage = "WAIT_PULLBACK" /\ new = {PlainRow(s, "timing2_pullback", day)}
            \/ stage = "WAIT_REBOUND" /\ new = {PlainRow(s, "timing2_trigger", day)}
  <2>1. CASE stage \in {"TRIGGERED", "EXPIRED"} \/ Part = "preopen"
    BY <1>6, <1>7, <2>1 DEF Timing2Rows
  <2>2. CASE stage \notin {"TRIGGERED", "EXPIRED"} /\ Part # "preopen" /\ Part # "morning"
    BY <1>6, <1>7, <2>2 DEF Timing2Rows
  <2>3. CASE stage \notin {"TRIGGERED", "EXPIRED"} /\ Part # "preopen" /\ Part = "morning"
    <3>1. new = CASE stage = "WAIT_BREAKOUT" /\ AtBreakout(price) ->
                       {PlainRow(s, "timing2_breakout", day)}
                  [] stage = "WAIT_PULLBACK" /\ AtPullback(price) ->
                       {PlainRow(s, "timing2_pullback", day)}
                  [] stage = "WAIT_REBOUND" /\ AtBase(price) ->
                       {PlainRow(s, "timing2_trigger", day)}
                  [] OTHER -> {}
      BY <1>6, <1>7, <2>3 DEF Timing2Rows
    <3>. QED  BY <2>3, <3>1
  <2>. QED  BY <2>1, <2>2, <2>3
<1>9. /\ stage \notin {"TRIGGERED", "EXPIRED"} =>
           /\ ~IsRecorded(seen, s, "timing2_trigger", day)
           /\ ~IsRecorded(seen, s, "timing2_expired", day)
      /\ stage = "WAIT_REBOUND" => IsRecorded(seen, s, "timing2_pullback", day)
      /\ stage = "WAIT_PULLBACK" =>
           /\ ~IsRecorded(seen, s, "timing2_pullback", day)
           /\ IsRecorded(seen, s, "timing2_breakout", day)
      /\ stage = "WAIT_BREAKOUT" => ~IsRecorded(seen, s, "timing2_breakout", day)
  BY <1>7 DEF Timing2Stage
<1>10. CASE new = {}
  BY <1>1, <1>5, <1>6, <1>10, VisitedKeeps DEF VisitTiming2Intraday
<1>11. ASSUME NEW strategy \in {"timing2_expired", "timing2_breakout", "timing2_pullback",
                                "timing2_trigger"},
              stage \notin {"TRIGGERED", "EXPIRED"},
              strategy = "timing2_breakout" => stage = "WAIT_BREAKOUT",
              strategy = "timing2_pullback" => stage = "WAIT_PULLBACK",
              strategy = "timing2_trigger" => stage = "WAIT_REBOUND",
              new = {PlainRow(s, strategy, day)}
       PROVE  IInv'
  <2>1. PICK row : row = PlainRow(s, strategy, day)
    OBVIOUS
  <2>2. /\ row \in Row /\ row.symbol = s /\ row.strategy = strategy /\ row.date = day
        /\ row.nth = 1
    <3>1. strategy \in Strategies /\ 0 \in 0..Days /\ {} \in SUBSET (1..Slots)
      BY Names, Constants
    <3>. QED  BY <2>1, <3>1, NewRow DEF PlainRow
  <2>3. Admissible(row) /\ ~IsConvergence(row)
    <3>1. \A strategy2 : IsRecorded(seen, s, strategy2, day) => Has(s, strategy2, day)
      BY <1>4 DEF Has, IsRecorded
    <3>. QED  BY <1>9, <1>11, <2>2, <3>1 DEF Admissible, Follows, IsConvergence
  <2>4. ASSUME ~overlapped PROVE Fresh(row)
    BY <1>4, <1>9, <1>11, <2>2, <2>4 DEF Fresh, IsEntry, Has
  <2>5. Addable(p, row)
    BY <1>1, <1>2, <1>3, <2>2, <2>3, <2>4 DEF Addable
  <2>6. Visited(p, {row}, {}) /\ UNCHANGED <<now, market, bars, rows>>
    BY <1>5, <1>6, <1>11, <2>1 DEF VisitTiming2Intraday
  <2>. QED  BY <1>1, <2>5, <2>6, VisitedKeeps
<1>. QED  BY <1>8, <1>10, <1>11

-----------------------------------------------------------------------------
(* What a scan found is recorded                                           *)

\* A found row is recorded in the place its symbol, strategy and date have
\* left; without another scan that is the first.
LEMMA AppendedRows ==
  ASSUME IInv, NEW p \in Scanners, NEW found, found = scan[p].found
  PROVE  /\ Appended(found) \subseteq Row /\ IsFiniteSet(Appended(found))
         /\ \A new \in Appended(found) : \E row \in found :
              /\ new.symbol = row.symbol /\ new.strategy = row.strategy
              /\ new.date = row.date /\ new.conv = row.conv
         /\ ~overlapped => Appended(found) = found
<1>1. /\ found \subseteq Row /\ IsFiniteSet(found)
      /\ \A row \in found : row.nth = 1 /\ (~overlapped => Fresh(row))
  BY Current_In, ScanFields DEF ScanSound, Admissible
<1>2. PICK Nth : Nth = [row \in found |->
                      1 + Cardinality({x \in rows : /\ x.symbol = row.symbol
                                                    /\ x.strategy = row.strategy
                                                    /\ x.date = row.date})]
  OBVIOUS
<1>3. PICK Put : Put = [row \in found |-> [row EXCEPT !.nth = Nth[row]]]
  OBVIOUS
<1>4. Appended(found) = {Put[row] : row \in found}
  <2>1. Appended(found) = {[row EXCEPT !.nth = Nth[row]] : row \in found}
    BY <1>2 DEF Appended
  <2>. QED  BY <1>3, <2>1
<1>5. ASSUME NEW row \in found
      PROVE  Nth[row] \in Nat \ {0} /\ (~overlapped => Nth[row] = 1)
  <2>1. PICK before : before = {x \in rows : /\ x.symbol = row.symbol
                                             /\ x.strategy = row.strategy
                                             /\ x.date = row.date}
    OBVIOUS
  <2>2. IsFiniteSet(before)
    BY <2>1, FS_Subset DEF IInv, Typed
  <2>3. Cardinality(before) \in Nat /\ Nth[row] = 1 + Cardinality(before)
    BY <1>2, <2>1, <2>2, FS_CardinalityType
  <2>4. ~overlapped => before = {}
    BY <1>1, <2>1 DEF Fresh, Has, IsRecorded
  <2>. QED  BY <2>3, <2>4, FS_EmptySet
<1>6. ASSUME NEW row \in found
      PROVE  /\ Put[row] \in Row
             /\ Put[row].symbol = row.symbol /\ Put[row].strategy = row.strategy
             /\ Put[row].date = row.date /\ Put[row].conv = row.conv
             /\ Nth[row] = 1 => Put[row] = row
  <2>1. PICK place \in Nat \ {0} : place = Nth[row]
    BY <1>5
  <2>2. Put[row] = [row EXCEPT !.nth = place] /\ row \in Row /\ row.nth = 1
    BY <1>1, <1>3, <2>1
  <2>. QED  BY <2>1, <2>2 DEF Row
<1>7. IsFiniteSet(Appended(found))
  <2>1. Put \in Surjection(found, Appended(found))
    BY <1>3, <1>4 DEF Surjection
  <2>. QED  BY <1>1, <2>1, FS_Surjection
<1>8. ~overlapped => Appended(found) = found
  BY <1>4, <1>5, <1>6
<1>. QED  BY <1>4, <1>6, <1>7, <1>8

LEMMA RowsRecorded ==
  ASSUME IInv, Noted, NEW p \in Scanners, scan[p].kind # "none", UNCHANGED now,
         rows' = rows \union Appended(scan[p].found)
  PROVE  /\ rows \subseteq rows' /\ rows' \subseteq Row /\ IsFiniteSet(rows')
         /\ RowsSound'
<1>1. PICK found : found = scan[p].found
  OBVIOUS
<1>2. PICK new : new = Appended(found)
  OBVIOUS
<1>3. /\ new \subseteq Row /\ IsFiniteSet(new)
      /\ \A row \in new : \E x \in found :
           /\ row.symbol = x.symbol /\ row.strategy = x.strategy
           /\ row.date = x.date /\ row.conv = x.conv
      /\ ~overlapped => new = found
  BY <1>1, <1>2, AppendedRows
<1>4. /\ ScanSound(scan[p]) /\ Typed /\ RowsSound /\ found \subseteq Row
      /\ rows' = rows \union new
  BY <1>1, <1>2, Current_In, ScanFields DEF IInv
<1>5. rows \subseteq rows' /\ rows' \subseteq Row /\ IsFiniteSet(rows')
  <2>1. IsFiniteSet(rows \cup new)
    BY <1>3, <1>4, FS_Union, Zenon DEF Typed
  <2>2. rows \subseteq Row
    BY <1>4 DEF Typed
  <2>. QED  BY <1>3, <1>4, <2>1, <2>2
<1>6. Today' = Today
  BY DEF Today
<1>7. ASSUME NEW row \in rows PROVE RowSound(row)'
  <2>1. RowSound(row)
    BY <1>4 DEF RowsSound
  <2>. QED  BY <1>5, <1>6, <2>1, RowsGrow DEF RowSound, IsConvergence
<1>8. ASSUME NEW row \in new PROVE RowSound(row)'
  <2>1. PICK x \in found : /\ row.symbol = x.symbol /\ row.strategy = x.strategy
                           /\ row.date = x.date /\ row.conv = x.conv
    BY <1>3
  <2>2. /\ x.date = scan[p].day /\ Admissible(x)
        /\ IsConvergence(x) <=> scan[p].kind = "timing1_convergence"
    BY <1>1, <1>4 DEF ScanSound
  <2>3. scan[p].day \in 1..Today /\ Today \in Nat
    BY <1>4, Clock, Constants DEF ScanSound, Typed
  <2>4. x.date <= Today /\ (IsConvergence(x) => x.date < Today \/ now[2] = 4)
    BY <1>4, <2>2, <2>3 DEF ScanSound
  <2>5. Follows(x)'
    BY <1>5, <2>2, RowsGrow DEF Admissible
  <2>6. Follows(row)'
    BY <2>1, <2>5 DEF Follows, FromConvergence
  <2>. QED  BY <1>6, <2>1, <2>2, <2>4, <2>6 DEF RowSound, Admissible, IsConvergence
<1>9. ASSUME ~overlapped' PROVE (OnceEach /\ Exclusive)'
  <2>1. ~overlapped /\ OnceEach /\ Exclusive /\ rows' = rows \union found
    BY <1>3, <1>4, <1>9 DEF RowsSound, Noted
  <2>2. /\ \A row \in found : row.nth = 1 /\ Fresh(row)
        /\ \A r1, r2 \in found : r1.symbol = r2.symbol => r1 = r2
    BY <1>1, <1>4, <2>1 DEF ScanSound, Admissible
  <2>3. OnceEach'
    BY <2>1, <2>2 DEF OnceEach
  <2>4. ASSUME NEW r1 \in rows', NEW r2 \in rows',
               r1.symbol = r2.symbol, r1.date = r2.date
        PROVE  /\ ~(r1.strategy = "timing1_trigger" /\ r2.strategy = "timing1_expired")
               /\ ~(r1.strategy = "timing2_trigger" /\ r2.strategy = "timing2_expired")
    <3>1. CASE r1 \in rows /\ r2 \in rows
      BY <2>1, <2>4, <3>1 DEF Exclusive
    <3>2. CASE r1 \in found /\ r2 \in found
      <4>1. r1 = r2
        BY <2>2, <2>4, <3>2
      <4>. QED  BY <4>1
    <3>3. CASE r1 \in found /\ r2 \in rows
      BY <2>2, <2>4, <3>3 DEF Fresh, IsEntry, Timing1Done, Has, IsRecorded
    <3>4. CASE r1 \in rows /\ r2 \in found
      BY <2>2, <2>4, <3>4 DEF Fresh, IsEntry, Timing1Done, Has, IsRecorded
    <3>. QED  BY <2>1, <3>1, <3>2, <3>3, <3>4
  <2>. QED  BY <2>3, <2>4 DEF Exclusive
<1>. QED  BY <1>4, <1>5, <1>7, <1>8, <1>9 DEF RowsSound

LEMMA IdleAfter == ScanSound(Idle)'
BY IdleSound, FS_EmptySet DEF ScanSound, Complete

LEMMA CommitKeeps ==
  ASSUME IInv, Noted, NEW p \in Scanners, Commit(p)
  PROVE  IInv'
<1>1. /\ scan[p].kind # "none" /\ Goes(p, Idle) /\ UNCHANGED <<now, market, bars>>
      /\ rows' = rows \union Appended(scan[p].found)
  BY DEF Commit
<1>2. rows \subseteq rows' /\ rows' \subseteq Row /\ IsFiniteSet(rows') /\ RowsSound'
  BY <1>1, RowsRecorded
<1>3. scan' \in [Scanners -> ScanRow] /\ (\A q \in Scanners : ScanSound(scan[q]))'
  BY <1>1, <1>2, IdleSound, IdleAfter, ScannersAfter
<1>4. Typed'
  BY <1>1, <1>2, <1>3 DEF IInv, Typed, Noted
<1>5. BarsSound'
  BY <1>1 DEF IInv, BarsSound, Complete, Today, Part
<1>. QED  BY <1>2, <1>3, <1>4, <1>5 DEF IInv, Noted

-----------------------------------------------------------------------------
(* Bars are replaced                                                       *)

LEMMA CommitConvergenceKeeps ==
  ASSUME IInv, Noted, NEW p \in Scanners, CommitConvergence(p)
  PROVE  IInv'
<1>1. PICK q \in ScanRow : q = scan[p]
  BY Current_In
<1>2. /\ q.kind = "timing1_convergence" /\ ScanSound(q) /\ q.found \in SUBSET Row
      /\ q.store \in SUBSET (Symbols \X SUBSET (1..Slots))
      /\ Typed /\ UNCHANGED <<now, market>>
  BY <1>1, Current_In, ScanFields DEF CommitConvergence, IInv
<1>3. q.day \in 1..Days /\ q.day \in 1..Today
  <2>1. q.day \in 1..Today /\ q.day \in 0..Days
    BY <1>2, ScanFields DEF ScanSound
  <2>. QED  BY <2>1, Clock, Constants DEF IInv, Typed
<1>4. PICK day \in 1..Days : day = q.day
  BY <1>3
<1>5. rows \subseteq rows' /\ rows' \subseteq Row /\ IsFiniteSet(rows') /\ RowsSound'
  BY <1>1, <1>2, RowsRecorded DEF CommitConvergence
<1>6. /\ scan' \in [Scanners -> ScanRow]
      /\ (\A r \in Scanners : ScanSound(scan[r]))'
  BY <1>1, <1>2, <1>5, IdleSound, IdleAfter, ScannersAfter DEF CommitConvergence
<1>7. \A s \in Symbols, d \in 1..Days :
        bars'[s][d] = IF d = day THEN Stored(p, s, bars[s][d]) ELSE bars[s][d]
  BY <1>1, <1>2, <1>4 DEF CommitConvergence, Typed
<1>8. ASSUME NEW s \in Symbols
      PROVE  /\ Stored(p, s, bars[s][day]) \in SUBSET (1..Slots)
             /\ Complete(day, Stored(p, s, bars[s][day]))
  <2>1. bars[s][day] \in SUBSET (1..Slots) /\ Complete(day, bars[s][day])
    BY <1>2 DEF Typed, IInv, BarsSound
  <2>2. PICK T : T = {x[2] : x \in {y \in q.store : y[1] = s}}
    OBVIOUS
  <2>3. \A a \in T : a \in SUBSET (1..Slots) /\ Complete(day, a)
    BY <1>2, <1>4, <2>2 DEF ScanSound
  <2>4. UNION T \in SUBSET (1..Slots)
    BY <2>3
  <2>5. Complete(day, UNION T)
    BY <2>3 DEF Complete
  <2>. QED  BY <1>1, <2>1, <2>2, <2>4, <2>5 DEF Stored
<1>9. Typed'
  <2>1. bars' = [s \in Symbols |-> [bars[s] EXCEPT ![day] = Stored(p, s, @)]]
    BY <1>1, <1>4 DEF CommitConvergence
  <2>2. \A s \in Symbols : [bars[s] EXCEPT ![day] = Stored(p, s, @)] \in [1..Days -> SUBSET (1..Slots)]
    BY <1>2, <1>8 DEF Typed
  <2>3. bars' \in [Symbols -> [1..Days -> SUBSET (1..Slots)]]
    BY <2>1, <2>2
  <2>. QED  BY <1>2, <1>5, <1>6, <2>3 DEF Typed, Noted
<1>10. BarsSound'
  <2>1. \A d, slots : Complete(d, slots)' <=> Complete(d, slots)
    BY <1>2 DEF Complete, Today, Part
  <2>2. \A s \in Symbols, d \in 1..Days : Complete(d, bars'[s][d])
    BY <1>7, <1>8 DEF IInv, BarsSound
  <2>. QED  BY <2>1, <2>2 DEF BarsSound
<1>. QED  BY <1>5, <1>6, <1>9, <1>10 DEF IInv, Noted

LEMMA NextHeldSound ==
  ASSUME IInv, NEW p \in Scanners, Does(p, {"bar_refresh"}), NextHeld(p)
  PROVE  \E r \in ScanRow : /\ Goes(p, r) /\ ScanSound(r)
                            /\ UNCHANGED <<now, rows>> => ScanSound(r)'
<1>1. PICK day \in 0..Days : day = scan[p].day
  BY Current_In, ScanFields
<1>2. day \in 1..Today /\ Others(p) \in SUBSET Symbols
  <2>1. scan[p].kind # "none"
    BY DEF Does
  <2>. QED  BY <1>1, <2>1, Current_In DEF ScanSound
<1>3. PICK r : r = [Idle EXCEPT !.kind = "bar_refresh", !.day = day, !.todo = Others(p)]
  OBVIOUS
<1>4. r = [kind |-> "bar_refresh", day |-> day, todo |-> Others(p), seen |-> {}, found |-> {},
           store |-> {}, answer |-> {}]
  BY <1>3 DEF Idle
<1>5. r \in ScanRow
  BY <1>2, <1>4, Names DEF ScanRow
<1>6. /\ r.kind = "bar_refresh" /\ r.day = day /\ r.todo = Others(p) /\ r.found = {}
      /\ r.store = {} /\ r.answer = {} /\ r.seen = {}
  BY <1>4
<1>7. ScanSound(r)
  BY <1>2, <1>6, FS_EmptySet DEF ScanSound, Complete
<1>8. ASSUME UNCHANGED <<now, rows>> PROVE ScanSound(r)'
  BY <1>2, <1>6, <1>8, FS_EmptySet DEF ScanSound, Complete, Today
<1>9. Goes(p, Idle) \/ Goes(p, r)
  BY <1>1, <1>3 DEF NextHeld
<1>. QED  BY <1>5, <1>7, <1>8, <1>9, IdleSound, IdleAfter

LEMMA RefreshAsksKeeps ==
  ASSUME IInv, Noted, NEW p \in Scanners, RefreshAsks(p) \/ RefreshFails(p)
  PROVE  IInv'
<1>1. /\ Does(p, {"bar_refresh"}) /\ UNCHANGED <<now, market, bars, rows>>
  BY DEF RefreshAsks, RefreshFails
<1>2. CASE NextHeld(p)
  BY <1>1, <1>2, NextHeldSound, GoesKeeps
<1>3. CASE RefreshAsks(p) /\ ~NextHeld(p)
  <2>1. /\ scan[p].kind = "bar_refresh" /\ scan[p].todo # {} /\ Current(p) \in Symbols
        /\ scan[p].day \in 1..Days /\ Today = scan[p].day
    BY <1>1, <1>3, AtWork, Names DEF RefreshAsks
  <2>2. PICK q \in ScanRow : q = scan[p]
    BY Current_In
  <2>3. PICK answer \in Answers("bar_refresh") :
          /\ ~Regressed(bars[Current(p)][q.day], answer)
          /\ Goes(p, [q EXCEPT !.answer = answer])
    BY <1>3, <2>2 DEF RefreshAsks
  <2>4. /\ CompletedSlots \subseteq 1..Slots /\ answer \subseteq CompletedSlots
        /\ answer \in SUBSET (1..Slots)
    BY AnswersInTime DEF IInv, Typed
  <2>5. PICK r : r = [q EXCEPT !.answer = answer]
    OBVIOUS
  <2>6. /\ r.kind = q.kind /\ r.day = q.day /\ r.todo = q.todo /\ r.seen = q.seen
        /\ r.found = q.found /\ r.store = q.store /\ r.answer = answer /\ r \in ScanRow
    BY <2>2, <2>4, <2>5 DEF ScanRow
  <2>7. ScanSound(q)
    BY <2>2, Current_In
  <2>8. Complete(r.day, answer)
    <3>1. \A i \in answer : i <= CompletedAt[Part]
      BY <2>4, Clock DEF CompletedSlots, IInv, Typed
    <3>. QED  BY <2>1, <2>2, <2>6, <3>1 DEF Complete
  <2>9. ScanSound(r)
    BY <2>1, <2>2, <2>6, <2>7, <2>8 DEF ScanSound
  <2>. QED  BY <1>1, <2>3, <2>5, <2>6, <2>9, GoesKeeps
<1>. QED  BY <1>2, <1>3 DEF RefreshFails

LEMMA RefreshReplacesKeeps ==
  ASSUME IInv, Noted, NEW p \in Scanners, RefreshReplaces(p)
  PROVE  IInv'
<1>1. /\ Does(p, {"bar_refresh"}) /\ NextHeld(p) /\ UNCHANGED <<now, market, rows>>
      /\ scan[p].answer # {}
  BY DEF RefreshReplaces
<1>2. /\ Current(p) \in Symbols /\ scan[p].day \in 1..Days /\ scan[p].kind # "none"
  BY <1>1, AtWork, Names
<1>3. PICK r \in ScanRow : Goes(p, r) /\ ScanSound(r)'
  BY <1>1, NextHeldSound
<1>4. /\ scan' \in [Scanners -> ScanRow]
      /\ (\A q \in Scanners : ScanSound(scan[q]))'
  BY <1>1, <1>3, ScannersAfter
<1>5. PICK s \in Symbols : s = Current(p)
  BY <1>2
<1>6. PICK day \in 1..Days : day = scan[p].day
  BY <1>2
<1>7. PICK answer \in SUBSET (1..Slots) : answer = scan[p].answer
  BY Current_In, ScanFields
<1>8. bars' = [bars EXCEPT ![s][day] = answer]
  BY <1>5, <1>6, <1>7 DEF RefreshReplaces
<1>9. /\ bars \in [Symbols -> [1..Days -> SUBSET (1..Slots)]]
      /\ bars' \in [Symbols -> [1..Days -> SUBSET (1..Slots)]]
      /\ \A x \in Symbols, d \in 1..Days :
           bars'[x][d] = IF x = s /\ d = day THEN answer ELSE bars[x][d]
  BY <1>8 DEF IInv, Typed
<1>10. Typed'
  BY <1>1, <1>4, <1>9 DEF IInv, Typed, Noted
<1>11. BarsSound'
  <2>1. \A d, slots : Complete(d, slots)' <=> Complete(d, slots)
    BY <1>1 DEF Complete, Today, Part
  <2>2. Complete(day, answer)
    BY <1>6, <1>7, Current_In DEF ScanSound
  <2>. QED  BY <1>9, <2>1, <2>2 DEF IInv, BarsSound
<1>. QED  BY <1>1, <1>4, <1>10, <1>11, RowsKept DEF IInv, Noted

-----------------------------------------------------------------------------
(* The first state, time, and the invariant                                *)

LEMMA TimeKeeps ==
  ASSUME IInv, Noted, TimePasses
  PROVE  IInv'
<1>1. Typed /\ RowsSound /\ BarsSound /\ now \in Moments /\ UNCHANGED <<market, bars, rows, scan>>
  BY DEF IInv, Typed, TimePasses
<1>2. /\ now' \in Moments
      /\ \/ Today' = Today /\ now[2]' = now[2] + 1 /\ now[2] < 4
         \/ Today' = Today + 1 /\ now[2]' = 1 /\ now[2] = 4
      /\ Today' = Today => CompletedAt[Part] <= CompletedAt[Part']
      /\ Today \in 1..Days /\ Today' \in 1..Days /\ Today <= Today'
      /\ CompletedAt[Part] \in Nat /\ now[2] \in 1..4
  <2>1. /\ now' \in Moments
        /\ \/ Today' = Today /\ now[2]' = now[2] + 1 /\ now[2] < 4
           \/ Today' = Today + 1 /\ now[2]' = 1 /\ now[2] = 4
        /\ Today' = Today => CompletedAt[Part] <= CompletedAt[Part']
    BY <1>1, ClockGoesOn
  <2>2. Today \in 1..Days /\ now[2] \in 1..4 /\ CompletedAt[Part] \in 0..Slots
    BY <1>1, Clock
  <2>3. Today' \in 1..Days
    BY <2>1, Constants DEF Moments, Today
  <2>4. Today <= Today' /\ CompletedAt[Part] \in Nat
    BY <2>1, <2>2, Constants
  <2>. QED  BY <2>1, <2>2, <2>3, <2>4
<1>3. CompletedAt[Part'] \in Nat
  BY <1>2, Clock, Constants DEF Moments, Part
<1>4. ASSUME NEW d \in 0..Days, NEW slots \in SUBSET (1..Slots), Complete(d, slots)
      PROVE  Complete(d, slots)'
  BY <1>2, <1>3, <1>4, Constants DEF Complete
<1>5. Typed'
  BY <1>1, <1>2 DEF Typed, Noted
<1>6. BarsSound'
  BY <1>1, <1>4, Constants DEF BarsSound, Typed
<1>7. RowsSound'
  <2>1. ASSUME NEW row \in rows PROVE RowSound(row)'
    <3>1. RowSound(row) /\ row.date \in 1..Days
      BY <1>1, RowFields DEF RowsSound, Typed
    <3>2. row.date <= Today' /\ (IsConvergence(row) => row.date < Today' \/ now[2]' = 4)
      BY <1>2, <3>1 DEF RowSound
    <3>. QED  BY <1>1, <3>1, <3>2, RowsGrow DEF RowSound, IsConvergence
  <2>2. ~overlapped' => (OnceEach /\ Exclusive)'
    BY <1>1 DEF RowsSound, OnceEach, Exclusive, Noted
  <2>. QED  BY <1>1, <2>1, <2>2 DEF RowsSound
<1>8. ASSUME NEW p \in Scanners PROVE ScanSound(scan[p])'
  <2>1. PICK r \in ScanRow : r = scan[p] /\ r = scan'[p] /\ ScanSound(r)
    BY <1>1, Current_In
  <2>2. r.day \in 0..Days /\ r.answer \in SUBSET (1..Slots)
        /\ \A x \in r.store : x[2] \in SUBSET (1..Slots)
    BY <2>1, ScanFields
  <2>3. Complete(r.day, r.answer)' /\ \A x \in r.store : Complete(r.day, x[2])'
    BY <1>4, <2>1, <2>2 DEF ScanSound
  <2>4. /\ r.kind # "none" => r.day \in 1..Today'
        /\ r.kind = "timing1_convergence" => r.day < Today' \/ now[2]' = 4
    BY <1>2, <2>1, <2>2, Names DEF ScanSound
  <2>5. \A row \in r.found :
          /\ row.date = r.day /\ row.symbol \notin r.todo /\ Admissible(row)'
          /\ IsConvergence(row)' <=> r.kind = "timing1_convergence"
          /\ ~overlapped' => Fresh(row)'
    BY <1>1, <2>1, RowsGrow, RowsUnmoved DEF ScanSound, Noted, IsConvergence
  <2>6. ScanSound(r)'
    BY <1>1, <2>1, <2>3, <2>4, <2>5 DEF ScanSound, Noted
  <2>. QED  BY <2>1, <2>6
<1>. QED  BY <1>5, <1>6, <1>7, <1>8 DEF IInv, Noted

LEMMA InitKeeps == Init => IInv
<1>. SUFFICES ASSUME Init PROVE IInv
  OBVIOUS
<1>1. /\ now = <<1, 1>> /\ market \subseteq MayConverge /\ rows = {}
      /\ bars = [s \in Symbols |-> [d \in 1..Days |-> {}]]
      /\ scan = [p \in Scanners |-> Idle] /\ overlapped = FALSE
  BY DEF Init
<1>2. Typed
  <2>1. now \in Moments
    BY <1>1, Constants DEF Moments
  <2>2. bars \in [Symbols -> [1..Days -> SUBSET (1..Slots)]]
    BY <1>1
  <2>3. scan \in [Scanners -> ScanRow]
    BY <1>1, IdleSound
  <2>. QED  BY <1>1, <2>1, <2>2, <2>3, FS_EmptySet DEF Typed
<1>3. BarsSound
  BY <1>1 DEF BarsSound, Complete
<1>4. RowsSound
  BY <1>1 DEF RowsSound, OnceEach, Exclusive
<1>5. \A p \in Scanners : ScanSound(scan[p]) /\ scan[p].kind = "none"
  BY <1>1, IdleSound
<1>6. ~Overlap
  BY <1>5 DEF Overlap
<1>. QED  BY <1>2, <1>3, <1>4, <1>5, <1>6 DEF IInv

LEMMA NextKeeps ==
  ASSUME IInv, [Next]_vars
  PROVE  IInv'
<1>1. CASE UNCHANGED vars
  <2>1. UNCHANGED <<now, market, bars, rows, scan, overlapped>>
    BY <1>1 DEF vars
  <2>2. Noted
    BY <2>1 DEF IInv, Typed, Noted, Overlap
  <2>3. BarsSound' /\ Typed'
    BY <2>1 DEF IInv, Typed, BarsSound, Complete, Today, Part
  <2>4. RowsSound'
    BY <2>1, <2>2, RowsKept
  <2>5. ASSUME NEW p \in Scanners PROVE ScanSound(scan[p])'
    <3>1. PICK r \in ScanRow : r = scan[p] /\ r = scan'[p] /\ ScanSound(r)
      BY <2>1, Current_In
    <3>2. ScanSound(r)'
      BY <2>1, <2>2, <3>1, StillSound
    <3>. QED  BY <3>1, <3>2
  <2>. QED  BY <2>2, <2>3, <2>4, <2>5 DEF IInv, Noted
<1>2. CASE Next
  <2>1. Noted
    <3>1. overlapped \in BOOLEAN /\ overlapped' = (overlapped \/ Overlap')
      BY <1>2 DEF IInv, Typed, Next
    <3>. QED  BY <3>1, Zenon DEF Noted
  <2>2. ASSUME NEW p \in Scanners, Step(p) PROVE IInv'
    <3>1. CASE \/ BeginTiming1Setup(p) \/ BeginTiming2Setup(p) \/ BeginConvergence(p)
               \/ BeginTiming1Intraday(p) \/ BeginTiming2Intraday(p)
               \/ BeginSellMacd(p) \/ BeginBarRefresh(p)
      BY <2>1, <3>1, BeginsKeep
    <3>2. CASE VisitTiming1Setup(p) \/ VisitTiming2Setup(p) \/ VisitSellMacd(p)
      BY <2>1, <3>2, VisitOnceKeeps DEF VisitTiming1Setup, VisitTiming2Setup, VisitSellMacd
    <3>3. CASE VisitConvergence(p) \/ VisitTiming1Intraday(p) \/ VisitTiming2Intraday(p)
      BY <2>1, <3>3, VisitConvergenceKeeps, VisitTiming1Keeps, VisitTiming2Keeps
    <3>4. CASE Commit(p) \/ CommitConvergence(p) \/ Abort(p)
      BY <2>1, <3>4, CommitKeeps, CommitConvergenceKeeps, AbortKeeps DEF Abort
    <3>5. CASE RefreshAsks(p) \/ RefreshReplaces(p) \/ RefreshFails(p)
      BY <2>1, <3>5, RefreshAsksKeeps, RefreshReplacesKeeps
    <3>. QED  BY <2>2, <3>1, <3>2, <3>3, <3>4, <3>5 DEF Step
  <2>3. CASE TimePasses
    BY <2>1, <2>3, TimeKeeps
  <2>. QED  BY <1>2, <2>2, <2>3 DEF Next
<1>. QED  BY <1>1, <1>2

LEMMA Inductive == Spec => []IInv
<1>1. Init => IInv
  BY InitKeeps
<1>2. IInv /\ [Next]_vars => IInv'
  BY NextKeeps
<1>. QED  BY <1>1, <1>2, PTL DEF Spec

-----------------------------------------------------------------------------
(* The properties                                                          *)

\* Rows and bars are well formed, and no bar is stored before it is complete.
THEOREM TypeCorrect == Spec => []TypeOK
<1>1. ASSUME IInv PROVE TypeOK
  <2>1. Typed /\ BarsSound
    BY <1>1 DEF IInv
  <2>2. \A s \in Symbols, d \in 1..Days : \A i \in bars[s][d] :
          d < Today \/ (d = Today /\ i <= CompletedAt[Part])
    BY <2>1 DEF BarsSound, Complete
  <2>3. \A p \in Scanners : scan[p].kind \in Kinds \union {"none"}
    BY <2>1, ScanFields DEF Typed
  <2>. QED  BY <2>1, <2>2, <2>3 DEF TypeOK, Typed
<1>. QED  BY <1>1, Inductive, PTL

\* Rebounds follow pullbacks and pullbacks breakouts, and an entry of timing 1
\* follows a convergence of the evening before, for any number of scanners and
\* truncated answers; and until two scans overlap, a strategy records a symbol
\* once a day and triggers exclude expiries.
THEOREM StagesStayInOrder == Spec => []StagesInOrder
<1>1. ASSUME IInv PROVE StagesInOrder
  <2>1. RowsSound /\ rows \subseteq Row
    BY <1>1 DEF IInv, Typed
  <2>2. ASSUME NEW s \in Symbols, NEW d \in 1..Days
        PROVE  /\ Has(s, "timing2_trigger", d) => Has(s, "timing2_pullback", d)
               /\ Has(s, "timing2_pullback", d) => Has(s, "timing2_breakout", d)
    BY <2>1 DEF RowsSound, RowSound, Follows, Has, IsRecorded
  <2>3. ASSUME NEW row \in rows, row.strategy = "timing1_trigger"
        PROVE  /\ row.conv = row.date - 1
               /\ \E c \in rows : /\ c.symbol = row.symbol
                                 /\ c.strategy = "timing1_convergence"
                                 /\ c.conv = row.conv /\ c.date = row.conv
    BY <2>1, <2>3 DEF RowsSound, RowSound, Follows, FromConvergence, IsConvergence
  <2>4. ASSUME ~overlapped
        PROVE  /\ \A row \in rows : row.nth = 1
               /\ \A s \in Symbols, d \in 1..Days :
                    /\ ~(Has(s, "timing1_trigger", d) /\ Has(s, "timing1_expired", d))
                    /\ ~(Has(s, "timing2_trigger", d) /\ Has(s, "timing2_expired", d))
    BY <2>1, <2>4 DEF RowsSound, OnceEach, Exclusive, Has, IsRecorded
  <2>. QED  BY <2>2, <2>3, <2>4 DEF StagesInOrder
<1>. QED  BY <1>1, Inductive, PTL
=============================================================================
