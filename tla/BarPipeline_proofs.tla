-------------------------- MODULE BarPipeline_proofs --------------------------
(***************************************************************************)
(* Proofs about BarPipeline, for every setup, every price the broker may   *)
(* answer, every length of a bar, every number of faults and any number of *)
(* processes that run trading cycles, at once or one after the other.      *)
(*                                                                         *)
(* The invariant has two halves.  What holds whoever else is at work is    *)
(* Weak: a row is of a stored bar, stored bars are never lost, and what a  *)
(* scan has read of the rows is still there when it records.  Until two    *)
(* passes overlap there is more, Sound: a stored bar is what its bucket's  *)
(* samples make (BarsBuilt), every earlier bucket with enough of them is   *)
(* stored too (BarsComplete), and no sample is still on its way into       *)
(* either (PassSound).  From that the open of the session and the high of  *)
(* the morning are fixed once a trigger has been judged by them, and the   *)
(* rows stay justified.                                                    *)
(***************************************************************************)
EXTENDS BarPipeline, Sums_proofs, SequenceTheorems

\* No other pass is under way.
Alone(p) == \A q \in Scanners : q # p => pass[q].step = "idle"

Enough(s, b) == Cardinality(SampleTicks(s, b)) >= MinSamples

\* What the samples of a bucket make of it.
Built(s, b) ==
  [open |-> samples[s][Min(SampleTicks(s, b))],
   close |-> samples[s][Max(SampleTicks(s, b))]]

Pass ==
  [step : Steps, execute : BOOLEAN, write : BOOLEAN, queue : Seq(Symbols),
   quote : Prices \union {NoPrice}, at : 0..LastTick,
   seen : SUBSET (Symbols \X Strategies), found : Seq(Row)]

Typed ==
  /\ now \in 0..LastTick
  /\ samples \in [Symbols -> [Ticks -> Prices \union {NoPrice}]]
  /\ bars \in [Symbols -> [Bars -> Bar \union {NoBar}]]
  /\ signals \in Seq(Row)
  /\ pass \in [Scanners -> Pass]
  /\ faults \in 0..MaxFaults

Past == \A s \in Symbols, t \in Ticks : samples[s][t] # NoPrice => t <= now

BarsBuilt ==
  \A s \in Symbols : \A b \in StoredBars(s) :
    BarEnd(b) <= now /\ Enough(s, b) /\ bars[s][b] = Built(s, b)

BarsComplete ==
  \A s \in Symbols : \A b \in StoredBars(s), c \in Bars :
    c < b /\ Enough(s, c) => c \in StoredBars(s)

\* A row that the stored bars justify.
Justified(row) ==
  LET s == row.symbol
  IN  /\ row.bar \in StoredBars(s)
      /\ row.close = bars[s][row.bar].close
      /\ row.strategy = "morning_dip" =>
           InMorning(row.bar) /\ row.close < SessionOpen(s)
      /\ row.strategy = "morning_trigger" =>
           InMorning(row.bar) /\ row.close > SessionOpen(s)
      /\ row.strategy = "range_trigger" =>
           InRange(row.bar) /\ \A b \in MorningBars(s) : row.close > bars[s][b].close

Seen == {<<row.symbol, row.strategy>> : row \in ToSet(signals)}

\* The rows of a scan that are not recorded yet: new, justified, a morning entry
\* behind a recorded dip, and of every symbol at most one.
FoundSound(found) ==
  /\ \A i \in DOMAIN found :
       /\ <<found[i].symbol, found[i].strategy>> \notin Seen
       /\ Justified(found[i])
       /\ found[i].strategy = "morning_trigger" =>
            \E j \in DOMAIN signals : /\ signals[j].symbol = found[i].symbol
                                      /\ signals[j].strategy = "morning_dip"
                                      /\ signals[j].bar < found[i].bar
  /\ \A i, j \in DOMAIN found : found[i].symbol = found[j].symbol => i = j

\* No sample on its way, and no build under way, reaches behind a stored bar.
PassSound(x) ==
  /\ x.step \in {"capture", "store", "build", "evaluate"} =>
       x.queue # <<>> /\ IsInjective(x.queue)
  /\ x.step = "store" => x.quote \in Prices /\ x.at \in Ticks
  /\ x.step \in {"store", "build"} =>
       /\ x.at <= now
       /\ \A s \in Symbols : \A b \in StoredBars(s) : BarEnd(b) <= x.at
  /\ x.step = "load" => x.found = <<>>
  /\ x.step \in {"evaluate", "record"} =>
       x.seen = Seen /\ FoundSound(x.found)
  /\ x.step = "evaluate" =>
       \A i \in DOMAIN x.found :
         x.found[i].symbol \notin ToSet(x.queue)

SignalsSound ==
  /\ \A i, j \in DOMAIN signals :
       signals[i].symbol = signals[j].symbol /\ signals[i].strategy = signals[j].strategy
       => i = j
  /\ \A i \in DOMAIN signals :
       signals[i].strategy = "morning_trigger" =>
         \E j \in 1..(i - 1) : /\ signals[j].symbol = signals[i].symbol
                               /\ signals[j].strategy = "morning_dip"
                               /\ signals[j].bar < signals[i].bar
  /\ \A i \in DOMAIN signals : Justified(signals[i])

Sound ==
  /\ Typed
  /\ Past
  /\ BarsBuilt
  /\ BarsComplete
  /\ \A p \in Scanners : PassSound(pass[p])
  /\ SignalsSound

BarsPast == \A s \in Symbols : \A b \in StoredBars(s) : BarEnd(b) <= now

\* What is true of a row whoever else is at work.
Grounded(row) ==
  /\ row.bar \in StoredBars(row.symbol)
  /\ IF row.strategy = "range_trigger" THEN InRange(row.bar) ELSE InMorning(row.bar)

\* A morning entry has a dip among the first k rows.
Dipped(row, k) ==
  row.strategy = "morning_trigger" =>
    \E j \in 1..k : /\ signals[j].symbol = row.symbol
                    /\ signals[j].strategy = "morning_dip"
                    /\ signals[j].bar <= row.bar

RowsGrounded ==
  \A i \in DOMAIN signals : Grounded(signals[i]) /\ Dipped(signals[i], i - 1)

PassGrounded(x) ==
  /\ x.step \in {"capture", "store", "build", "evaluate"} =>
       x.queue # <<>> /\ IsInjective(x.queue)
  /\ x.step = "store" => x.quote \in Prices /\ x.at \in Ticks
  /\ x.at <= now
  /\ x.seen \subseteq Seen
  /\ \A i \in DOMAIN x.found : Grounded(x.found[i]) /\ Dipped(x.found[i], Len(signals))

Weak ==
  /\ Typed
  /\ Past
  /\ BarsPast
  /\ RowsGrounded
  /\ \A p \in Scanners : PassGrounded(pass[p])

IInv ==
  /\ Weak
  /\ overlapped \in BOOLEAN
  /\ Overlap => overlapped
  /\ ~overlapped => Sound

-----------------------------------------------------------------------------
(* Buckets                                                                 *)

LEMMA Constants ==
  /\ Setup \in Seq(Symbols) /\ Setup # <<>> /\ IsInjective(Setup)
  /\ BarTicks \in Nat \ {0} /\ LastTick \in Nat /\ MinSamples \in Nat \ {0}
  /\ MaxSymbols \in Nat \ {0}
  /\ MorningEnd \in Nat /\ RangeStart \in Nat /\ MorningEnd <= RangeStart
  /\ MaxFaults \in Nat
  /\ Prices \subseteq Nat \ {0} /\ NoPrice \notin Prices
  /\ \A s \in Symbols, t \in Ticks : Quotes[s][t] \subseteq Prices
<1>1. /\ Setup \in Seq(Symbols) /\ Setup # <<>> /\ IsInjective(Setup)
      /\ BarTicks \in Nat \ {0} /\ LastTick \in Nat /\ MinSamples \in Nat \ {0}
      /\ MaxSymbols \in Nat \ {0}
      /\ MorningEnd \in Nat /\ RangeStart \in Nat /\ MorningEnd <= RangeStart
      /\ MaxFaults \in Nat /\ NoPrice \notin Nat \ {0}
      /\ Quotes \in [Symbols -> [Ticks -> SUBSET (Nat \ {0})]]
  BY PipelineAssumption DEF Symbols, Ticks
<1>2. \A s \in Symbols, t \in Ticks : Quotes[s][t] \subseteq Nat \ {0}
  BY <1>1
<1>3. \A s \in Symbols, t \in Ticks : Quotes[s][t] \subseteq Prices
  BY DEF Prices
<1>4. Prices \subseteq Nat \ {0}
  BY <1>2 DEF Prices
<1>. QED  BY <1>1, <1>3, <1>4

LEMMA BarsNat == Bars \subseteq Nat /\ \E K \in Nat : Bars \subseteq 0..K
<1>1. LastTick \div BarTicks \in Nat
  BY Constants
<1>. QED  BY <1>1 DEF Bars

LEMMA Buckets ==
  ASSUME NEW b \in Nat
  PROVE  /\ BarStart(b) \in Nat /\ BarEnd(b) \in Nat /\ BarStart(b) < BarEnd(b)
         /\ \A c \in Nat : c < b => BarEnd(c) <= BarStart(b)
<1>1. BarTicks \in Nat \ {0}
  BY Constants
<1>2. BarStart(b) \in Nat /\ BarEnd(b) = BarStart(b) + BarTicks
  BY <1>1 DEF BarStart, BarEnd
<1>3. ASSUME NEW c \in Nat, c < b PROVE BarEnd(c) <= BarStart(b)
  <2>1. PICK d \in Nat : b = c + 1 + d
    BY <1>3
  <2>2. b * BarTicks = c * BarTicks + BarTicks + d * BarTicks
    BY <1>1, <2>1
  <2>3. d * BarTicks >= 0 /\ c * BarTicks \in Nat
    BY <1>1
  <2>. QED  BY <1>1, <2>2, <2>3 DEF BarStart, BarEnd
<1>. QED  BY <1>1, <1>2, <1>3

\* A bucket with enough samples has a first and a last one.
LEMMA BucketTicks ==
  ASSUME NEW s, NEW b \in Nat
  PROVE  /\ SampleTicks(s, b) \in SUBSET (BarStart(b)..(BarEnd(b) - 1))
         /\ \A t \in SampleTicks(s, b) : samples[s][t] # NoPrice
         /\ Enough(s, b) =>
              /\ SampleTicks(s, b) # {}
              /\ Min(SampleTicks(s, b)) \in SampleTicks(s, b)
              /\ Max(SampleTicks(s, b)) \in SampleTicks(s, b)
<1>. DEFINE T == SampleTicks(s, b)
<1>1. T \in SUBSET (BarStart(b)..(BarEnd(b) - 1)) /\ \A t \in T : samples[s][t] # NoPrice
  BY DEF SampleTicks
<1>2. BarStart(b) \in Nat /\ BarEnd(b) \in Nat
  BY Buckets
<1>3. ASSUME Enough(s, b) PROVE T # {}
  <2>1. Cardinality({}) = 0
    BY FS_EmptySet
  <2>2. Cardinality(T) >= MinSamples /\ MinSamples \in Nat \ {0}
    BY <1>3, Constants DEF Enough
  <2>. QED  BY <2>1, <2>2
<1>. HIDE DEF T
<1>4. T \in SUBSET Nat /\ \A t \in T : t <= BarEnd(b)
  BY <1>1, <1>2
<1>5. T # {} => Min(T) \in T /\ Max(T) \in T
  BY <1>2, <1>4, NatMin, NatMax
<1>. QED  BY <1>1, <1>3, <1>5 DEF T

\* A bucket none of whose samples changes is built as before.
LEMMA BucketKept ==
  ASSUME NEW s, NEW b \in Nat,
         \A t \in BarStart(b)..(BarEnd(b) - 1) : samples'[s][t] = samples[s][t]
  PROVE  /\ Enough(s, b)' = Enough(s, b)
         /\ Enough(s, b) => Built(s, b)' = Built(s, b)
<1>1. SampleTicks(s, b)' = SampleTicks(s, b)
  BY DEF SampleTicks
<1>2. Enough(s, b)' = Enough(s, b)
  BY <1>1 DEF Enough
<1>3. ASSUME Enough(s, b) PROVE Built(s, b)' = Built(s, b)
  <2>1. /\ Min(SampleTicks(s, b)) \in BarStart(b)..(BarEnd(b) - 1)
        /\ Max(SampleTicks(s, b)) \in BarStart(b)..(BarEnd(b) - 1)
    BY <1>3, BucketTicks
  <2>. QED  BY <1>1, <2>1 DEF Built
<1>. QED  BY <1>2, <1>3

\* What is built of a bucket that is over is a bar.
LEMMA BuiltIsBar ==
  ASSUME Typed, NEW s \in Symbols, NEW b \in Nat, Enough(s, b), BarEnd(b) <= now
  PROVE  Built(s, b) \in Bar /\ Built(s, b) # NoBar
<1>1. BarStart(b) \in Nat /\ BarEnd(b) \in Nat /\ now \in Nat /\ now <= LastTick /\ LastTick \in Nat
  BY Buckets, Constants DEF Typed
<1>2. BarStart(b)..(BarEnd(b) - 1) \subseteq Ticks
  BY <1>1 DEF Ticks
<1>3. \A t \in SampleTicks(s, b) : samples[s][t] \in Prices
  <2>1. \A t \in Ticks : samples[s][t] \in Prices \union {NoPrice}
    BY DEF Typed
  <2>. QED  BY <1>2, <2>1, BucketTicks
<1>4. Min(SampleTicks(s, b)) \in SampleTicks(s, b) /\ Max(SampleTicks(s, b)) \in SampleTicks(s, b)
  BY BucketTicks
<1>5. NoPrice \notin Prices
  BY Constants
<1>. QED  BY <1>3, <1>4, <1>5 DEF Built, Bar, NoBar

LEMMA NoBarIsNone == NoBar \notin Bar
BY Constants DEF NoBar, Bar

\* The stored bars of a symbol, the first and the last of them.
LEMMA Stored ==
  ASSUME Typed, NEW s \in Symbols
  PROVE  /\ StoredBars(s) \in SUBSET Bars /\ StoredBars(s) \in SUBSET Nat
         /\ \A b \in StoredBars(s) : bars[s][b] \in Bar
         /\ StoredBars(s) # {} =>
              /\ Min(StoredBars(s)) \in StoredBars(s)
              /\ \A b \in StoredBars(s) : Min(StoredBars(s)) <= b
              /\ LatestBar(s) \in StoredBars(s)
              /\ \A b \in StoredBars(s) : b <= LatestBar(s)
<1>1. StoredBars(s) \in SUBSET Bars /\ StoredBars(s) \in SUBSET Nat
  BY BarsNat DEF StoredBars
<1>2. \A b \in StoredBars(s) : bars[s][b] \in Bar
  BY DEF StoredBars, Typed
<1>3. PICK K \in Nat : Bars \subseteq 0..K
  BY BarsNat
<1>4. \A b \in StoredBars(s) : b <= K
  BY <1>1, <1>3
<1>. QED  BY <1>1, <1>2, <1>3, <1>4, NatMin, NatMax DEF LatestBar

-----------------------------------------------------------------------------
(* Queues and lists                                                        *)

LEMMA SetOfSeq ==
  ASSUME NEW S, NEW q \in Seq(S)
  PROVE  /\ DOMAIN q = 1..Len(q) /\ Len(q) \in Nat
         /\ ToSet(q) \in SUBSET S
         /\ \A i \in DOMAIN q : q[i] \in ToSet(q)
         /\ q # <<>> => Len(q) # 0
BY DEF ToSet

\* What is left of a queue without repetitions when its head is done.
LEMMA QueueTail ==
  ASSUME NEW S, NEW q \in Seq(S), q # <<>>, IsInjective(q)
  PROVE  /\ Head(q) \in S /\ Head(q) \in ToSet(q)
         /\ Len(q) > 1 =>
              /\ Tail(q) \in Seq(S) /\ Tail(q) # <<>> /\ IsInjective(Tail(q))
              /\ Head(q) \notin ToSet(Tail(q)) /\ ToSet(Tail(q)) \subseteq ToSet(q)
<1>1. Len(q) \in Nat \ {0} /\ DOMAIN q = 1..Len(q) /\ Head(q) = q[1] /\ q[1] \in S
  BY EmptySeq
<1>2. Head(q) \in ToSet(q)
  BY <1>1 DEF ToSet
<1>3. ASSUME Len(q) > 1
      PROVE  /\ Tail(q) \in Seq(S) /\ Tail(q) # <<>> /\ IsInjective(Tail(q))
             /\ Head(q) \notin ToSet(Tail(q)) /\ ToSet(Tail(q)) \subseteq ToSet(q)
  <2>. DEFINE r == Tail(q)
  <2>1. /\ r \in Seq(S) /\ Len(r) = Len(q) - 1 /\ DOMAIN r = 1..(Len(q) - 1)
        /\ \A i \in 1..(Len(q) - 1) : r[i] = q[i + 1]
    BY HeadTailProperties
  <2>. HIDE DEF r
  <2>2. r # <<>>
    BY <1>1, <1>3, <2>1
  <2>3. \A i \in DOMAIN r : i + 1 \in DOMAIN q /\ i + 1 # 1 /\ r[i] = q[i + 1]
    BY <1>1, <2>1
  <2>4. \A i, j \in DOMAIN q : q[i] = q[j] => i = j
    BY DEF IsInjective
  <2>5. IsInjective(r)
    <3>. SUFFICES ASSUME NEW i \in DOMAIN r, NEW j \in DOMAIN r, r[i] = r[j] PROVE i = j
      BY DEF IsInjective
    <3>1. i + 1 = j + 1
      BY <2>3, <2>4
    <3>. QED  BY <1>1, <2>1, <3>1
  <2>6. Head(q) \notin ToSet(r)
    <3>. SUFFICES ASSUME NEW i \in DOMAIN r, r[i] = q[1] PROVE FALSE
      BY <1>1 DEF ToSet
    <3>. QED  BY <1>1, <2>3, <2>4
  <2>7. ToSet(r) \subseteq ToSet(q)
    BY <2>3 DEF ToSet
  <2>. QED  BY <2>1, <2>2, <2>5, <2>6, <2>7 DEF r
<1>. QED  BY <1>1, <1>2, <1>3

\* The list of a set of at most one element.
LEMMA ListOfOne ==
  /\ SetToSeq({}) = <<>>
  /\ \A r : SetToSeq({r}) = <<r>>
<1>1. SetToSeq({}) = <<>>
  <2>1. Cardinality({}) = 0
    BY FS_EmptySet
  <2>2. <<>> \in [1..0 -> {}]
    OBVIOUS
  <2>3. ASSUME NEW f \in [1..0 -> {}] PROVE f = <<>>
    <3>1. f \in Seq({}) /\ <<>> \in Seq({}) /\ Len(f) = 0 /\ Len(<<>>) = 0
      OBVIOUS
    <3>2. \A i \in 1..0 : f[i] = <<>>[i]
      OBVIOUS
    <3>. QED  BY <3>1, <3>2, SeqEqual
  <2>4. IsInjective(<<>>)
    BY DEF IsInjective
  <2>. QED  BY <2>1, <2>2, <2>3, <2>4 DEF SetToSeq
<1>2. ASSUME NEW r PROVE SetToSeq({r}) = <<r>>
  <2>1. Cardinality({r}) = 1
    BY FS_Singleton
  <2>2. 1..1 = {1}
    OBVIOUS
  <2>3. <<r>> \in [{1} -> {r}] /\ \A f \in [{1} -> {r}] : f = <<r>>
    OBVIOUS
  <2>4. IsInjective(<<r>>)
    BY DEF IsInjective
  <2>. QED  BY <2>1, <2>2, <2>3, <2>4 DEF SetToSeq
<1>. QED  BY <1>1, <1>2

LEMMA SetupQueues ==
  /\ Setup \in Seq(Symbols) /\ Setup # <<>> /\ IsInjective(Setup)
  /\ Selected \in Seq(Symbols) /\ Selected # <<>> /\ IsInjective(Selected)
<1>1. Setup \in Seq(Symbols) /\ Setup # <<>> /\ IsInjective(Setup) /\ MaxSymbols \in Nat \ {0}
  BY Constants
<1>. DEFINE n == IF Len(Setup) < MaxSymbols THEN Len(Setup) ELSE MaxSymbols
<1>2. n \in Nat \ {0} /\ n <= Len(Setup) /\ DOMAIN Setup = 1..Len(Setup) /\ Len(Setup) \in Nat
  BY <1>1, SetOfSeq
<1>. HIDE DEF n
<1>3. \A i \in 1..n : i \in DOMAIN Setup /\ Setup[i] \in Symbols
  BY <1>1, <1>2
<1>. DEFINE q == SubSeq(Setup, 1, n)
<1>4. /\ q \in Seq(Symbols) /\ Len(q) = n
      /\ \A i \in 1..n : q[i] = Setup[i]
  BY <1>2, <1>3, SubSeqProperties
<1>. HIDE DEF q
<1>5. DOMAIN q = 1..n /\ q # <<>>
  BY <1>2, <1>4
<1>6. IsInjective(q)
  BY <1>1, <1>3, <1>4, <1>5 DEF IsInjective
<1>. QED  BY <1>1, <1>4, <1>5, <1>6 DEF Selected, q, n

-----------------------------------------------------------------------------
(* The state of a pass                                                     *)

\* The states a step may leave a pass in.
LEMMA IdleSound == Typed => Idle \in Pass /\ PassSound(Idle)
<1>1. 0 \in 0..LastTick
  BY Constants
<1>2. <<>> \in Seq(Symbols) /\ <<>> \in Seq(Row)
  OBVIOUS
<1>3. Idle \in Pass
  BY <1>1, <1>2 DEF Idle, Pass, Steps
<1>4. PassSound(Idle)
  BY DEF Idle, PassSound
<1>. QED  BY <1>3, <1>4

LEMMA LoadSound ==
  ASSUME Typed, NEW p \in Scanners
  PROVE  LoadStep(p) \in Pass /\ PassSound(LoadStep(p))
<1>1. pass[p] \in Pass /\ Idle \in Pass
  BY IdleSound DEF Typed
<1>2. pass[p].write \in BOOLEAN
  BY <1>1 DEF Pass
<1>3. LoadStep(p) \in Pass
  BY <1>1, <1>2 DEF LoadStep, Pass, Steps
<1>4. LoadStep(p).step = "load" /\ LoadStep(p).found = <<>>
  BY <1>1 DEF LoadStep, Idle, Pass
<1>. QED  BY <1>3, <1>4 DEF PassSound

LEMMA BuildSound ==
  ASSUME Typed, BarsBuilt, NEW p \in Scanners
  PROVE  BuildStep(p) \in Pass /\ PassSound(BuildStep(p))
<1>1. pass[p] \in Pass
  BY DEF Typed
<1>2. now \in 0..LastTick /\ now \in Nat
  BY Constants DEF Typed
<1>3. BuildStep(p) \in Pass
  BY <1>1, <1>2, SetupQueues DEF BuildStep, Pass, Steps
<1>4. BuildStep(p).step = "build" /\ BuildStep(p).queue = Setup /\ BuildStep(p).at = now
  BY <1>1 DEF BuildStep, Pass
<1>5. \A s \in Symbols : \A b \in StoredBars(s) : BarEnd(b) <= now
  BY DEF BarsBuilt
<1>. QED  BY <1>2, <1>3, <1>4, <1>5, SetupQueues DEF PassSound

\* A step that leaves a symbol behind leaves a sound pass.
LEMMA NextSymbolSound ==
  ASSUME Typed, NEW p \in Scanners, PassSound(pass[p]), NEW step, NEW then,
         then \in Pass, PassSound(then),
         \/ step = "capture" /\ pass[p].step \in {"capture", "store"}
         \/ step = "build" /\ pass[p].step = "build",
         NextSymbol(p, step, then)
  PROVE  \E x \in Pass :
           /\ Goes(p, x) /\ PassSound(x)
           /\ x = then \/ (x.step = step /\ (step = "build" => x.at = pass[p].at))
<1>. DEFINE x == [pass[p] EXCEPT !.step = step, !.queue = Tail(@), !.quote = NoPrice,
                                 !.at = IF step = "build" THEN @ ELSE 0]
<1>1. CASE ~(Len(pass[p].queue) > 1)
  BY <1>1 DEF NextSymbol
<1>2. CASE Len(pass[p].queue) > 1
  <2>1. pass[p] \in Pass
    BY DEF Typed
  <2>2. pass[p].queue \in Seq(Symbols) /\ pass[p].queue # <<>> /\ IsInjective(pass[p].queue)
    BY <2>1 DEF Pass, PassSound
  <2>3. Tail(pass[p].queue) \in Seq(Symbols) /\ Tail(pass[p].queue) # <<>>
        /\ IsInjective(Tail(pass[p].queue))
    BY <1>2, <2>2, QueueTail
  <2>4. 0 \in 0..LastTick
    BY Constants
  <2>5. x \in Pass
    BY <2>1, <2>3, <2>4 DEF Pass, Steps
  <2>6. /\ x.step = step /\ x.queue = Tail(pass[p].queue)
        /\ x.at = IF step = "build" THEN pass[p].at ELSE 0
    BY <2>1 DEF Pass
  <2>7. Goes(p, x)
    BY <1>2 DEF NextSymbol
  <2>. HIDE DEF x
  <2>8. PassSound(x)
    <3>1. x.queue # <<>> /\ IsInjective(x.queue)
      BY <2>3, <2>6
    <3>2. step = "build" =>
            /\ x.at <= now
            /\ \A s \in Symbols : \A b \in StoredBars(s) : BarEnd(b) <= x.at
      BY <2>6 DEF PassSound
    <3>. QED  BY <2>6, <3>1, <3>2 DEF PassSound
  <2>. QED  BY <2>5, <2>6, <2>7, <2>8
<1>. QED  BY <1>1, <1>2

-----------------------------------------------------------------------------
(* The invariant is inductive                                              *)

LEMMA TypedPass ==
  ASSUME Typed, NEW p \in Scanners, NEW x, x \in Pass, Goes(p, x)
  PROVE  pass' \in [Scanners -> Pass] /\ pass'[p] = x
BY DEF Typed, Goes

\* A pass that is alone is the only one anything is said of.
LEMMA OnlyPass ==
  ASSUME Typed, NEW p \in Scanners, Alone(p), NEW x, x \in Pass, Goes(p, x), PassSound(x)'
  PROVE  \A q \in Scanners : PassSound(pass[q])'
<1>1. pass'[p] = x
  BY TypedPass
<1>2. \A q \in Scanners : q # p => pass'[q] = pass[q] /\ pass[q].step = "idle"
  BY DEF Typed, Goes, Alone
<1>3. ASSUME NEW q \in Scanners, q # p PROVE PassSound(pass[q])'
  <2>1. pass'[q].step = "idle"
    BY <1>2, <1>3
  <2>. QED  BY <2>1 DEF PassSound
<1>. QED  BY <1>1, <1>3

\* A step that leaves bars and rows alone keeps what is said of them.
LEMMA RowsKept ==
  ASSUME Sound, NEW p \in Scanners, Alone(p), NEW x, x \in Pass, PassSound(x), Goes(p, x),
         UNCHANGED <<now, bars, signals>>
  PROVE  /\ \A s : StoredBars(s)' = StoredBars(s)
         /\ \A q \in Scanners : PassSound(pass[q])'
         /\ SignalsSound'
<1>. USE DEF Sound
<1>1. UNCHANGED <<now, bars, signals>>
  OBVIOUS
<1>2. pass'[p] = x
  BY TypedPass
<1>3. \A row : Justified(row)' <=> Justified(row)
  BY <1>1 DEF Justified, StoredBars, SessionOpen, MorningBars
<1>4. Seen' = Seen /\ \A s : StoredBars(s)' = StoredBars(s)
  BY <1>1 DEF Seen, StoredBars
<1>5. SignalsSound'
  BY <1>1, <1>3 DEF SignalsSound
<1>6. PassSound(x)'
  <2>1. FoundSound(x.found) => FoundSound(x.found)'
    BY <1>1, <1>3, <1>4 DEF FoundSound
  <2>. QED  BY <1>1, <1>4, <2>1 DEF PassSound
<1>7. \A q \in Scanners : PassSound(pass[q])'
  BY <1>6, OnlyPass
<1>. QED  BY <1>4, <1>5, <1>7

\* A step that changes only what one scanner is doing.
LEMMA PassKeeps ==
  ASSUME Sound, NEW p \in Scanners, Alone(p), NEW x, x \in Pass, PassSound(x), Goes(p, x),
         UNCHANGED <<now, Tables>>, faults' \in 0..MaxFaults
  PROVE  Sound'
<1>1. UNCHANGED <<now, samples, bars, signals>>
  BY DEF Tables
<1>2. Typed'
  BY <1>1, TypedPass DEF Sound, Typed
<1>3. Past'
  BY <1>1 DEF Sound, Past
<1>4. BarsBuilt'
  BY <1>1 DEF Sound, BarsBuilt, StoredBars, Enough, Built, SampleTicks
<1>5. BarsComplete'
  BY <1>1 DEF Sound, BarsComplete, StoredBars, Enough, SampleTicks
<1>6. SignalsSound' /\ \A q \in Scanners : PassSound(pass[q])'
  BY <1>1, RowsKept
<1>. QED  BY <1>2, <1>3, <1>4, <1>5, <1>6 DEF Sound

\* The sample that is stored belongs to a bucket behind every stored bar.
LEMMA StoreSampleKeeps ==
  ASSUME Sound, NEW p \in Scanners, Alone(p), StoreSample(p)
  PROVE  Sound'
<1>. DEFINE h == Head(pass[p].queue)
            u == pass[p].at
<1>1. pass[p] \in Pass /\ PassSound(pass[p]) /\ pass[p].step = "store"
  BY DEF Sound, Typed, StoreSample, At
<1>2. /\ pass[p].queue # <<>> /\ IsInjective(pass[p].queue)
      /\ pass[p].quote \in Prices /\ u \in Ticks /\ u <= now
      /\ \A s \in Symbols : \A b \in StoredBars(s) : BarEnd(b) <= u
  BY <1>1 DEF PassSound
<1>3. pass[p].queue \in Seq(Symbols)
  BY <1>1 DEF Pass
<1>4. h \in Symbols
  BY <1>2, <1>3, QueueTail
<1>5. /\ samples' = [samples EXCEPT ![h][u] = pass[p].quote]
      /\ UNCHANGED <<now, bars, signals>> /\ UNCHANGED faults
      /\ NextSymbol(p, "capture", BuildStep(p))
  BY DEF StoreSample
<1>6. PICK x \in Pass : Goes(p, x) /\ PassSound(x)
  <2>1. BuildStep(p) \in Pass /\ PassSound(BuildStep(p))
    BY BuildSound DEF Sound
  <2>. QED  BY <1>1, <1>5, <2>1, NextSymbolSound DEF Sound
<1>. HIDE DEF h, u
<1>7. Typed'
  <2>1. pass' \in [Scanners -> Pass]
    BY <1>6, TypedPass DEF Sound
  <2>2. samples' \in [Symbols -> [Ticks -> Prices \union {NoPrice}]]
    BY <1>2, <1>4, <1>5 DEF Sound, Typed
  <2>. QED  BY <1>5, <2>1, <2>2 DEF Sound, Typed
<1>8. \A s \in Symbols, t \in Ticks :
        samples'[s][t] = IF s = h /\ t = u THEN pass[p].quote ELSE samples[s][t]
  BY <1>2, <1>4, <1>5 DEF Sound, Typed
<1>9. Past'
  BY <1>2, <1>5, <1>8 DEF Sound, Past
<1>10. \A s : StoredBars(s)' = StoredBars(s)
  BY <1>5 DEF StoredBars
<1>11. ASSUME NEW s \in Symbols, NEW b \in StoredBars(s), NEW c \in Bars, c <= b
       PROVE  /\ Enough(s, c)' = Enough(s, c)
              /\ Enough(s, c) => Built(s, c)' = Built(s, c)
  <2>1. b \in Nat /\ c \in Nat
    BY BarsNat DEF StoredBars
  <2>2. /\ BarStart(b) \in Nat /\ BarEnd(b) \in Nat /\ BarStart(c) \in Nat /\ BarEnd(c) \in Nat
        /\ BarStart(b) < BarEnd(b) /\ (c < b => BarEnd(c) <= BarStart(b))
    BY <2>1, Buckets
  <2>3. u \in Nat /\ BarEnd(b) <= u
    BY <1>2 DEF Ticks
  <2>4. BarEnd(c) <= u
    <3>1. CASE c = b
      BY <2>3, <3>1
    <3>2. CASE c < b
      BY <2>2, <2>3, <3>2
    <3>. QED  BY <1>11, <2>1, <3>1, <3>2
  <2>5. \A t \in BarStart(c)..(BarEnd(c) - 1) : samples'[s][t] = samples[s][t]
    <3>. SUFFICES ASSUME NEW t \in BarStart(c)..(BarEnd(c) - 1)
                  PROVE  samples'[s][t] = samples[s][t]
      OBVIOUS
    <3>1. t \in Nat /\ t < u
      BY <2>2, <2>3, <2>4
    <3>2. t \in Ticks
      BY <1>2, <3>1, Constants DEF Ticks
    <3>. QED  BY <1>8, <3>1, <3>2
  <2>. QED  BY <2>1, <2>5, BucketKept
<1>12. BarsBuilt'
  <2>. SUFFICES ASSUME NEW s \in Symbols, NEW b \in StoredBars(s)
                PROVE  BarEnd(b) <= now' /\ Enough(s, b)' /\ bars'[s][b] = Built(s, b)'
    BY <1>10 DEF BarsBuilt, BarEnd, BarStart
  <2>1. b \in Bars /\ b <= b
    BY BarsNat DEF StoredBars
  <2>2. BarEnd(b) <= now /\ Enough(s, b) /\ bars[s][b] = Built(s, b)
    BY DEF Sound, BarsBuilt
  <2>3. Enough(s, b)' /\ Built(s, b)' = Built(s, b)
    BY <1>11, <2>1, <2>2
  <2>. QED  BY <1>5, <2>2, <2>3
<1>13. BarsComplete'
  <2>. SUFFICES ASSUME NEW s \in Symbols, NEW b \in StoredBars(s), NEW c \in Bars,
                       c < b, Enough(s, c)'
                PROVE  c \in StoredBars(s)
    BY <1>10 DEF BarsComplete
  <2>1. b \in Nat /\ c \in Nat
    BY BarsNat DEF StoredBars
  <2>2. Enough(s, c)
    BY <1>11, <2>1
  <2>. QED  BY <2>2 DEF Sound, BarsComplete
<1>14. SignalsSound' /\ \A q \in Scanners : PassSound(pass[q])'
  BY <1>5, <1>6, RowsKept
<1>. QED  BY <1>7, <1>9, <1>12, <1>13, <1>14 DEF Sound

\* What building the bars of a symbol stores: every bucket with enough samples
\* that ended by then.  All that is new lies behind what was stored.
LEMMA BuildBarsStores ==
  ASSUME Sound, NEW p \in Scanners, BuildBars(p)
  PROVE  \A s \in Symbols :
           /\ \A b \in StoredBars(s) : b \in StoredBars(s)' /\ bars'[s][b] = bars[s][b]
           /\ \A b \in StoredBars(s)' : b \notin StoredBars(s) =>
                /\ BarEnd(b) <= pass[p].at /\ Enough(s, b) /\ bars'[s][b] = Built(s, b)
                /\ \A c \in StoredBars(s) : c < b
                /\ \A c \in Bars : c < b /\ Enough(s, c) => c \in StoredBars(s)'
<1>. DEFINE h == Head(pass[p].queue)
            u == pass[p].at
<1>1. pass[p] \in Pass /\ PassSound(pass[p]) /\ pass[p].step = "build"
  BY DEF Sound, Typed, BuildBars, At
<1>2. /\ pass[p].queue # <<>> /\ IsInjective(pass[p].queue) /\ u <= now /\ u \in Nat
      /\ \A s \in Symbols : \A b \in StoredBars(s) : BarEnd(b) <= u
  BY <1>1, Constants DEF PassSound, Pass
<1>3. h \in Symbols
  BY <1>1, <1>2, QueueTail DEF Pass
<1>4. now \in Nat
  BY Constants DEF Sound, Typed
<1>5. bars' = IF pass[p].execute THEN [bars EXCEPT ![h] = Upserted(h, u)] ELSE bars
  BY DEF BuildBars
<1>. HIDE DEF h, u
<1>6. \A s \in Symbols, b \in Bars :
        bars'[s][b] = IF pass[p].execute /\ s = h /\ BarOf(s, b, u) # NoBar
                      THEN BarOf(s, b, u) ELSE bars[s][b]
  BY <1>3, <1>5 DEF Sound, Typed, Upserted
<1>7. ASSUME NEW s \in Symbols, NEW b \in Bars, BarOf(s, b, u) # NoBar
      PROVE  BarEnd(b) <= u /\ Enough(s, b) /\ BarOf(s, b, u) = Built(s, b)
  BY <1>7 DEF BarOf, Enough, Built
<1>8. ASSUME NEW s \in Symbols, NEW b \in Bars, BarEnd(b) <= u, Enough(s, b)
      PROVE  BarOf(s, b, u) # NoBar
  <2>1. b \in Nat /\ BarEnd(b) \in Nat
    BY BarsNat, Buckets
  <2>2. BarEnd(b) <= now
    BY <1>2, <1>4, <1>8, <2>1
  <2>3. Built(s, b) # NoBar
    BY <1>8, <2>1, <2>2, BuiltIsBar DEF Sound
  <2>. QED  BY <1>8, <2>3 DEF BarOf, Enough, Built
<1>. SUFFICES ASSUME NEW s \in Symbols
              PROVE
           /\ \A b \in StoredBars(s) : b \in StoredBars(s)' /\ bars'[s][b] = bars[s][b]
           /\ \A b \in StoredBars(s)' : b \notin StoredBars(s) =>
                /\ BarEnd(b) <= u /\ Enough(s, b) /\ bars'[s][b] = Built(s, b)
                /\ \A c \in StoredBars(s) : c < b
                /\ \A c \in Bars : c < b /\ Enough(s, c) => c \in StoredBars(s)'
  BY DEF u
<1>9. StoredBars(s)' = {b \in Bars : bars'[s][b] # NoBar}
  BY DEF StoredBars, NoBar, Bars
<1>10. ASSUME NEW b \in StoredBars(s)
       PROVE  b \in Bars /\ b \in StoredBars(s)' /\ bars'[s][b] = bars[s][b]
  <2>1. b \in Bars /\ bars[s][b] # NoBar
    BY DEF StoredBars
  <2>2. bars[s][b] = Built(s, b)
    BY DEF Sound, BarsBuilt
  <2>3. bars'[s][b] = bars[s][b]
    BY <1>6, <1>7, <2>1, <2>2
  <2>. QED  BY <1>9, <2>1, <2>3
<1>11. ASSUME NEW b \in StoredBars(s)', b \notin StoredBars(s)
       PROVE  /\ BarEnd(b) <= u /\ Enough(s, b) /\ bars'[s][b] = Built(s, b)
              /\ \A c \in StoredBars(s) : c < b
              /\ \A c \in Bars : c < b /\ Enough(s, c) => c \in StoredBars(s)'
  <2>1. b \in Bars /\ bars'[s][b] # NoBar /\ bars[s][b] = NoBar
    BY <1>9, <1>11 DEF StoredBars
  <2>2. pass[p].execute /\ s = h /\ BarOf(s, b, u) # NoBar /\ bars'[s][b] = BarOf(s, b, u)
    BY <1>6, <2>1
  <2>3. BarEnd(b) <= u /\ Enough(s, b) /\ bars'[s][b] = Built(s, b)
    BY <1>7, <2>1, <2>2
  <2>4. ASSUME NEW c \in StoredBars(s) PROVE c < b
    <3>1. c \in Nat /\ b \in Nat /\ c # b
      BY <1>11, <2>1, BarsNat DEF StoredBars
    <3>2. ~(b < c)
      BY <1>11, <2>1, <2>3 DEF Sound, BarsComplete
    <3>. QED  BY <3>1, <3>2
  <2>5. ASSUME NEW c \in Bars, c < b, Enough(s, c) PROVE c \in StoredBars(s)'
    <3>1. c \in Nat /\ b \in Nat
      BY <2>1, BarsNat
    <3>2. BarEnd(c) <= BarStart(b) /\ BarStart(b) < BarEnd(b)
          /\ BarEnd(c) \in Nat /\ BarStart(b) \in Nat /\ BarEnd(b) \in Nat
      BY <2>5, <3>1, Buckets
    <3>3. BarEnd(c) <= u
      BY <1>2, <2>3, <3>2
    <3>4. BarOf(s, c, u) # NoBar
      BY <1>8, <2>5, <3>3
    <3>5. bars'[s][c] = BarOf(s, c, u)
      BY <1>6, <2>2, <3>4
    <3>. QED  BY <1>9, <3>4, <3>5
  <2>. QED  BY <2>3, <2>4, <2>5
<1>. QED  BY <1>10, <1>11

\* A row that was justified stays so: the open of the session is the open of a
\* bar before the new ones, and the morning is over when a breakout is judged.
LEMMA JustifiedGrows ==
  ASSUME Sound, Typed', NEW p \in Scanners, BuildBars(p),
         NEW row, row.symbol \in Symbols, Justified(row)
  PROVE  Justified(row)'
<1>. DEFINE s == row.symbol
            old == StoredBars(s)
            new == StoredBars(s)'
<1>1. /\ \A b \in old : b \in new /\ bars'[s][b] = bars[s][b]
      /\ \A b \in new : b \notin old =>
           /\ Enough(s, b) /\ \A c \in old : c < b
  BY BuildBarsStores
<1>2. row.bar \in old /\ row.close = bars[s][row.bar].close
  BY DEF Justified
<1>3. /\ old \in SUBSET Nat /\ Min(old) \in old /\ \A b \in old : Min(old) <= b
  BY <1>2, Stored DEF Sound
<1>4. new \in SUBSET Nat /\ new # {}
  BY <1>1, <1>2, BarsNat DEF StoredBars
<1>. HIDE DEF old, new
<1>5. Min(new) \in new /\ \A b \in new : Min(new) <= b
  BY <1>4, NatMin
<1>6. Min(new) = Min(old)
  <2>1. Min(old) \in new
    BY <1>1, <1>3
  <2>2. PICK m : m = Min(new)
    OBVIOUS
  <2>3. PICK k : k = Min(old)
    OBVIOUS
  <2>4. m \in new /\ m \in Nat /\ k \in Nat /\ m <= k
    BY <1>3, <1>4, <1>5, <2>1, <2>2, <2>3
  <2>5. m \in old
    <3>. SUFFICES ASSUME m \notin old PROVE FALSE
      OBVIOUS
    <3>1. k < m
      BY <1>1, <1>3, <2>3, <2>4
    <3>. QED  BY <2>4, <3>1
  <2>6. k <= m
    BY <1>3, <2>3, <2>5
  <2>. QED  BY <2>2, <2>3, <2>4, <2>6
<1>7. SessionOpen(s)' = SessionOpen(s)
  <2>1. SessionOpen(s)' = bars'[s][Min(new)].open
    BY DEF SessionOpen, new
  <2>2. SessionOpen(s) = bars[s][Min(old)].open
    BY DEF SessionOpen, old
  <2>. QED  BY <1>1, <1>3, <1>6, <2>1, <2>2
<1>8. row.bar \in new /\ row.close = bars'[s][row.bar].close
  BY <1>1, <1>2
<1>9. ASSUME InRange(row.bar), NEW b \in new, BarEnd(b) <= MorningEnd
      PROVE  b \in old
  <2>. SUFFICES ASSUME b \notin old PROVE FALSE
    OBVIOUS
  <2>1. row.bar < b /\ row.bar \in Nat /\ b \in Nat
    BY <1>1, <1>2, <1>3, <1>4
  <2>2. /\ BarEnd(row.bar) <= BarStart(b) /\ BarStart(b) < BarEnd(b)
        /\ BarEnd(row.bar) \in Nat /\ BarStart(b) \in Nat /\ BarEnd(b) \in Nat
    BY <2>1, Buckets
  <2>3. BarEnd(row.bar) >= RangeStart /\ MorningEnd <= RangeStart
        /\ MorningEnd \in Nat /\ RangeStart \in Nat
    BY <1>9, Constants DEF InRange
  <2>. QED  BY <1>9, <2>2, <2>3
<1>10. ASSUME row.strategy = "range_trigger"
       PROVE  InRange(row.bar)' /\ \A b \in MorningBars(s)' : row.close > bars'[s][b].close
  <2>1. InRange(row.bar) /\ \A b \in MorningBars(s) : row.close > bars[s][b].close
    BY <1>10 DEF Justified
  <2>2. \A b \in MorningBars(s)' : b \in new /\ BarEnd(b) <= MorningEnd
    BY DEF MorningBars, new, BarEnd, BarStart
  <2>3. \A b \in MorningBars(s)' : b \in old /\ b \in MorningBars(s)
    BY <1>9, <2>1, <2>2 DEF MorningBars, old
  <2>. QED  BY <1>1, <2>1, <2>3 DEF InRange, BarEnd, BarStart
<1>11. row.strategy = "morning_dip" => InMorning(row.bar) /\ row.close < SessionOpen(s)'
  BY <1>7 DEF Justified
<1>12. row.strategy = "morning_trigger" => InMorning(row.bar) /\ row.close > SessionOpen(s)'
  BY <1>7 DEF Justified
<1>. QED  BY <1>8, <1>10, <1>11, <1>12 DEF Justified, new, InMorning, BarEnd, BarStart

LEMMA BuildBarsKeeps ==
  ASSUME Sound, NEW p \in Scanners, Alone(p), BuildBars(p)
  PROVE  Sound'
<1>1. pass[p] \in Pass /\ PassSound(pass[p]) /\ pass[p].step = "build"
  BY DEF Sound, Typed, BuildBars, At
<1>2. /\ pass[p].at <= now /\ pass[p].at \in Nat
      /\ \A s \in Symbols : \A b \in StoredBars(s) : BarEnd(b) <= pass[p].at
  BY <1>1, Constants DEF PassSound, Pass
<1>3. UNCHANGED <<now, samples, signals, faults>> /\ NextSymbol(p, "build", LoadStep(p))
  BY DEF BuildBars
<1>4. LoadStep(p) \in Pass /\ PassSound(LoadStep(p))
  BY LoadSound DEF Sound
<1>5. PICK x \in Pass : /\ Goes(p, x) /\ PassSound(x)
                        /\ x = LoadStep(p) \/ (x.step = "build" /\ x.at = pass[p].at)
  BY <1>1, <1>3, <1>4, NextSymbolSound DEF Sound
<1>6. pass' \in [Scanners -> Pass] /\ pass'[p] = x
  BY <1>5, TypedPass DEF Sound
<1>7. \A s \in Symbols :
           /\ \A b \in StoredBars(s) : b \in StoredBars(s)' /\ bars'[s][b] = bars[s][b]
           /\ \A b \in StoredBars(s)' : b \notin StoredBars(s) =>
                /\ BarEnd(b) <= pass[p].at /\ Enough(s, b) /\ bars'[s][b] = Built(s, b)
                /\ \A c \in StoredBars(s) : c < b
                /\ \A c \in Bars : c < b /\ Enough(s, c) => c \in StoredBars(s)'
  BY BuildBarsStores
<1>8. \A s \in Symbols : \A b \in StoredBars(s)' :
        b \in Bars /\ BarEnd(b) <= pass[p].at /\ BarEnd(b) <= now
        /\ Enough(s, b) /\ bars'[s][b] = Built(s, b)
  <2>. SUFFICES ASSUME NEW s \in Symbols, NEW b \in StoredBars(s)'
                PROVE  /\ b \in Bars /\ BarEnd(b) <= pass[p].at /\ BarEnd(b) <= now
                       /\ Enough(s, b) /\ bars'[s][b] = Built(s, b)
    OBVIOUS
  <2>1. b \in Bars
    BY DEF StoredBars, Bars
  <2>2. BarEnd(b) <= pass[p].at /\ Enough(s, b) /\ bars'[s][b] = Built(s, b)
    BY <1>2, <1>7 DEF Sound, BarsBuilt
  <2>3. BarEnd(b) \in Nat /\ now \in Nat
    BY <2>1, BarsNat, Buckets, Constants DEF Sound, Typed
  <2>. QED  BY <1>2, <2>1, <2>2, <2>3
<1>9. \A s, b : Enough(s, b)' = Enough(s, b) /\ Built(s, b)' = Built(s, b)
  BY <1>3 DEF Enough, Built, SampleTicks
<1>10. Typed'
  <2>1. bars' \in [Symbols -> [Bars -> Bar \union {NoBar}]]
    <3>1. \A u : \A s \in Symbols, b \in Bars :
            \/ BarOf(s, b, u) = NoBar
            \/ BarEnd(b) <= u /\ Enough(s, b) /\ BarOf(s, b, u) = Built(s, b)
      BY DEF BarOf, Enough, Built
    <3>2. \A s \in Symbols, b \in Bars : BarOf(s, b, pass[p].at) \in Bar \union {NoBar}
      <4>. SUFFICES ASSUME NEW s \in Symbols, NEW b \in Bars,
                           BarEnd(b) <= pass[p].at, Enough(s, b)
                    PROVE  Built(s, b) \in Bar
        BY <3>1
      <4>1. b \in Nat /\ BarEnd(b) \in Nat /\ now \in Nat
        BY BarsNat, Buckets, Constants DEF Sound, Typed
      <4>2. BarEnd(b) <= now
        BY <1>2, <4>1
      <4>. QED  BY <4>1, <4>2, BuiltIsBar DEF Sound
    <3>3. bars \in [Symbols -> [Bars -> Bar \union {NoBar}]]
      BY DEF Sound, Typed
    <3>4. \A s \in Symbols : Upserted(s, pass[p].at) \in [Bars -> Bar \union {NoBar}]
      BY <3>2, <3>3 DEF Upserted
    <3>. QED  BY <3>3, <3>4 DEF BuildBars
  <2>. QED  BY <1>3, <1>6, <2>1 DEF Sound, Typed
<1>11. Past'
  BY <1>3 DEF Sound, Past
<1>12. BarsBuilt'
  BY <1>3, <1>8, <1>9 DEF BarsBuilt, BarEnd, BarStart
<1>13. BarsComplete'
  <2>. SUFFICES ASSUME NEW s \in Symbols, NEW b \in StoredBars(s)', NEW c \in Bars,
                       c < b, Enough(s, c)
                PROVE  c \in StoredBars(s)'
    BY <1>9 DEF BarsComplete, Bars
  <2>1. CASE b \in StoredBars(s)
    BY <1>7, <2>1 DEF Sound, BarsComplete
  <2>2. CASE b \notin StoredBars(s)
    BY <1>7, <2>2
  <2>. QED  BY <2>1, <2>2
<1>14. \A q \in Scanners : PassSound(pass[q])'
  <2>1. PassSound(x)'
    <3>1. CASE x = LoadStep(p)
      <4>1. x.step = "load" /\ x.found = <<>>
        <5>1. pass[p] \in Pass
          BY <1>1
        <5>. QED  BY <3>1, <5>1 DEF LoadStep, Idle, Pass
      <4>. QED  BY <4>1 DEF PassSound
    <3>2. CASE x.step = "build" /\ x.at = pass[p].at
      BY <1>2, <1>3, <1>5, <1>8, <3>2 DEF PassSound, BarEnd, BarStart
    <3>. QED  BY <1>5, <3>1, <3>2
  <2>. QED  BY <1>5, <2>1, OnlyPass DEF Sound
<1>15. SignalsSound'
  <2>1. \A i \in DOMAIN signals : signals[i].symbol \in Symbols
    <3>1. \A i \in DOMAIN signals : signals[i] \in Row
      BY DEF Sound, Typed
    <3>2. \A row \in Row : row.symbol \in Symbols
      BY DEF Row
    <3>. QED  BY <3>1, <3>2
  <2>2. \A i \in DOMAIN signals : Justified(signals[i])'
    <3>. SUFFICES ASSUME NEW i \in DOMAIN signals PROVE Justified(signals[i])'
      OBVIOUS
    <3>1. PICK row : row = signals[i]
      OBVIOUS
    <3>2. row.symbol \in Symbols /\ Justified(row)
      BY <2>1, <3>1 DEF Sound, SignalsSound
    <3>3. Justified(row)'
      BY <1>10, <3>2, JustifiedGrows
    <3>. QED  BY <1>3, <3>1, <3>3 DEF Justified
  <2>. QED  BY <1>3, <2>2 DEF Sound, SignalsSound
<1>. QED  BY <1>10, <1>11, <1>12, <1>13, <1>14, <1>15 DEF Sound

LEMMA RecordKeeps ==
  ASSUME Sound, NEW p \in Scanners, Alone(p), Record(p)
  PROVE  Sound'
<1>. DEFINE found == pass[p].found
            m == Len(signals)
<1>1. pass[p] \in Pass /\ PassSound(pass[p]) /\ pass[p].step = "record"
  BY DEF Sound, Typed, Record, At
<1>2. FoundSound(found) /\ found \in Seq(Row) /\ signals \in Seq(Row)
  BY <1>1 DEF PassSound, Pass, Sound, Typed
<1>3. signals' = signals \o found /\ UNCHANGED <<now, samples, bars, faults>> /\ Goes(p, Idle)
  BY DEF Record
<1>. HIDE DEF found, m
<1>4. pass' \in [Scanners -> Pass] /\ pass'[p] = Idle
  BY <1>3, IdleSound, TypedPass DEF Sound
<1>5. /\ m \in Nat /\ Len(found) \in Nat
      /\ DOMAIN signals = 1..m /\ DOMAIN found = 1..Len(found)
      /\ signals' \in Seq(Row) /\ DOMAIN signals' = 1..(m + Len(found))
      /\ \A i \in 1..(m + Len(found)) :
           signals'[i] = IF i <= m THEN signals[i] ELSE found[i - m]
  BY <1>2, <1>3, ConcatProperties DEF m
<1>6. \A i \in DOMAIN signals' :
        \/ i \in DOMAIN signals /\ signals'[i] = signals[i] /\ i <= m
        \/ i - m \in DOMAIN found /\ signals'[i] = found[i - m] /\ i > m
  BY <1>5
<1>7. Typed'
  BY <1>3, <1>4, <1>5 DEF Sound, Typed
<1>8. Past' /\ BarsBuilt' /\ BarsComplete'
  BY <1>3 DEF Sound, Past, BarsBuilt, BarsComplete, StoredBars, Enough, Built, SampleTicks
<1>9. \A q \in Scanners : PassSound(pass[q])'
  <2>1. PICK x : x = Idle
    OBVIOUS
  <2>2. x.step = "idle" /\ x \in Pass
    BY <2>1, IdleSound DEF Idle, Sound
  <2>3. PassSound(x)'
    BY <2>2 DEF PassSound
  <2>. QED  BY <1>3, <2>1, <2>2, <2>3, OnlyPass DEF Sound
<1>10. \A row : Justified(row)' <=> Justified(row)
  BY <1>3 DEF Justified, StoredBars, SessionOpen, MorningBars
<1>11. \A i \in DOMAIN signals' : Justified(signals'[i])
  BY <1>2, <1>6 DEF Sound, SignalsSound, FoundSound
<1>12. ASSUME NEW i \in DOMAIN signals', NEW j \in DOMAIN signals',
              signals'[i].symbol = signals'[j].symbol, signals'[i].strategy = signals'[j].strategy
       PROVE  i = j
  <2>1. /\ \A k \in DOMAIN signals : <<signals[k].symbol, signals[k].strategy>> \in Seen
        /\ \A k \in DOMAIN found : <<found[k].symbol, found[k].strategy>> \notin Seen
        /\ \A k, l \in DOMAIN found : found[k].symbol = found[l].symbol => k = l
    BY <1>2 DEF Seen, ToSet, FoundSound
  <2>2. CASE i <= m /\ j <= m
    <3>1. /\ i \in DOMAIN signals /\ signals'[i] = signals[i]
          /\ j \in DOMAIN signals /\ signals'[j] = signals[j]
      BY <1>5, <2>2
    <3>. QED  BY <1>12, <3>1 DEF Sound, SignalsSound
  <2>3. CASE i > m /\ j > m
    <3>1. /\ i - m \in DOMAIN found /\ signals'[i] = found[i - m]
          /\ j - m \in DOMAIN found /\ signals'[j] = found[j - m]
      BY <1>5, <2>3
    <3>2. i - m = j - m
      BY <1>12, <2>1, <3>1
    <3>. QED  BY <1>5, <3>2
  <2>4. CASE i <= m /\ j > m
    <3>1. /\ i \in DOMAIN signals /\ signals'[i] = signals[i]
          /\ j - m \in DOMAIN found /\ signals'[j] = found[j - m]
      BY <1>5, <2>4
    <3>. QED  BY <1>12, <2>1, <3>1
  <2>5. CASE i > m /\ j <= m
    <3>1. /\ i - m \in DOMAIN found /\ signals'[i] = found[i - m]
          /\ j \in DOMAIN signals /\ signals'[j] = signals[j]
      BY <1>5, <2>5
    <3>. QED  BY <1>12, <2>1, <3>1
  <2>6. i \in Nat /\ j \in Nat
    BY <1>5
  <2>. QED  BY <1>5, <2>2, <2>3, <2>4, <2>5, <2>6
<1>13. ASSUME NEW i \in DOMAIN signals', signals'[i].strategy = "morning_trigger"
       PROVE  \E j \in 1..(i - 1) : /\ signals'[j].symbol = signals'[i].symbol
                                    /\ signals'[j].strategy = "morning_dip"
                                    /\ signals'[j].bar < signals'[i].bar
  <2>1. \A j \in 1..m : j \in DOMAIN signals' /\ signals'[j] = signals[j]
    BY <1>5
  <2>2. CASE i \in DOMAIN signals /\ signals'[i] = signals[i] /\ i <= m
    <3>1. PICK j \in 1..(i - 1) : /\ signals[j].symbol = signals[i].symbol
                                  /\ signals[j].strategy = "morning_dip"
                                  /\ signals[j].bar < signals[i].bar
      BY <1>13, <2>2 DEF Sound, SignalsSound
    <3>2. j \in 1..m
      BY <1>5, <2>2
    <3>. QED  BY <2>1, <2>2, <3>1, <3>2
  <2>3. CASE i - m \in DOMAIN found /\ signals'[i] = found[i - m] /\ i > m
    <3>1. PICK j \in DOMAIN signals : /\ signals[j].symbol = found[i - m].symbol
                                      /\ signals[j].strategy = "morning_dip"
                                      /\ signals[j].bar < found[i - m].bar
      BY <1>2, <1>13, <2>3 DEF FoundSound
    <3>2. j \in 1..m /\ j \in 1..(i - 1)
      BY <1>5, <2>3
    <3>. QED  BY <2>1, <2>3, <3>1, <3>2
  <2>. QED  BY <1>6, <2>2, <2>3
<1>14. SignalsSound'
  <2>1. \A i \in DOMAIN signals' : Justified(signals[i])'
    <3>. SUFFICES ASSUME NEW i \in DOMAIN signals' PROVE Justified(signals[i])'
      OBVIOUS
    <3>1. Justified(signals'[i])
      BY <1>11
    <3>. QED  BY <1>3, <3>1 DEF Justified, StoredBars, SessionOpen, MorningBars
  <2>. QED  BY <1>12, <1>13, <2>1 DEF SignalsSound
<1>. QED  BY <1>7, <1>8, <1>9, <1>14 DEF Sound

LEMMA TickKeeps ==
  ASSUME Sound, Tick
  PROVE  Sound'
<1>1. now \in 0..LastTick /\ now < LastTick /\ now' = now + 1 /\ LastTick \in Nat
      /\ UNCHANGED <<samples, bars, signals, pass, faults>>
  BY Constants DEF Tick, Tables, Sound, Typed
<1>2. Typed'
  BY <1>1 DEF Sound, Typed
<1>3. Past'
  BY <1>1 DEF Sound, Past, Ticks
<1>4. \A s : StoredBars(s)' = StoredBars(s)
  BY <1>1 DEF StoredBars
<1>5. BarsBuilt'
  <2>1. \A s \in Symbols : \A b \in StoredBars(s) : BarEnd(b) \in Nat
    BY BarsNat, Buckets DEF StoredBars
  <2>2. \A s \in Symbols : \A b \in StoredBars(s) : BarEnd(b) <= now + 1
    BY <1>1, <2>1 DEF Sound, BarsBuilt
  <2>. QED  BY <1>1, <1>4, <2>2 DEF Sound, BarsBuilt, Enough, Built, SampleTicks, BarEnd, BarStart
<1>6. BarsComplete'
  BY <1>1 DEF Sound, BarsComplete, StoredBars, Enough, SampleTicks
<1>7. \A row : Justified(row)' <=> Justified(row)
  BY <1>1 DEF Justified, StoredBars, SessionOpen, MorningBars
<1>8. SignalsSound'
  BY <1>1, <1>7 DEF Sound, SignalsSound
<1>9. ASSUME NEW p \in Scanners PROVE PassSound(pass[p])'
  <2>1. PICK x : x = pass[p]
    OBVIOUS
  <2>2. x \in Pass /\ PassSound(x) /\ x = pass'[p]
    BY <1>1, <2>1 DEF Sound, Typed
  <2>3. Seen' = Seen
    BY <1>1 DEF Seen
  <2>4. FoundSound(x.found) => FoundSound(x.found)'
    BY <1>1, <1>7, <2>3 DEF FoundSound
  <2>5. x.at <= now => x.at <= now'
    BY <1>1, <2>2 DEF Pass
  <2>. QED  BY <1>4, <2>2, <2>3, <2>4, <2>5 DEF PassSound
<1>. QED  BY <1>2, <1>3, <1>5, <1>6, <1>8, <1>9 DEF Sound

-----------------------------------------------------------------------------
(* What a scan finds                                                       *)

\* No close of the morning is above its high.
LEMMA HighOfMorning ==
  ASSUME Typed, NEW s \in Symbols, NEW b \in MorningBars(s)
  PROVE  MorningHigh(s) \in Nat /\ bars[s][b].close <= MorningHigh(s)
<1>. DEFINE closes == {bars[s][c].close : c \in MorningBars(s)}
            f == [c \in Bars |-> bars[s][c].close]
<1>1. MorningBars(s) \in SUBSET Bars /\ \A c \in MorningBars(s) : bars[s][c] \in Bar
  BY Stored DEF MorningBars
<1>2. \A c \in MorningBars(s) : bars[s][c].close \in Nat
  BY <1>1, Constants DEF Bar
<1>3. PICK K \in Nat : Bars \subseteq 0..K
  BY BarsNat
<1>4. MorningBars(s) \in SUBSET (0..K) /\ \A c \in MorningBars(s) : f[c] \in Nat
  BY <1>1, <1>2, <1>3
<1>5. PICK n \in Nat : \A c \in MorningBars(s) : f[c] <= n
  <2>. HIDE DEF f
  <2>. QED  BY <1>4, Bounded
<1>6. \A c \in MorningBars(s) : bars[s][c].close <= n
  BY <1>1, <1>5
<1>7. closes \in SUBSET Nat /\ closes # {} /\ \A y \in closes : y <= n
  BY <1>2, <1>6
<1>8. bars[s][b].close \in closes
  OBVIOUS
<1>. HIDE DEF closes
<1>9. Max(closes) \in closes /\ \A y \in closes : y <= Max(closes)
  BY <1>7, NatMax
<1>. QED  BY <1>7, <1>8, <1>9 DEF MorningHigh, closes

\* A row that may be recorded.
Recordable(row) ==
  /\ row \in Row
  /\ <<row.symbol, row.strategy>> \notin Seen
  /\ Justified(row)
  /\ row.strategy = "morning_trigger" =>
       \E j \in DOMAIN signals : /\ signals[j].symbol = row.symbol
                                 /\ signals[j].strategy = "morning_dip"
                                 /\ signals[j].bar < row.bar

\* The row of a transition of the latest bar may be recorded.
LEMMA TransitionRecordable ==
  ASSUME Sound, NEW s \in Symbols, StoredBars(s) # {},
         NEW strategy \in Transition(s, Seen),
         NEW row, row = [symbol |-> s, strategy |-> strategy, bar |-> LatestBar(s),
                         close |-> bars[s][LatestBar(s)].close]
  PROVE  Recordable(row) /\ Transition(s, Seen) = {strategy}
<1>. DEFINE b == LatestBar(s)
            state == StateOf(s, Seen)
<1>1. /\ b \in StoredBars(s) /\ b \in Bars /\ b \in Nat /\ bars[s][b] \in Bar
      /\ \A c \in StoredBars(s) : c <= b /\ c \in Nat /\ bars[s][c] \in Bar
      /\ Min(StoredBars(s)) \in StoredBars(s)
  BY Stored DEF Sound
<1>2. /\ row.symbol = s /\ row.strategy = strategy /\ row.bar = b
      /\ row.close = bars[s][b].close
  OBVIOUS
<1>3. bars[s][b].close \in Prices /\ bars[s][b].close \in Nat
  BY <1>1, Constants DEF Bar
<1>4. SessionOpen(s) \in Nat
  BY <1>1, Constants DEF Bar, SessionOpen
<1>5. /\ state.dipped = (<<s, "morning_dip">> \in Seen \/ <<s, "morning_trigger">> \in Seen)
      /\ state.morning = (<<s, "morning_trigger">> \in Seen)
      /\ state.range = (<<s, "range_trigger">> \in Seen)
  BY DEF StateOf
<1>. HIDE DEF b, state
<1>6. /\ \/ /\ InMorning(b) /\ ~state.morning
            /\ strategy \in MorningReclaim(state, SessionOpen(s), bars[s][b].close)
            /\ Transition(s, Seen) = MorningReclaim(state, SessionOpen(s), bars[s][b].close)
         \/ /\ InRange(b) /\ ~state.range /\ MorningBars(s) # {}
            /\ strategy \in RangeBreakout(MorningHigh(s), bars[s][b].close)
            /\ Transition(s, Seen) = RangeBreakout(MorningHigh(s), bars[s][b].close)
  BY DEF Transition, b, state
<1>7. CASE /\ InMorning(b) /\ ~state.dipped /\ bars[s][b].close < SessionOpen(s)
           /\ strategy = "morning_dip" /\ Transition(s, Seen) = {"morning_dip"}
  <2>1. Justified(row)
    BY <1>1, <1>2, <1>7 DEF Justified
  <2>2. row \in Row
    BY <1>1, <1>3, <1>7 DEF Row, Strategies, b
  <2>. QED  BY <1>2, <1>5, <1>7, <2>1, <2>2 DEF Recordable
<1>8. CASE /\ InMorning(b) /\ ~state.morning /\ state.dipped
           /\ bars[s][b].close > SessionOpen(s)
           /\ strategy = "morning_trigger" /\ Transition(s, Seen) = {"morning_trigger"}
  <2>1. Justified(row)
    BY <1>1, <1>2, <1>8 DEF Justified
  <2>2. row \in Row
    BY <1>1, <1>3, <1>8 DEF Row, Strategies, b
  <2>3. <<s, "morning_dip">> \in Seen
    BY <1>5, <1>8
  <2>4. PICK j \in DOMAIN signals : signals[j].symbol = s /\ signals[j].strategy = "morning_dip"
    BY <2>3 DEF Seen, ToSet
  <2>5. Justified(signals[j])
    BY DEF Sound, SignalsSound
  <2>6. PICK c : c = signals[j].bar
    OBVIOUS
  <2>7. c \in StoredBars(s) /\ bars[s][c].close < SessionOpen(s)
    BY <2>4, <2>5, <2>6 DEF Justified
  <2>8. c \in Nat /\ c <= b /\ bars[s][c].close \in Nat
    BY <1>1, <2>7, Constants DEF Bar
  <2>9. c # b
    BY <1>3, <1>4, <1>8, <2>7, <2>8
  <2>10. signals[j].bar < b
    BY <1>1, <2>6, <2>8, <2>9
  <2>. QED  BY <1>2, <1>5, <1>8, <2>1, <2>2, <2>4, <2>10 DEF Recordable
<1>9. CASE /\ InRange(b) /\ ~state.range /\ MorningBars(s) # {}
           /\ bars[s][b].close > MorningHigh(s)
           /\ strategy = "range_trigger" /\ Transition(s, Seen) = {"range_trigger"}
  <2>1. ASSUME NEW c \in MorningBars(s) PROVE bars[s][b].close > bars[s][c].close
    <3>1. bars[s][c].close \in Nat
      BY <1>1, Constants DEF Bar, MorningBars
    <3>2. MorningHigh(s) \in Nat /\ bars[s][c].close <= MorningHigh(s)
      BY HighOfMorning DEF Sound
    <3>. QED  BY <1>3, <1>9, <3>1, <3>2
  <2>2. Justified(row)
    BY <1>1, <1>2, <1>9, <2>1 DEF Justified
  <2>3. row \in Row
    BY <1>1, <1>3, <1>9 DEF Row, Strategies, b
  <2>. QED  BY <1>2, <1>5, <1>9, <2>2, <2>3 DEF Recordable
<1>10. CASE /\ InMorning(b) /\ ~state.morning
            /\ strategy \in MorningReclaim(state, SessionOpen(s), bars[s][b].close)
            /\ Transition(s, Seen) = MorningReclaim(state, SessionOpen(s), bars[s][b].close)
  BY <1>7, <1>8, <1>10 DEF MorningReclaim
<1>11. CASE /\ InRange(b) /\ ~state.range /\ MorningBars(s) # {}
            /\ strategy \in RangeBreakout(MorningHigh(s), bars[s][b].close)
            /\ Transition(s, Seen) = RangeBreakout(MorningHigh(s), bars[s][b].close)
  BY <1>9, <1>11 DEF RangeBreakout
<1>. QED  BY <1>6, <1>10, <1>11

\* A scan finds at most one row of a symbol.
LEMMA RowsOfOne ==
  ASSUME Sound, NEW s \in Symbols, StoredBars(s) # {}
  PROVE  Rows(s, Seen) = {} \/ \E row : Rows(s, Seen) = {row} /\ Recordable(row) /\ row.symbol = s
<1>1. CASE Transition(s, Seen) = {}
  BY <1>1 DEF Rows
<1>2. CASE Transition(s, Seen) # {}
  <2>1. PICK strategy : strategy \in Transition(s, Seen)
    BY <1>2
  <2>2. PICK row : row = [symbol |-> s, strategy |-> strategy, bar |-> LatestBar(s),
                          close |-> bars[s][LatestBar(s)].close]
    OBVIOUS
  <2>3. Recordable(row) /\ Transition(s, Seen) = {strategy}
    BY <2>1, <2>2, TransitionRecordable
  <2>. QED  BY <2>2, <2>3 DEF Rows
<1>. QED  BY <1>1, <1>2

\* A scan goes on with what it found, and of every symbol at most one row.
LEMMA EvaluatedSound ==
  ASSUME Sound, NEW p \in Scanners, pass[p].step = "evaluate",
         NEW rows, \/ rows = {}
                   \/ \E row : rows = {row} /\ Recordable(row) /\ row.symbol = Head(pass[p].queue)
  PROVE  Evaluated(p, rows) \in Pass /\ PassSound(Evaluated(p, rows))
<1>. DEFINE y == pass[p]
            h == Head(y.queue)
            found == y.found \o SetToSeq(rows)
<1>1. y \in Pass /\ PassSound(y) /\ y.step = "evaluate"
  BY DEF Sound, Typed
<1>2. /\ y.queue \in Seq(Symbols) /\ y.queue # <<>> /\ IsInjective(y.queue)
      /\ y.found \in Seq(Row) /\ y.seen = Seen /\ FoundSound(y.found)
      /\ \A i \in DOMAIN y.found : y.found[i].symbol \notin ToSet(y.queue)
  BY <1>1 DEF Pass, PassSound
<1>3. /\ h \in Symbols /\ h \in ToSet(y.queue)
      /\ Len(y.queue) > 1 =>
           /\ Tail(y.queue) \in Seq(Symbols) /\ Tail(y.queue) # <<>> /\ IsInjective(Tail(y.queue))
           /\ h \notin ToSet(Tail(y.queue)) /\ ToSet(Tail(y.queue)) \subseteq ToSet(y.queue)
  BY <1>2, QueueTail
<1>4. /\ found \in Seq(Row) /\ FoundSound(found)
      /\ \A i \in DOMAIN found : found[i].symbol = h \/ found[i].symbol \notin ToSet(y.queue)
  <2>1. CASE rows = {}
    <3>1. found = y.found
      BY <1>2, <2>1, ListOfOne, ConcatEmptySeq
    <3>. QED  BY <1>2, <3>1
  <2>2. CASE rows # {}
    <3>1. PICK row : rows = {row} /\ Recordable(row) /\ row.symbol = h
      BY <2>2
    <3>2. <<row>> \in Seq(Row) /\ Len(<<row>>) = 1 /\ <<row>>[1] = row
      BY <3>1 DEF Recordable
    <3>3. PICK n : n = Len(y.found)
      OBVIOUS
    <3>4. found = y.found \o <<row>>
      BY <3>1, ListOfOne
    <3>5. /\ n \in Nat /\ DOMAIN y.found = 1..n
          /\ found \in Seq(Row) /\ DOMAIN found = 1..(n + 1)
          /\ \A i \in 1..(n + 1) : found[i] = IF i <= n THEN y.found[i] ELSE <<row>>[i - n]
      BY <1>2, <3>2, <3>3, <3>4, ConcatProperties
    <3>. HIDE DEF found
    <3>6. \A i \in DOMAIN found :
            \/ i \in DOMAIN y.found /\ found[i] = y.found[i]
            \/ i = n + 1 /\ found[i] = row
      BY <3>2, <3>5
    <3>7. \A i \in DOMAIN found : found[i].symbol = h \/ found[i].symbol \notin ToSet(y.queue)
      BY <1>2, <3>1, <3>6
    <3>8. ASSUME NEW i \in DOMAIN found
          PROVE  /\ <<found[i].symbol, found[i].strategy>> \notin Seen
                 /\ Justified(found[i])
                 /\ found[i].strategy = "morning_trigger" =>
                      \E j \in DOMAIN signals : /\ signals[j].symbol = found[i].symbol
                                                /\ signals[j].strategy = "morning_dip"
                                                /\ signals[j].bar < found[i].bar
      <4>1. CASE i \in DOMAIN y.found /\ found[i] = y.found[i]
        BY <1>2, <4>1 DEF FoundSound
      <4>2. CASE found[i] = row
        BY <3>1, <4>2 DEF Recordable
      <4>. QED  BY <3>6, <4>1, <4>2
    <3>9. ASSUME NEW i \in DOMAIN found, NEW j \in DOMAIN found,
                 found[i].symbol = found[j].symbol
          PROVE  i = j
      <4>1. CASE i \in DOMAIN y.found /\ j \in DOMAIN y.found
        <5>1. found[i] = y.found[i] /\ found[j] = y.found[j]
          BY <3>5, <4>1
        <5>2. \A k, l \in DOMAIN y.found : y.found[k].symbol = y.found[l].symbol => k = l
          BY <1>2 DEF FoundSound
        <5>. QED  BY <3>9, <4>1, <5>1, <5>2
      <4>2. CASE i \in DOMAIN y.found /\ j \notin DOMAIN y.found
        BY <1>2, <1>3, <3>1, <3>5, <3>6, <3>9, <4>2
      <4>3. CASE i \notin DOMAIN y.found /\ j \in DOMAIN y.found
        BY <1>2, <1>3, <3>1, <3>5, <3>6, <3>9, <4>3
      <4>4. CASE i \notin DOMAIN y.found /\ j \notin DOMAIN y.found
        BY <3>6, <4>4
      <4>. QED  BY <4>1, <4>2, <4>3, <4>4
    <3>. QED  BY <3>5, <3>7, <3>8, <3>9 DEF FoundSound
  <2>. QED  BY <2>1, <2>2
<1>. HIDE DEF found, h
<1>5. CASE Len(y.queue) > 1
  <2>1. PICK x : x = [y EXCEPT !.queue = Tail(@), !.found = found]
    OBVIOUS
  <2>2. Evaluated(p, rows) = x
    BY <1>5, <2>1 DEF Evaluated, found
  <2>3. x \in Pass
    BY <1>1, <1>3, <1>4, <1>5, <2>1 DEF Pass
  <2>4. x.step = "evaluate" /\ x.queue = Tail(y.queue) /\ x.found = found /\ x.seen = y.seen
    BY <1>1, <2>1 DEF Pass
  <2>5. \A i \in DOMAIN found : found[i].symbol \notin ToSet(Tail(y.queue))
    BY <1>3, <1>4, <1>5
  <2>. QED  BY <1>2, <1>3, <1>4, <1>5, <2>2, <2>3, <2>4, <2>5 DEF PassSound
<1>6. CASE ~(Len(y.queue) > 1) /\ y.write /\ found # <<>>
  <2>1. PICK x : x = [y EXCEPT !.step = "record", !.queue = <<>>, !.found = found]
    OBVIOUS
  <2>2. Evaluated(p, rows) = x
    BY <1>6, <2>1 DEF Evaluated, found
  <2>3. x \in Pass
    <3>0. <<>> \in Seq(Symbols)
      BY EmptySeq
    <3>1. PICK e \in Seq(Symbols) : e = <<>>
      BY <3>0, Zenon
    <3>2. x = [y EXCEPT !.step = "record", !.queue = e, !.found = found]
      BY <2>1, <3>1
    <3>. QED  BY <1>1, <1>4, <3>1, <3>2 DEF Pass, Steps
  <2>4. x.step = "record" /\ x.found = found /\ x.seen = y.seen
    BY <1>1, <2>1 DEF Pass
  <2>. QED  BY <1>2, <1>4, <2>2, <2>3, <2>4 DEF PassSound
<1>7. CASE ~(Len(y.queue) > 1) /\ ~(y.write /\ found # <<>>)
  <2>1. Evaluated(p, rows) = Idle
    BY <1>7 DEF Evaluated, found
  <2>. QED  BY <2>1, IdleSound DEF Sound
<1>. QED  BY <1>5, <1>6, <1>7

-----------------------------------------------------------------------------
(* The theorems                                                            *)

LEMMA FaultCounts == Typed /\ Fault => faults' \in 0..MaxFaults
BY Constants DEF Typed, Fault

LEMMA InitHolds == Init => Sound
<1>. SUFFICES ASSUME Init PROVE Sound
  OBVIOUS
<1>1. 0 \in 0..LastTick /\ 0 \in 0..MaxFaults
  BY Constants
<1>2. /\ now = 0 /\ samples = [s \in Symbols |-> [t \in Ticks |-> NoPrice]]
      /\ bars = [s \in Symbols |-> [b \in Bars |-> NoBar]]
      /\ signals = <<>> /\ pass = [p \in Scanners |-> Idle] /\ faults = 0
  BY DEF Init
<1>3. \A s \in Symbols : StoredBars(s) = {}
  BY <1>2 DEF StoredBars
<1>4. Idle \in Pass /\ PassSound(Idle)
  <2>1. <<>> \in Seq(Symbols) /\ <<>> \in Seq(Row)
    OBVIOUS
  <2>2. Idle \in Pass
    BY <1>1, <2>1 DEF Idle, Pass, Steps
  <2>. QED  BY <2>2 DEF Idle, PassSound
<1>5. Typed
  BY <1>1, <1>2, <1>4 DEF Typed
<1>6. Past
  BY <1>2 DEF Past
<1>7. BarsBuilt /\ BarsComplete
  BY <1>3 DEF BarsBuilt, BarsComplete
<1>8. \A p \in Scanners : PassSound(pass[p])
  BY <1>2, <1>4
<1>9. SignalsSound
  BY <1>2 DEF SignalsSound
<1>. QED  BY <1>5, <1>6, <1>7, <1>8, <1>9 DEF Sound

LEMMA StepKeeps ==
  ASSUME Sound, NEW p \in Scanners, Alone(p),
         \/ BeginPass(p)
         \/ ReadPrice(p) \/ PriceFails(p) \/ CaptureFails(p)
         \/ StoreSample(p) \/ StoreFails(p)
         \/ BuildBars(p) \/ BuildFails(p)
         \/ LoadSignals(p) \/ Evaluate(p) \/ EvaluateFails(p) \/ Record(p)
         \/ Crash(p)
  PROVE  Sound'
<1>. DEFINE Fits(x) == x \in Pass /\ PassSound(x)
<1>1. Typed /\ BarsBuilt /\ Fits(pass[p]) /\ faults \in 0..MaxFaults
  BY DEF Sound, Typed
<1>2. Fits(Idle) /\ Fits(LoadStep(p)) /\ Fits(BuildStep(p))
  BY <1>1, IdleSound, LoadSound, BuildSound
<1>3. CASE BeginPass(p)
  <2>1. PICK execute, write \in BOOLEAN :
          Goes(p, [Idle EXCEPT !.step = "capture", !.queue = Selected,
                               !.execute = execute, !.write = write])
    BY <1>3 DEF BeginPass
  <2>2. PICK x : x = [Idle EXCEPT !.step = "capture", !.queue = Selected,
                                  !.execute = execute, !.write = write]
    OBVIOUS
  <2>3. x \in Pass
    BY <1>2, <2>2, SetupQueues DEF Pass, Steps
  <2>4. x.step = "capture" /\ x.queue = Selected
    BY <1>2, <2>2 DEF Pass
  <2>5. PassSound(x)
    BY <2>4, SetupQueues DEF PassSound
  <2>. QED  BY <1>1, <1>3, <2>1, <2>2, <2>3, <2>5, PassKeeps DEF BeginPass
<1>4. CASE ReadPrice(p)
  <2>1. PICK price \in Quotes[Head(pass[p].queue)][now] :
          IF pass[p].execute
          THEN Goes(p, [pass[p] EXCEPT !.step = "store", !.quote = price, !.at = now])
          ELSE NextSymbol(p, "capture", BuildStep(p))
    BY <1>4 DEF ReadPrice
  <2>2. pass[p].step = "capture" /\ now < LastTick /\ UNCHANGED <<now, Tables, faults>>
    BY <1>4 DEF ReadPrice, At
  <2>3. \E x : Fits(x) /\ Goes(p, x)
    <3>1. CASE ~pass[p].execute
      BY <1>1, <1>2, <2>1, <2>2, <3>1, NextSymbolSound
    <3>2. CASE pass[p].execute
      <4>1. PICK x : x = [pass[p] EXCEPT !.step = "store", !.quote = price, !.at = now]
        OBVIOUS
      <4>2. pass[p].queue \in Seq(Symbols) /\ pass[p].queue # <<>> /\ IsInjective(pass[p].queue)
        BY <1>1, <2>2 DEF Pass, PassSound
      <4>3. now \in Ticks /\ now \in 0..LastTick /\ now \in Nat
        BY <1>1, <2>2, Constants DEF Typed, Ticks
      <4>4. price \in Prices
        BY <4>2, <4>3, QueueTail, Constants
      <4>5. x \in Pass
        BY <1>1, <4>1, <4>3, <4>4 DEF Pass, Steps
      <4>6. x.step = "store" /\ x.queue = pass[p].queue /\ x.quote = price /\ x.at = now
        BY <1>1, <4>1 DEF Pass
      <4>7. \A s \in Symbols : \A b \in StoredBars(s) : BarEnd(b) <= now
        BY <1>1 DEF BarsBuilt
      <4>8. PassSound(x)
        BY <4>2, <4>3, <4>4, <4>6, <4>7 DEF PassSound
      <4>. QED  BY <2>1, <3>2, <4>1, <4>5, <4>8
    <3>. QED  BY <3>1, <3>2
  <2>. QED  BY <1>1, <2>2, <2>3, PassKeeps
<1>5. CASE PriceFails(p)
  <2>1. \E x \in Pass : PassSound(x) /\ Goes(p, x)
    BY <1>1, <1>2, <1>5, NextSymbolSound DEF PriceFails, At
  <2>. QED  BY <1>1, <1>5, <2>1, PassKeeps DEF PriceFails
<1>6. CASE CaptureFails(p)
  BY <1>1, <1>2, <1>6, FaultCounts, PassKeeps DEF CaptureFails
<1>7. CASE StoreSample(p)
  BY <1>7, StoreSampleKeeps
<1>8. CASE StoreFails(p)
  <2>1. \E x \in Pass : PassSound(x) /\ Goes(p, x)
    BY <1>1, <1>2, <1>8, NextSymbolSound DEF StoreFails, At
  <2>. QED  BY <1>1, <1>8, <2>1, FaultCounts, PassKeeps DEF StoreFails
<1>9. CASE BuildBars(p)
  BY <1>9, BuildBarsKeeps
<1>10. CASE BuildFails(p)
  <2>1. \E x \in Pass : PassSound(x) /\ Goes(p, x)
    BY <1>1, <1>2, <1>10, NextSymbolSound DEF BuildFails, At
  <2>. QED  BY <1>1, <1>10, <2>1, FaultCounts, PassKeeps DEF BuildFails
<1>11. CASE LoadSignals(p)
  <2>1. PICK x : x = [pass[p] EXCEPT !.step = "evaluate", !.queue = Setup, !.seen = Seen]
    OBVIOUS
  <2>2. Goes(p, x) /\ UNCHANGED <<now, Tables, faults>> /\ pass[p].step = "load"
    BY <1>11, <2>1 DEF LoadSignals, Seen, At
  <2>3. Seen \in SUBSET (Symbols \X Strategies)
    <3>1. \A row \in ToSet(signals) : row \in Row
      BY <1>1 DEF Typed, ToSet
    <3>2. \A row \in Row : row.symbol \in Symbols /\ row.strategy \in Strategies
      BY DEF Row
    <3>. QED  BY <3>1, <3>2 DEF Seen
  <2>4. x \in Pass
    BY <1>1, <2>1, <2>3, SetupQueues DEF Pass, Steps
  <2>5. x.step = "evaluate" /\ x.queue = Setup /\ x.seen = Seen /\ x.found = pass[p].found
    BY <1>1, <2>1 DEF Pass
  <2>6. x.found = <<>>
    BY <1>1, <2>2, <2>5 DEF PassSound
  <2>7. PassSound(x)
    BY <2>5, <2>6, SetupQueues DEF PassSound, FoundSound
  <2>. QED  BY <1>1, <2>2, <2>4, <2>7, PassKeeps
<1>12. CASE Evaluate(p)
  <2>1. PICK rows : /\ rows = IF StoredBars(Head(pass[p].queue)) = {} THEN {}
                              ELSE Rows(Head(pass[p].queue), pass[p].seen)
                    /\ Goes(p, Evaluated(p, rows))
    BY <1>12 DEF Evaluate
  <2>2. UNCHANGED <<now, Tables, faults>> /\ pass[p].step = "evaluate"
    BY <1>12 DEF Evaluate, At
  <2>3. pass[p].seen = Seen /\ Head(pass[p].queue) \in Symbols
    BY <1>1, <2>2, QueueTail DEF Pass, PassSound
  <2>4. rows = {} \/ \E row : rows = {row} /\ Recordable(row) /\ row.symbol = Head(pass[p].queue)
    BY <2>1, <2>3, RowsOfOne
  <2>5. Fits(Evaluated(p, rows))
    BY <2>2, <2>4, EvaluatedSound
  <2>. QED  BY <1>1, <2>1, <2>2, <2>5, PassKeeps
<1>13. CASE EvaluateFails(p)
  <2>1. Fits(Evaluated(p, {})) /\ Goes(p, Evaluated(p, {}))
    BY <1>13, EvaluatedSound DEF EvaluateFails, At
  <2>. QED  BY <1>1, <1>13, <2>1, FaultCounts, PassKeeps DEF EvaluateFails
<1>14. CASE Record(p)
  BY <1>14, RecordKeeps
<1>15. CASE Crash(p)
  BY <1>1, <1>2, <1>15, FaultCounts, PassKeeps DEF Crash
<1>. QED  BY <1>3, <1>4, <1>5, <1>6, <1>7, <1>8, <1>9, <1>10, <1>11, <1>12, <1>13, <1>14, <1>15

\* A step of a scanner leaves the others as they are.
LEMMA OthersStay ==
  ASSUME Typed, NEW p \in Scanners, Step(p), NEW q \in Scanners, q # p
  PROVE  pass'[q] = pass[q]
<1>1. ASSUME NEW step, NEW then, NextSymbol(p, step, then) PROVE \E x : Goes(p, x)
  BY <1>1 DEF NextSymbol
<1>2. \E x : Goes(p, x)
  BY <1>1 DEF Step, BeginPass, ReadPrice, PriceFails, CaptureFails, StoreSample, StoreFails,
              BuildBars, BuildFails, LoadSignals, Evaluate, EvaluateFails, Record, Crash
<1>. QED  BY <1>2 DEF Goes, Typed

\* A pass is under way before a step or after it.
LEMMA StepIsBusy ==
  ASSUME Typed, NEW p \in Scanners, Step(p)
  PROVE  pass[p].step # "idle" \/ pass'[p].step # "idle"
<1>1. CASE BeginPass(p)
  <2>1. PICK execute, write \in BOOLEAN :
          Goes(p, [Idle EXCEPT !.step = "capture", !.queue = Selected,
                               !.execute = execute, !.write = write])
    BY <1>1 DEF BeginPass
  <2>2. pass'[p].step = "capture"
    BY <2>1 DEF Goes, Typed, Idle
  <2>. QED  BY <2>2
<1>2. CASE ~BeginPass(p)
  BY <1>2 DEF Step, ReadPrice, PriceFails, CaptureFails, StoreSample, StoreFails,
              BuildBars, BuildFails, LoadSignals, Evaluate, EvaluateFails, Record, Crash, At
<1>. QED  BY <1>1, <1>2

\* A step of a pass that is alone, or of the clock, or none.
LEMMA SoundKept ==
  ASSUME Sound, [Next]_vars, ~overlapped', ~Overlap, overlapped \in BOOLEAN
  PROVE  Sound'
<1>1. CASE UNCHANGED vars
  <2>1. UNCHANGED <<now, samples, bars, signals, pass, faults>>
    BY <1>1 DEF vars
  <2>2. \A row : Justified(row)' <=> Justified(row)
    BY <2>1 DEF Justified, StoredBars, SessionOpen, MorningBars
  <2>3. Typed' /\ Past' /\ SignalsSound'
    BY <2>1, <2>2 DEF Sound, Typed, Past, SignalsSound
  <2>4. BarsBuilt' /\ BarsComplete'
    BY <2>1 DEF Sound, BarsBuilt, BarsComplete, StoredBars, Enough, Built, SampleTicks
  <2>5. \A p \in Scanners : PassSound(pass[p])'
    <3>1. Seen' = Seen /\ \A s : StoredBars(s)' = StoredBars(s)
      BY <2>1 DEF Seen, StoredBars
    <3>2. \A p \in Scanners : FoundSound(pass[p].found) => FoundSound(pass[p].found)'
      BY <2>1, <2>2, <3>1 DEF FoundSound
    <3>. QED  BY <2>1, <3>1, <3>2 DEF Sound, PassSound
  <2>. QED  BY <2>3, <2>4, <2>5 DEF Sound
<1>2. CASE Tick
  BY <1>2, TickKeeps
<1>3. ASSUME NEW p \in Scanners, Step(p), ~Overlap' PROVE Sound'
  <2>1. ASSUME NEW q \in Scanners, q # p PROVE pass[q].step = "idle"
    <3>1. pass'[q] = pass[q]
      BY <1>3, <2>1, OthersStay DEF Sound
    <3>2. pass[p].step # "idle" \/ pass'[p].step # "idle"
      BY <1>3, StepIsBusy DEF Sound
    <3>. QED  BY <1>3, <2>1, <3>1, <3>2 DEF Overlap, At
  <2>. QED  BY <1>3, <2>1, StepKeeps DEF Alone, Step
<1>4. CASE Next
  <2>1. overlapped' = (overlapped \/ Overlap') /\ ((\E p \in Scanners : Step(p)) \/ Tick)
    BY <1>4 DEF Next
  <2>2. ~Overlap'
    BY <2>1, Zenon
  <2>. QED  BY <1>2, <1>3, <2>1, <2>2
<1>. QED  BY <1>1, <1>4

-----------------------------------------------------------------------------
(* What holds whoever else is at work                                      *)

\* Rows and bars are added, none is lost, and time goes on.
Grows ==
  /\ now' \in Nat /\ now <= now'
  /\ \A s : StoredBars(s) \subseteq StoredBars(s)'
  /\ Len(signals) <= Len(signals')
  /\ \A k \in DOMAIN signals : k \in DOMAIN signals' /\ signals'[k] = signals[k]

\* What is said of a row, and of a pass, stays true.
LEMMA GroundedStays ==
  ASSUME Typed, Typed', Grows
  PROVE  /\ \A row, k : k <= Len(signals) /\ Grounded(row) /\ Dipped(row, k) =>
                          Grounded(row)' /\ (k \in Nat => Dipped(row, k)')
         /\ \A x \in Pass : PassGrounded(x) => PassGrounded(x)'
<1>1. /\ signals \in Seq(Row) /\ DOMAIN signals = 1..Len(signals) /\ Len(signals) \in Nat
      /\ signals' \in Seq(Row) /\ Len(signals') \in Nat
      /\ Len(signals) <= Len(signals')
      /\ \A k \in DOMAIN signals : k \in DOMAIN signals' /\ signals'[k] = signals[k]
  BY DEF Typed, Grows
<1>2. ASSUME NEW row, Grounded(row) PROVE Grounded(row)'
  BY <1>2 DEF Grounded, Grows, InRange, InMorning, BarEnd, BarStart
<1>3. ASSUME NEW row, NEW k \in Nat, NEW n \in Nat, k <= Len(signals), k <= n, Dipped(row, k)
      PROVE  row.strategy = "morning_trigger" =>
               \E j \in 1..n : /\ signals'[j].symbol = row.symbol
                               /\ signals'[j].strategy = "morning_dip"
                               /\ signals'[j].bar <= row.bar
  <2>. SUFFICES ASSUME row.strategy = "morning_trigger"
                PROVE  \E j \in 1..n : /\ signals'[j].symbol = row.symbol
                                       /\ signals'[j].strategy = "morning_dip"
                                       /\ signals'[j].bar <= row.bar
    OBVIOUS
  <2>1. PICK j \in 1..k : /\ signals[j].symbol = row.symbol
                          /\ signals[j].strategy = "morning_dip"
                          /\ signals[j].bar <= row.bar
    BY <1>3 DEF Dipped
  <2>2. j \in 1..n /\ j \in DOMAIN signals
    BY <1>1, <1>3
  <2>3. signals'[j] = signals[j]
    BY <1>1, <2>2
  <2>. QED  BY <2>1, <2>2, <2>3
<1>4. ASSUME NEW row, NEW k \in Nat, k <= Len(signals), Dipped(row, k) PROVE Dipped(row, k)'
  <2>1. k <= k
    OBVIOUS
  <2>2. row.strategy = "morning_trigger" =>
          \E j \in 1..k : /\ signals'[j].symbol = row.symbol
                          /\ signals'[j].strategy = "morning_dip"
                          /\ signals'[j].bar <= row.bar
    BY <1>3, <1>4, <2>1
  <2>. QED  BY <2>2 DEF Dipped
<1>5. \A row : Dipped(row, Len(signals)) => Dipped(row, Len(signals))'
  BY <1>1, <1>3 DEF Dipped
<1>6. Seen \subseteq Seen'
  BY <1>1 DEF Seen, ToSet
<1>7. ASSUME NEW x \in Pass, PassGrounded(x) PROVE PassGrounded(x)'
  <2>1. x.at \in Nat /\ now \in Nat /\ now' \in Nat /\ now <= now'
    BY Constants DEF Pass, Typed, Grows
  <2>. QED  BY <1>2, <1>5, <1>6, <1>7, <2>1 DEF PassGrounded
<1>. QED  BY <1>2, <1>4, <1>7

\* A step that adds no row.
LEMMA WeakKept ==
  ASSUME Weak, NEW p \in Scanners, NEW x \in Pass, PassGrounded(x), Goes(p, x),
         Typed', Past', BarsPast', Grows, UNCHANGED signals
  PROVE  Weak'
<1>1. Typed
  BY DEF Weak
<1>2. \A q \in Scanners : pass'[q] = IF q = p THEN x ELSE pass[q]
  BY <1>1 DEF Typed, Goes
<1>3. \A q \in Scanners : pass[q] \in Pass /\ PassGrounded(pass[q])
  BY DEF Weak, Typed
<1>4. ASSUME NEW q \in Scanners PROVE PassGrounded(pass[q])'
  <2>1. PICK y : y = pass'[q]
    OBVIOUS
  <2>2. y \in Pass /\ PassGrounded(y)
    BY <1>2, <1>3, <2>1
  <2>3. PassGrounded(y)'
    BY <1>1, <2>2, GroundedStays
  <2>. QED  BY <2>1, <2>3
<1>5. RowsGrounded'
  <2>1. DOMAIN signals = 1..Len(signals) /\ Len(signals) \in Nat
    BY <1>1 DEF Typed
  <2>. SUFFICES ASSUME NEW i \in DOMAIN signals
                PROVE  Grounded(signals[i])' /\ Dipped(signals[i], i - 1)'
    BY DEF RowsGrounded
  <2>2. PICK row : row = signals[i]
    OBVIOUS
  <2>3. PICK k \in Nat : k = i - 1
    BY <2>1
  <2>4. Grounded(row) /\ Dipped(row, k) /\ k <= Len(signals)
    BY <2>1, <2>2, <2>3 DEF Weak, RowsGrounded
  <2>5. Grounded(row)' /\ Dipped(row, k)'
    BY <1>1, <2>4, GroundedStays
  <2>6. Grounded(signals[i])' /\ Dipped(signals[i], k)'
    BY <2>2, <2>5 DEF Grounded, Dipped
  <2>. QED  BY <2>3, <2>6
<1>. QED  BY <1>4, <1>5 DEF Weak

\* A step that changes only what one scanner is doing.
LEMMA WeakPassKeeps ==
  ASSUME Weak, NEW p \in Scanners, NEW x, x \in Pass, PassGrounded(x), Goes(p, x),
         UNCHANGED <<now, Tables>>, faults' \in 0..MaxFaults
  PROVE  Weak'
<1>1. UNCHANGED <<now, samples, bars, signals>>
  BY DEF Tables
<1>2. Typed'
  BY <1>1, TypedPass DEF Weak, Typed
<1>3. Past'
  BY <1>1 DEF Weak, Past
<1>4. BarsPast' /\ \A s : StoredBars(s)' = StoredBars(s)
  BY <1>1 DEF Weak, BarsPast, StoredBars, BarEnd, BarStart
<1>5. Grows
  BY <1>1, <1>4, Constants DEF Grows, Weak, Typed
<1>. QED  BY <1>1, <1>2, <1>3, <1>4, <1>5, WeakKept

LEMMA StepsGrounded ==
  ASSUME Weak, NEW p \in Scanners
  PROVE  /\ Idle \in Pass /\ PassGrounded(Idle)
         /\ LoadStep(p) \in Pass /\ PassGrounded(LoadStep(p))
         /\ BuildStep(p) \in Pass /\ PassGrounded(BuildStep(p))
<1>1. Typed /\ pass[p] \in Pass /\ PassGrounded(pass[p]) /\ now \in 0..LastTick /\ now \in Nat
  BY Constants DEF Weak, Typed
<1>2. Idle \in Pass /\ LoadStep(p) \in Pass
  BY <1>1, IdleSound, LoadSound
<1>3. BuildStep(p) \in Pass
  BY <1>1, SetupQueues DEF BuildStep, Pass, Steps
<1>4. /\ Idle.step = "idle" /\ Idle.at = 0 /\ Idle.seen = {} /\ Idle.found = <<>>
      /\ LoadStep(p).step = "load" /\ LoadStep(p).at = 0 /\ LoadStep(p).seen = {}
      /\ LoadStep(p).found = <<>>
  BY <1>1 DEF Idle, LoadStep
<1>5. /\ BuildStep(p).step = "build" /\ BuildStep(p).queue = Setup /\ BuildStep(p).at = now
      /\ BuildStep(p).seen = pass[p].seen /\ BuildStep(p).found = pass[p].found
  BY <1>1 DEF BuildStep, Pass
<1>6. PassGrounded(Idle) /\ PassGrounded(LoadStep(p))
  BY <1>1, <1>4 DEF PassGrounded
<1>7. PassGrounded(BuildStep(p))
  BY <1>1, <1>5, SetupQueues DEF PassGrounded
<1>. QED  BY <1>2, <1>3, <1>6, <1>7

\* A step that leaves a symbol behind leaves a grounded pass.
LEMMA NextSymbolGrounded ==
  ASSUME Weak, NEW p \in Scanners, NEW step, NEW then,
         then \in Pass, PassGrounded(then),
         \/ step = "capture" /\ pass[p].step \in {"capture", "store"}
         \/ step = "build" /\ pass[p].step = "build",
         NextSymbol(p, step, then)
  PROVE  \E x \in Pass : Goes(p, x) /\ PassGrounded(x)
<1>. DEFINE x == [pass[p] EXCEPT !.step = step, !.queue = Tail(@), !.quote = NoPrice,
                                 !.at = IF step = "build" THEN @ ELSE 0]
<1>1. CASE ~(Len(pass[p].queue) > 1)
  BY <1>1 DEF NextSymbol
<1>2. CASE Len(pass[p].queue) > 1
  <2>1. pass[p] \in Pass /\ PassGrounded(pass[p]) /\ now \in Nat
    BY Constants DEF Weak, Typed
  <2>2. pass[p].queue \in Seq(Symbols) /\ pass[p].queue # <<>> /\ IsInjective(pass[p].queue)
    BY <2>1 DEF Pass, PassGrounded
  <2>3. Tail(pass[p].queue) \in Seq(Symbols) /\ Tail(pass[p].queue) # <<>>
        /\ IsInjective(Tail(pass[p].queue))
    BY <1>2, <2>2, QueueTail
  <2>4. 0 \in 0..LastTick
    BY Constants
  <2>5. x \in Pass
    BY <2>1, <2>3, <2>4 DEF Pass, Steps
  <2>6. /\ x.step = step /\ x.queue = Tail(pass[p].queue)
        /\ x.at = (IF step = "build" THEN pass[p].at ELSE 0)
        /\ x.seen = pass[p].seen /\ x.found = pass[p].found
    BY <2>1 DEF Pass
  <2>7. Goes(p, x)
    BY <1>2 DEF NextSymbol
  <2>. HIDE DEF x
  <2>8. PassGrounded(x)
    BY <2>1, <2>3, <2>6 DEF PassGrounded
  <2>. QED  BY <2>5, <2>7, <2>8
<1>. QED  BY <1>1, <1>2

\* The row of a transition of the latest bar, whatever was read of the rows.
LEMMA TransitionGrounded ==
  ASSUME Weak, NEW s \in Symbols, StoredBars(s) # {}, NEW seen \in SUBSET Seen,
         NEW strategy \in Transition(s, seen),
         NEW row, row = [symbol |-> s, strategy |-> strategy, bar |-> LatestBar(s),
                         close |-> bars[s][LatestBar(s)].close]
  PROVE  /\ row \in Row /\ Grounded(row) /\ Dipped(row, Len(signals))
         /\ Transition(s, seen) = {strategy}
<1>. DEFINE b == LatestBar(s)
            state == StateOf(s, seen)
<1>1. /\ b \in StoredBars(s) /\ b \in Bars /\ b \in Nat /\ bars[s][b] \in Bar
      /\ \A c \in StoredBars(s) : c <= b
  BY Stored DEF Weak
<1>2. /\ row.symbol = s /\ row.strategy = strategy /\ row.bar = b
      /\ row.close = bars[s][b].close
  OBVIOUS
<1>3. bars[s][b].close \in Prices
  BY <1>1 DEF Bar
<1>4. /\ state.dipped = (<<s, "morning_dip">> \in seen \/ <<s, "morning_trigger">> \in seen)
      /\ state.morning = (<<s, "morning_trigger">> \in seen)
  BY DEF StateOf
<1>. HIDE DEF b, state
<1>5. \/ /\ InMorning(b) /\ ~state.morning
         /\ strategy \in MorningReclaim(state, SessionOpen(s), bars[s][b].close)
         /\ Transition(s, seen) = MorningReclaim(state, SessionOpen(s), bars[s][b].close)
      \/ /\ InRange(b)
         /\ strategy \in RangeBreakout(MorningHigh(s), bars[s][b].close)
         /\ Transition(s, seen) = RangeBreakout(MorningHigh(s), bars[s][b].close)
  BY DEF Transition, b, state
<1>6. strategy \in Strategies => row \in Row
  BY <1>1, <1>3 DEF Row, b
<1>7. CASE InMorning(b) /\ strategy = "morning_dip" /\ Transition(s, seen) = {"morning_dip"}
  BY <1>1, <1>2, <1>6, <1>7 DEF Grounded, Dipped, Strategies
<1>8. CASE /\ InMorning(b) /\ ~state.morning /\ state.dipped
           /\ strategy = "morning_trigger" /\ Transition(s, seen) = {"morning_trigger"}
  <2>1. <<s, "morning_dip">> \in Seen
    BY <1>4, <1>8
  <2>2. PICK j \in DOMAIN signals : signals[j].symbol = s /\ signals[j].strategy = "morning_dip"
    BY <2>1 DEF Seen, ToSet
  <2>3. j \in 1..Len(signals)
    BY DEF Weak, Typed
  <2>4. signals[j].bar \in StoredBars(s)
    BY <2>2 DEF Weak, RowsGrounded, Grounded
  <2>5. Dipped(row, Len(signals))
    BY <1>1, <1>2, <2>2, <2>3, <2>4 DEF Dipped
  <2>. QED  BY <1>1, <1>2, <1>6, <1>8, <2>5 DEF Grounded, Strategies
<1>9. CASE InRange(b) /\ strategy = "range_trigger" /\ Transition(s, seen) = {"range_trigger"}
  BY <1>1, <1>2, <1>6, <1>9 DEF Grounded, Dipped, Strategies
<1>10. CASE /\ InMorning(b) /\ ~state.morning
            /\ strategy \in MorningReclaim(state, SessionOpen(s), bars[s][b].close)
            /\ Transition(s, seen) = MorningReclaim(state, SessionOpen(s), bars[s][b].close)
  BY <1>7, <1>8, <1>10 DEF MorningReclaim
<1>11. CASE /\ InRange(b)
            /\ strategy \in RangeBreakout(MorningHigh(s), bars[s][b].close)
            /\ Transition(s, seen) = RangeBreakout(MorningHigh(s), bars[s][b].close)
  BY <1>9, <1>11 DEF RangeBreakout
<1>. QED  BY <1>5, <1>10, <1>11

\* A scan goes on with what it found.
LEMMA EvaluatedGrounded ==
  ASSUME Weak, NEW p \in Scanners, pass[p].step = "evaluate",
         NEW rows, \/ rows = {}
                   \/ \E row \in Row : rows = {row} /\ Grounded(row) /\ Dipped(row, Len(signals))
  PROVE  Evaluated(p, rows) \in Pass /\ PassGrounded(Evaluated(p, rows))
<1>. DEFINE y == pass[p]
            found == y.found \o SetToSeq(rows)
<1>1. y \in Pass /\ PassGrounded(y) /\ now \in Nat
  BY Constants DEF Weak, Typed
<1>2. /\ y.queue \in Seq(Symbols) /\ y.queue # <<>> /\ IsInjective(y.queue)
      /\ y.found \in Seq(Row) /\ y.seen \subseteq Seen /\ y.at <= now
      /\ \A i \in DOMAIN y.found : Grounded(y.found[i]) /\ Dipped(y.found[i], Len(signals))
  BY <1>1 DEF Pass, PassGrounded
<1>3. Len(y.queue) > 1 =>
        /\ Tail(y.queue) \in Seq(Symbols) /\ Tail(y.queue) # <<>> /\ IsInjective(Tail(y.queue))
  BY <1>2, QueueTail
<1>4. /\ found \in Seq(Row)
      /\ \A i \in DOMAIN found : Grounded(found[i]) /\ Dipped(found[i], Len(signals))
  <2>1. CASE rows = {}
    <3>1. found = y.found
      BY <1>2, <2>1, ListOfOne, ConcatEmptySeq
    <3>. QED  BY <1>2, <3>1
  <2>2. CASE rows # {}
    <3>1. PICK row \in Row : rows = {row} /\ Grounded(row) /\ Dipped(row, Len(signals))
      BY <2>2
    <3>2. <<row>> \in Seq(Row) /\ Len(<<row>>) = 1 /\ <<row>>[1] = row
      OBVIOUS
    <3>3. found = y.found \o <<row>>
      BY <3>1, ListOfOne
    <3>4. PICK n : n = Len(y.found)
      OBVIOUS
    <3>5. /\ n \in Nat /\ DOMAIN y.found = 1..n
          /\ found \in Seq(Row) /\ DOMAIN found = 1..(n + 1)
          /\ \A i \in 1..(n + 1) : found[i] = IF i <= n THEN y.found[i] ELSE <<row>>[i - n]
      BY <1>2, <3>2, <3>3, <3>4, ConcatProperties
    <3>. HIDE DEF found
    <3>6. \A i \in DOMAIN found :
            (i \in DOMAIN y.found /\ found[i] = y.found[i]) \/ found[i] = row
      BY <3>2, <3>5
    <3>. QED  BY <1>2, <3>1, <3>5, <3>6
  <2>. QED  BY <2>1, <2>2
<1>. HIDE DEF found
<1>5. CASE Len(y.queue) > 1
  <2>1. PICK x : x = [y EXCEPT !.queue = Tail(@), !.found = found]
    OBVIOUS
  <2>2. Evaluated(p, rows) = x
    BY <1>5, <2>1 DEF Evaluated, found
  <2>3. x \in Pass
    BY <1>1, <1>3, <1>4, <1>5, <2>1 DEF Pass
  <2>4. /\ x.step = "evaluate" /\ x.queue = Tail(y.queue) /\ x.found = found
        /\ x.seen = y.seen /\ x.at = y.at
    BY <1>1, <2>1 DEF Pass
  <2>. QED  BY <1>2, <1>3, <1>4, <1>5, <2>2, <2>3, <2>4 DEF PassGrounded
<1>6. CASE ~(Len(y.queue) > 1) /\ y.write /\ found # <<>>
  <2>1. PICK x : x = [y EXCEPT !.step = "record", !.queue = <<>>, !.found = found]
    OBVIOUS
  <2>2. Evaluated(p, rows) = x
    BY <1>6, <2>1 DEF Evaluated, found
  <2>3. x \in Pass
    <3>0. <<>> \in Seq(Symbols)
      BY EmptySeq
    <3>1. PICK e \in Seq(Symbols) : e = <<>>
      BY <3>0, Zenon
    <3>2. x = [y EXCEPT !.step = "record", !.queue = e, !.found = found]
      BY <2>1, <3>1
    <3>. QED  BY <1>1, <1>4, <3>1, <3>2 DEF Pass, Steps
  <2>4. x.step = "record" /\ x.found = found /\ x.seen = y.seen /\ x.at = y.at
    BY <1>1, <2>1 DEF Pass
  <2>. QED  BY <1>2, <1>4, <2>2, <2>3, <2>4 DEF PassGrounded
<1>7. CASE ~(Len(y.queue) > 1) /\ ~(y.write /\ found # <<>>)
  <2>1. Evaluated(p, rows) = Idle
    BY <1>7 DEF Evaluated, found
  <2>. QED  BY <2>1, StepsGrounded
<1>. QED  BY <1>5, <1>6, <1>7

LEMMA StoreSampleWeak ==
  ASSUME Weak, NEW p \in Scanners, StoreSample(p)
  PROVE  Weak'
<1>. DEFINE h == Head(pass[p].queue)
            u == pass[p].at
<1>1. Typed /\ pass[p] \in Pass /\ PassGrounded(pass[p]) /\ pass[p].step = "store"
  BY DEF Weak, Typed, StoreSample, At
<1>2. /\ pass[p].queue # <<>> /\ IsInjective(pass[p].queue) /\ pass[p].queue \in Seq(Symbols)
      /\ pass[p].quote \in Prices /\ u \in Ticks /\ u <= now
  BY <1>1 DEF PassGrounded, Pass
<1>3. h \in Symbols
  BY <1>2, QueueTail
<1>4. /\ samples' = [samples EXCEPT ![h][u] = pass[p].quote]
      /\ UNCHANGED <<now, bars, signals, faults>>
      /\ NextSymbol(p, "capture", BuildStep(p))
  BY DEF StoreSample
<1>5. PICK x \in Pass : Goes(p, x) /\ PassGrounded(x)
  BY <1>1, <1>4, StepsGrounded, NextSymbolGrounded
<1>. HIDE DEF h, u
<1>6. Typed'
  <2>1. pass' \in [Scanners -> Pass]
    BY <1>1, <1>5, TypedPass
  <2>2. samples' \in [Symbols -> [Ticks -> Prices \union {NoPrice}]]
    BY <1>1, <1>2, <1>3, <1>4 DEF Typed
  <2>. QED  BY <1>1, <1>4, <2>1, <2>2 DEF Typed
<1>7. \A s \in Symbols, t \in Ticks :
        samples'[s][t] = IF s = h /\ t = u THEN pass[p].quote ELSE samples[s][t]
  BY <1>1, <1>2, <1>3, <1>4 DEF Typed
<1>8. Past'
  BY <1>2, <1>4, <1>7 DEF Weak, Past
<1>9. BarsPast' /\ \A s : StoredBars(s)' = StoredBars(s)
  BY <1>4 DEF Weak, BarsPast, StoredBars, BarEnd, BarStart
<1>10. Grows
  BY <1>1, <1>4, <1>9, Constants DEF Grows, Typed
<1>. QED  BY <1>4, <1>5, <1>6, <1>8, <1>9, <1>10, WeakKept

\* Building bars adds bars that are over, and may change others.
LEMMA BuildBarsWeak ==
  ASSUME Weak, NEW p \in Scanners, BuildBars(p)
  PROVE  Weak'
<1>. DEFINE h == Head(pass[p].queue)
            u == pass[p].at
<1>1. Typed /\ pass[p] \in Pass /\ PassGrounded(pass[p]) /\ pass[p].step = "build"
  BY DEF Weak, Typed, BuildBars, At
<1>2. /\ pass[p].queue # <<>> /\ IsInjective(pass[p].queue) /\ pass[p].queue \in Seq(Symbols)
      /\ u \in Nat /\ now \in Nat /\ u <= now
  BY <1>1, Constants DEF PassGrounded, Pass, Typed
<1>3. h \in Symbols
  BY <1>2, QueueTail
<1>4. /\ bars' = IF pass[p].execute THEN [bars EXCEPT ![h] = Upserted(h, u)] ELSE bars
      /\ UNCHANGED <<now, samples, signals, faults>>
      /\ NextSymbol(p, "build", LoadStep(p))
  BY DEF BuildBars
<1>5. PICK x \in Pass : Goes(p, x) /\ PassGrounded(x)
  BY <1>1, <1>4, StepsGrounded, NextSymbolGrounded
<1>. HIDE DEF h, u
<1>6. ASSUME NEW b \in Bars, BarOf(h, b, u) # NoBar
      PROVE  BarOf(h, b, u) \in Bar /\ BarEnd(b) <= now
  <2>1. BarEnd(b) <= u /\ Enough(h, b) /\ BarOf(h, b, u) = Built(h, b)
    BY <1>6 DEF BarOf, Enough, Built
  <2>2. b \in Nat /\ BarEnd(b) \in Nat
    BY BarsNat, Buckets
  <2>3. BarEnd(b) <= now
    BY <1>2, <2>1, <2>2
  <2>. QED  BY <1>1, <1>3, <2>1, <2>2, <2>3, BuiltIsBar
<1>7. bars \in [Symbols -> [Bars -> Bar \union {NoBar}]]
  BY <1>1 DEF Typed
<1>8. Upserted(h, u) \in [Bars -> Bar \union {NoBar}]
  BY <1>3, <1>6, <1>7 DEF Upserted
<1>9. bars' \in [Symbols -> [Bars -> Bar \union {NoBar}]]
  BY <1>4, <1>7, <1>8
<1>10. \A s \in Symbols, b \in Bars :
         bars'[s][b] = IF pass[p].execute /\ s = h /\ BarOf(h, b, u) # NoBar
                       THEN BarOf(h, b, u) ELSE bars[s][b]
  BY <1>3, <1>4, <1>7 DEF Upserted
<1>11. Typed'
  BY <1>1, <1>4, <1>5, <1>9, TypedPass DEF Typed
<1>12. Past'
  BY <1>4 DEF Weak, Past
<1>13. \A s : StoredBars(s) = {b \in Bars : bars[s][b] # NoBar}
              /\ StoredBars(s)' = {b \in Bars : bars'[s][b] # NoBar}
  BY DEF StoredBars, NoBar, Bars
<1>14. BarsPast'
  <2>. SUFFICES ASSUME NEW s \in Symbols, NEW b \in StoredBars(s)' PROVE BarEnd(b) <= now
    BY <1>4 DEF BarsPast, BarEnd, BarStart
  <2>1. b \in Bars /\ bars'[s][b] # NoBar
    BY <1>13
  <2>2. CASE BarOf(h, b, u) # NoBar
    BY <1>6, <2>1, <2>2
  <2>3. CASE BarOf(h, b, u) = NoBar
    <3>1. b \in StoredBars(s)
      BY <1>10, <1>13, <2>1, <2>3
    <3>. QED  BY <3>1 DEF Weak, BarsPast
  <2>. QED  BY <2>2, <2>3
<1>15. ASSUME NEW s PROVE StoredBars(s) \subseteq StoredBars(s)'
  <2>1. CASE s \in Symbols
    BY <1>10, <1>13, <2>1
  <2>2. CASE s \notin Symbols
    <3>1. bars'[s] = bars[s]
      BY <1>3, <1>4, <1>7, <1>9, <2>2
    <3>. QED  BY <1>13, <3>1
  <2>. QED  BY <2>1, <2>2
<1>16. Grows
  BY <1>2, <1>4, <1>15 DEF Grows
<1>. QED  BY <1>4, <1>5, <1>11, <1>12, <1>14, <1>16, WeakKept

LEMMA RecordWeak ==
  ASSUME Weak, NEW p \in Scanners, Record(p)
  PROVE  Weak'
<1>. DEFINE found == pass[p].found
            m == Len(signals)
<1>1. /\ Typed /\ pass[p] \in Pass /\ PassGrounded(pass[p])
      /\ now \in Nat /\ found \in Seq(Row) /\ signals \in Seq(Row)
      /\ \A i \in DOMAIN found : Grounded(found[i]) /\ Dipped(found[i], m)
  BY Constants DEF Weak, Typed, Pass, PassGrounded
<1>2. signals' = signals \o found /\ UNCHANGED <<now, samples, bars, faults>> /\ Goes(p, Idle)
  BY DEF Record
<1>. HIDE DEF found, m
<1>3. /\ m \in Nat /\ Len(found) \in Nat
      /\ DOMAIN signals = 1..m /\ DOMAIN found = 1..Len(found)
      /\ signals' \in Seq(Row) /\ DOMAIN signals' = 1..(m + Len(found))
      /\ Len(signals') = m + Len(found)
      /\ \A i \in 1..(m + Len(found)) :
           signals'[i] = IF i <= m THEN signals[i] ELSE found[i - m]
  BY <1>1, <1>2, ConcatProperties DEF m
<1>4. pass' \in [Scanners -> Pass] /\ \A q \in Scanners : pass'[q] = IF q = p THEN Idle ELSE pass[q]
  BY <1>1, <1>2, IdleSound DEF Typed, Goes
<1>5. Typed' /\ Past'
  BY <1>1, <1>2, <1>3, <1>4 DEF Weak, Typed, Past
<1>6. BarsPast' /\ \A s : StoredBars(s)' = StoredBars(s)
  BY <1>2 DEF Weak, BarsPast, StoredBars, BarEnd, BarStart
<1>7. Grows
  BY <1>1, <1>2, <1>3, <1>6 DEF Grows, m
<1>8. RowsGrounded'
  <2>. SUFFICES ASSUME NEW i \in DOMAIN signals'
                PROVE  Grounded(signals[i])' /\ Dipped(signals[i], i - 1)'
    BY DEF RowsGrounded
  <2>1. PICK row : row = signals'[i]
    OBVIOUS
  <2>2. PICK k \in Nat : k = i - 1
    BY <1>3
  <2>3. ASSUME NEW n \in Nat, n <= m, n <= k, Grounded(row), Dipped(row, n)
        PROVE  Grounded(row)' /\ Dipped(row, k)'
    <3>1. Grounded(row)' /\ Dipped(row, n)'
      BY <1>1, <1>5, <1>7, <2>3, GroundedStays DEF m
    <3>2. \A j \in 1..n : j \in 1..k
      BY <2>3
    <3>. QED  BY <3>1, <3>2 DEF Dipped
  <2>4. \/ i <= m /\ i \in DOMAIN signals /\ row = signals[i]
        \/ i > m /\ i - m \in DOMAIN found /\ row = found[i - m]
    BY <1>3, <2>1
  <2>5. CASE i <= m /\ i \in DOMAIN signals /\ row = signals[i]
    <3>1. Grounded(row) /\ Dipped(row, k)
      BY <2>2, <2>5 DEF Weak, RowsGrounded
    <3>2. k <= m
      BY <1>3, <2>2, <2>5
    <3>. QED  BY <2>1, <2>2, <2>3, <3>1, <3>2 DEF Grounded, Dipped
  <2>6. CASE i > m /\ i - m \in DOMAIN found /\ row = found[i - m]
    <3>1. Grounded(row) /\ Dipped(row, m)
      BY <1>1, <2>6
    <3>2. m <= k
      BY <1>3, <2>2, <2>6
    <3>. QED  BY <1>3, <2>1, <2>2, <2>3, <3>1, <3>2 DEF Grounded, Dipped
  <2>. QED  BY <2>4, <2>5, <2>6
<1>9. ASSUME NEW q \in Scanners PROVE PassGrounded(pass[q])'
  <2>1. PICK y : y = pass'[q]
    OBVIOUS
  <2>2. y \in Pass /\ PassGrounded(y)
    BY <1>4, <2>1, StepsGrounded DEF Weak, Typed
  <2>3. PassGrounded(y)'
    BY <1>1, <1>5, <1>7, <2>2, GroundedStays
  <2>. QED  BY <2>1, <2>3
<1>. QED  BY <1>5, <1>6, <1>8, <1>9 DEF Weak

LEMMA TickWeak ==
  ASSUME Weak, Tick
  PROVE  Weak'
<1>1. now \in 0..LastTick /\ now \in Nat /\ now < LastTick /\ now' = now + 1 /\ LastTick \in Nat
      /\ UNCHANGED <<samples, bars, signals, pass, faults>>
  BY Constants DEF Tick, Tables, Weak, Typed
<1>2. Typed'
  BY <1>1 DEF Weak, Typed
<1>3. Past'
  BY <1>1 DEF Weak, Past, Ticks
<1>4. \A s : StoredBars(s)' = StoredBars(s)
  BY <1>1 DEF StoredBars
<1>5. BarsPast'
  <2>1. \A s \in Symbols : \A b \in StoredBars(s) : BarEnd(b) \in Nat
    BY BarsNat, Buckets DEF StoredBars
  <2>2. \A s \in Symbols : \A b \in StoredBars(s) : BarEnd(b) <= now + 1
    BY <1>1, <2>1 DEF Weak, BarsPast
  <2>. QED  BY <1>1, <1>4, <2>2 DEF BarsPast, BarEnd, BarStart
<1>6. Grows
  BY <1>1, <1>4 DEF Grows, Weak, Typed
<1>7. RowsGrounded'
  BY <1>1, <1>4 DEF Weak, RowsGrounded, Grounded, Dipped, InRange, InMorning, BarEnd, BarStart
<1>8. ASSUME NEW q \in Scanners PROVE PassGrounded(pass[q])'
  <2>1. PICK y : y = pass[q]
    OBVIOUS
  <2>2. y \in Pass /\ PassGrounded(y) /\ y = pass'[q]
    BY <1>1, <2>1 DEF Weak, Typed
  <2>3. PassGrounded(y)'
    BY <1>2, <1>6, <2>2, GroundedStays DEF Weak
  <2>. QED  BY <2>2, <2>3
<1>. QED  BY <1>2, <1>3, <1>5, <1>7, <1>8 DEF Weak

LEMMA StepWeak ==
  ASSUME Weak, NEW p \in Scanners, Step(p)
  PROVE  Weak'
<1>. DEFINE Fits(x) == x \in Pass /\ PassGrounded(x)
<1>1. /\ Typed /\ BarsPast /\ Fits(pass[p]) /\ faults \in 0..MaxFaults
      /\ now \in 0..LastTick /\ now \in Nat
  BY Constants DEF Weak, Typed
<1>2. Fits(Idle) /\ Fits(LoadStep(p)) /\ Fits(BuildStep(p))
  BY StepsGrounded
<1>3. CASE BeginPass(p)
  <2>1. PICK execute, write \in BOOLEAN :
          Goes(p, [Idle EXCEPT !.step = "capture", !.queue = Selected,
                               !.execute = execute, !.write = write])
    BY <1>3 DEF BeginPass
  <2>2. PICK x : x = [Idle EXCEPT !.step = "capture", !.queue = Selected,
                                  !.execute = execute, !.write = write]
    OBVIOUS
  <2>3. x \in Pass
    BY <1>2, <2>2, SetupQueues DEF Pass, Steps
  <2>4. /\ x.step = "capture" /\ x.queue = Selected /\ x.at = 0 /\ x.seen = {}
        /\ x.found = <<>>
    BY <2>2 DEF Idle
  <2>5. PassGrounded(x)
    BY <1>1, <2>4, SetupQueues DEF PassGrounded
  <2>. QED  BY <1>1, <1>3, <2>1, <2>2, <2>3, <2>5, WeakPassKeeps DEF BeginPass
<1>4. CASE ReadPrice(p)
  <2>1. PICK price \in Quotes[Head(pass[p].queue)][now] :
          IF pass[p].execute
          THEN Goes(p, [pass[p] EXCEPT !.step = "store", !.quote = price, !.at = now])
          ELSE NextSymbol(p, "capture", BuildStep(p))
    BY <1>4 DEF ReadPrice
  <2>2. pass[p].step = "capture" /\ now < LastTick /\ UNCHANGED <<now, Tables, faults>>
    BY <1>4 DEF ReadPrice, At
  <2>3. \E x : Fits(x) /\ Goes(p, x)
    <3>1. CASE ~pass[p].execute
      BY <1>2, <2>1, <2>2, <3>1, NextSymbolGrounded
    <3>2. CASE pass[p].execute
      <4>1. PICK x : x = [pass[p] EXCEPT !.step = "store", !.quote = price, !.at = now]
        OBVIOUS
      <4>2. pass[p].queue \in Seq(Symbols) /\ pass[p].queue # <<>> /\ IsInjective(pass[p].queue)
        BY <1>1, <2>2 DEF Pass, PassGrounded
      <4>3. now \in Ticks
        BY <1>1, <2>2, Constants DEF Ticks
      <4>4. price \in Prices
        BY <4>2, <4>3, QueueTail, Constants
      <4>5. x \in Pass
        BY <1>1, <4>1, <4>4 DEF Pass, Steps
      <4>6. /\ x.step = "store" /\ x.queue = pass[p].queue /\ x.quote = price /\ x.at = now
            /\ x.seen = pass[p].seen /\ x.found = pass[p].found
        BY <1>1, <4>1 DEF Pass
      <4>7. PassGrounded(x)
        BY <1>1, <4>2, <4>3, <4>4, <4>6 DEF PassGrounded
      <4>. QED  BY <2>1, <3>2, <4>1, <4>5, <4>7
    <3>. QED  BY <3>1, <3>2
  <2>. QED  BY <1>1, <2>2, <2>3, WeakPassKeeps
<1>5. CASE PriceFails(p)
  <2>1. \E x \in Pass : PassGrounded(x) /\ Goes(p, x)
    BY <1>2, <1>5, NextSymbolGrounded DEF PriceFails, At
  <2>. QED  BY <1>1, <1>5, <2>1, WeakPassKeeps DEF PriceFails
<1>6. CASE CaptureFails(p)
  BY <1>1, <1>2, <1>6, FaultCounts, WeakPassKeeps DEF CaptureFails
<1>7. CASE StoreFails(p)
  <2>1. \E x \in Pass : PassGrounded(x) /\ Goes(p, x)
    BY <1>2, <1>7, NextSymbolGrounded DEF StoreFails, At
  <2>. QED  BY <1>1, <1>7, <2>1, FaultCounts, WeakPassKeeps DEF StoreFails
<1>8. CASE BuildFails(p)
  <2>1. \E x \in Pass : PassGrounded(x) /\ Goes(p, x)
    BY <1>2, <1>8, NextSymbolGrounded DEF BuildFails, At
  <2>. QED  BY <1>1, <1>8, <2>1, FaultCounts, WeakPassKeeps DEF BuildFails
<1>9. CASE LoadSignals(p)
  <2>1. PICK x : x = [pass[p] EXCEPT !.step = "evaluate", !.queue = Setup, !.seen = Seen]
    OBVIOUS
  <2>2. Goes(p, x) /\ UNCHANGED <<now, Tables, faults>>
    BY <1>9, <2>1 DEF LoadSignals, Seen
  <2>3. Seen \in SUBSET (Symbols \X Strategies)
    <3>1. \A row \in ToSet(signals) : row \in Row
      BY <1>1 DEF Typed, ToSet
    <3>2. \A row \in Row : row.symbol \in Symbols /\ row.strategy \in Strategies
      BY DEF Row
    <3>. QED  BY <3>1, <3>2 DEF Seen
  <2>4. x \in Pass
    BY <1>1, <2>1, <2>3, SetupQueues DEF Pass, Steps
  <2>5. /\ x.step = "evaluate" /\ x.queue = Setup /\ x.seen = Seen
        /\ x.found = pass[p].found /\ x.at = pass[p].at
    BY <1>1, <2>1 DEF Pass
  <2>6. PassGrounded(x)
    BY <1>1, <2>5, SetupQueues DEF PassGrounded
  <2>. QED  BY <1>1, <2>2, <2>4, <2>6, WeakPassKeeps
<1>10. CASE Evaluate(p)
  <2>. DEFINE s == Head(pass[p].queue)
  <2>1. PICK rows : /\ rows = IF StoredBars(s) = {} THEN {} ELSE Rows(s, pass[p].seen)
                    /\ Goes(p, Evaluated(p, rows))
    BY <1>10 DEF Evaluate
  <2>2. UNCHANGED <<now, Tables, faults>> /\ pass[p].step = "evaluate"
    BY <1>10 DEF Evaluate, At
  <2>3. pass[p].seen \in SUBSET Seen /\ s \in Symbols
    BY <1>1, <2>2, QueueTail DEF Pass, PassGrounded
  <2>. HIDE DEF s
  <2>4. rows = {} \/ \E row \in Row : rows = {row} /\ Grounded(row) /\ Dipped(row, Len(signals))
    <3>. SUFFICES ASSUME StoredBars(s) # {}, Rows(s, pass[p].seen) # {}
                  PROVE  \E row \in Row : /\ Rows(s, pass[p].seen) = {row}
                                          /\ Grounded(row) /\ Dipped(row, Len(signals))
      BY <2>1
    <3>1. PICK strategy : strategy \in Transition(s, pass[p].seen)
      BY DEF Rows
    <3>2. PICK row : row = [symbol |-> s, strategy |-> strategy, bar |-> LatestBar(s),
                            close |-> bars[s][LatestBar(s)].close]
      OBVIOUS
    <3>3. /\ row \in Row /\ Grounded(row) /\ Dipped(row, Len(signals))
          /\ Transition(s, pass[p].seen) = {strategy}
      BY <2>3, <3>1, <3>2, TransitionGrounded
    <3>. QED  BY <3>2, <3>3 DEF Rows
  <2>5. Fits(Evaluated(p, rows))
    BY <2>2, <2>4, EvaluatedGrounded
  <2>. QED  BY <1>1, <2>1, <2>2, <2>5, WeakPassKeeps
<1>11. CASE EvaluateFails(p)
  <2>1. Fits(Evaluated(p, {})) /\ Goes(p, Evaluated(p, {}))
    BY <1>11, EvaluatedGrounded DEF EvaluateFails, At
  <2>. QED  BY <1>1, <1>11, <2>1, FaultCounts, WeakPassKeeps DEF EvaluateFails
<1>12. CASE Crash(p)
  BY <1>1, <1>2, <1>12, FaultCounts, WeakPassKeeps DEF Crash
<1>. QED  BY <1>3, <1>4, <1>5, <1>6, <1>7, <1>8, <1>9, <1>10, <1>11, <1>12,
             StoreSampleWeak, BuildBarsWeak, RecordWeak DEF Step

-----------------------------------------------------------------------------
(* The invariant, and the theorems                                         *)

LEMMA WeakInit == Init => IInv
<1>. SUFFICES ASSUME Init PROVE IInv
  OBVIOUS
<1>1. Sound
  BY InitHolds
<1>2. /\ now = 0 /\ signals = <<>> /\ pass = [p \in Scanners |-> Idle] /\ overlapped = FALSE
      /\ bars = [s \in Symbols |-> [b \in Bars |-> NoBar]]
  BY DEF Init
<1>3. \A s \in Symbols : StoredBars(s) = {}
  BY <1>2 DEF StoredBars
<1>4. BarsPast /\ RowsGrounded
  BY <1>2, <1>3 DEF BarsPast, RowsGrounded
<1>5. \A p \in Scanners : PassGrounded(pass[p]) /\ At(p, "idle")
  BY <1>2 DEF PassGrounded, Idle, At
<1>6. ~Overlap
  BY <1>5 DEF Overlap
<1>. QED  BY <1>1, <1>2, <1>4, <1>5, <1>6 DEF IInv, Weak, Sound

\* The pipeline keeps its invariant.
LEMMA Inductive == IInv /\ [Next]_vars => IInv'
<1>. SUFFICES ASSUME IInv, [Next]_vars PROVE IInv'
  OBVIOUS
<1>1. Weak'
  <2>1. CASE UNCHANGED vars
    <3>1. UNCHANGED <<now, samples, bars, signals, pass, faults>>
      BY <2>1 DEF vars
    <3>2. Typed' /\ Past'
      BY <3>1 DEF IInv, Weak, Typed, Past
    <3>3. BarsPast' /\ RowsGrounded'
      BY <3>1 DEF IInv, Weak, BarsPast, RowsGrounded, Grounded, Dipped, StoredBars,
                  InRange, InMorning, BarEnd, BarStart
    <3>4. Seen' = Seen /\ \A s : StoredBars(s)' = StoredBars(s)
      BY <3>1 DEF Seen, StoredBars
    <3>5. \A p \in Scanners : PassGrounded(pass[p])'
      BY <3>1, <3>4 DEF IInv, Weak, PassGrounded, Grounded, Dipped,
                        InRange, InMorning, BarEnd, BarStart
    <3>. QED  BY <3>2, <3>3, <3>5 DEF Weak
  <2>2. CASE Tick
    BY <2>2, TickWeak DEF IInv
  <2>3. CASE \E p \in Scanners : Step(p)
    BY <2>3, StepWeak DEF IInv
  <2>. QED  BY <2>1, <2>2, <2>3 DEF Next
<1>2. /\ overlapped' \in BOOLEAN /\ (Overlap' => overlapped')
      /\ overlapped => overlapped'
  <2>1. CASE UNCHANGED vars
    BY <2>1 DEF vars, IInv, Overlap, At
  <2>2. CASE Next
    <3>1. overlapped \in BOOLEAN /\ overlapped' = (overlapped \/ Overlap')
      BY <2>2 DEF Next, IInv
    <3>. QED  BY <3>1, Zenon
  <2>. QED  BY <2>1, <2>2
<1>3. ~overlapped' => Sound'
  BY <1>2, SoundKept DEF IInv
<1>. QED  BY <1>1, <1>2, <1>3 DEF IInv

\* The state is well formed, and no sample and no bar lies in the future.
THEOREM TypeCorrect == Spec => []TypeOK
<1>1. IInv => TypeOK
  <2>. SUFFICES ASSUME IInv PROVE TypeOK
    OBVIOUS
  <2>1. ToSet(signals) \subseteq Row
    BY SetOfSeq DEF IInv, Weak, Typed
  <2>2. \A p \in Scanners : pass[p].step \in Steps
    BY DEF IInv, Weak, Typed, Pass
  <2>. QED  BY <2>1, <2>2 DEF IInv, Weak, Typed, Past, BarsPast, TypeOK
<1>. QED  BY <1>1, WeakInit, Inductive, PTL DEF Spec

\* A row is of a stored bar of its part of the day, and a morning entry has a
\* recorded dip before it, whatever passes overlap, fail or restart; until two
\* overlap each transition is recorded once and the stored bars justify every
\* row at any later time: neither a rebuild of the day, nor a late sample, nor a
\* restart takes the reason of a trade away
\* (Timing2ThirtySecondTriggerService.scan).
THEOREM TransitionsStayJustified == Spec => []TransitionsJustified
<1>1. IInv => TransitionsJustified
  <2>. SUFFICES ASSUME IInv PROVE TransitionsJustified
    OBVIOUS
  <2>1. ASSUME NEW row \in ToSet(signals)
        PROVE  /\ row.bar \in StoredBars(row.symbol)
               /\ IF row.strategy = "range_trigger" THEN InRange(row.bar) ELSE InMorning(row.bar)
    BY DEF ToSet, IInv, Weak, RowsGrounded, Grounded
  <2>2. ASSUME NEW i \in DOMAIN signals, signals[i].strategy = "morning_trigger"
        PROVE  \E j \in 1..(i - 1) : /\ signals[j].symbol = signals[i].symbol
                                     /\ signals[j].strategy = "morning_dip"
                                     /\ signals[j].bar <= signals[i].bar
                                     /\ overlapped \/ signals[j].bar < signals[i].bar
    <3>1. CASE overlapped
      BY <2>2, <3>1 DEF IInv, Weak, RowsGrounded, Dipped
    <3>2. CASE ~overlapped
      <4>1. Sound
        BY <3>2 DEF IInv
      <4>2. PICK j \in 1..(i - 1) : /\ signals[j].symbol = signals[i].symbol
                                    /\ signals[j].strategy = "morning_dip"
                                    /\ signals[j].bar < signals[i].bar
        BY <2>2, <4>1 DEF Sound, SignalsSound
      <4>3. /\ signals \in Seq(Row) /\ DOMAIN signals = 1..Len(signals) /\ Len(signals) \in Nat
            /\ j \in DOMAIN signals
        BY DEF IInv, Weak, Typed
      <4>4. signals[i] \in Row /\ signals[j] \in Row
        BY <4>3
      <4>5. signals[i].bar \in Nat /\ signals[j].bar \in Nat
        BY <4>4, BarsNat DEF Row
      <4>. QED  BY <4>2, <4>5
    <3>. QED  BY <3>1, <3>2
  <2>3. ASSUME ~overlapped
        PROVE  /\ \A i, j \in DOMAIN signals :
                    signals[i].symbol = signals[j].symbol
                    /\ signals[i].strategy = signals[j].strategy => i = j
               /\ \A row \in ToSet(signals) : Justified(row) /\ row \in Row
    <3>1. Sound
      BY <2>3 DEF IInv
    <3>. QED  BY <3>1, SetOfSeq DEF Sound, SignalsSound, ToSet, Typed
  <2>4. ASSUME NEW row \in Row, Justified(row)
        PROVE
          LET s == row.symbol
          IN  /\ row.close = bars[s][row.bar].close
              /\ CASE row.strategy = "morning_dip" -> row.close < SessionOpen(s)
                   [] row.strategy = "morning_trigger" -> row.close > SessionOpen(s)
                   [] row.strategy = "range_trigger" ->
                        \A b \in MorningBars(s) : row.close > bars[s][b].close
    <3>1. \/ row.strategy = "morning_dip" \/ row.strategy = "morning_trigger"
          \/ row.strategy = "range_trigger"
      BY DEF Row, Strategies
    <3>. QED  BY <2>4, <3>1 DEF Justified
  <2>. QED  BY <2>1, <2>2, <2>3, <2>4 DEF TransitionsJustified
<1>. QED  BY <1>1, WeakInit, Inductive, PTL DEF Spec

\* A stored bar is never changed and never lost, until two passes overlap
\* (Timing2ThirtySecondBarBuildService._build_bars_from_samples).
THEOREM BarsStayFinal == Spec => BarsAreFinal
<1>1. IInv /\ [Next]_vars =>
        [overlapped' \/ \A s \in Symbols : \A b \in StoredBars(s) : bars'[s][b] = bars[s][b]]_vars
  <2>. SUFFICES ASSUME IInv, Next, ~overlapped'
                PROVE  \A s \in Symbols : \A b \in StoredBars(s) : bars'[s][b] = bars[s][b]
    OBVIOUS
  <2>1. overlapped \in BOOLEAN /\ overlapped' = (overlapped \/ Overlap')
    BY DEF Next, IInv
  <2>2. ~overlapped
    BY <2>1, Zenon
  <2>3. Sound
    BY <2>2 DEF IInv
  <2>4. CASE \E p \in Scanners : BuildBars(p)
    BY <2>3, <2>4, BuildBarsStores
  <2>5. CASE ~\E p \in Scanners : BuildBars(p)
    <3>1. UNCHANGED bars
      BY <2>5 DEF Next, Step, BeginPass, ReadPrice, PriceFails, CaptureFails, StoreSample,
                  StoreFails, BuildFails, LoadSignals, Evaluate, EvaluateFails, Record, Crash,
                  Tick, Tables
    <3>. QED  BY <3>1
  <2>. QED  BY <2>4, <2>5
<1>. QED  BY <1>1, WeakInit, Inductive, PTL DEF Spec, BarsAreFinal
==============================================================================
