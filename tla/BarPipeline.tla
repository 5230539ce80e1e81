----------------------------- MODULE BarPipeline -----------------------------
(***************************************************************************)
(* The 30-second pipeline of timing 2 on one trade date.  A pass of the    *)
(* trading cycle asks the broker for the price of every symbol set up      *)
(* before the open and stores it as a sample, rebuilds the completed       *)
(* 30-second bars from the stored samples, and evaluates the latest stored *)
(* bar of every symbol: a close below the open of the session and then one *)
(* above it (morning), or a close above every close of the morning (from   *)
(* 10:00).  The transitions a pass found are recorded as signal rows, from *)
(* which the next pass, perhaps of a new process, learns the state.        *)
(*                                                                         *)
(* Time is counted in ticks from 09:00.  A quote is stamped by the program *)
(* when the answer is parsed, and stored in a later step.  Volumes are     *)
(* left out: they never decide whether a bar is built, the volume of the   *)
(* day does not fall.                                                      *)
(***************************************************************************)
EXTENDS Integers, Sequences, FiniteSets, SequencesExt, FiniteSetsExt

CONSTANTS
  Scanners,       \* the processes that run trading cycles
  Setup,          \* the symbols of today's timing 2 setup, newest row first
  MaxSymbols,     \* timing2_max_sample_symbols_per_cycle
  Quotes,         \* Quotes[s][t]: the prices the broker may answer for s at t
  NoPrice,        \* no sample was stored for that tick
  BarTicks,       \* ticks of a 30-second bar
  LastTick,       \* the end of the session
  MinSamples,     \* min_samples_per_bar
  MorningEnd,     \* morning_end_time
  RangeStart,     \* range_breakout_start_time
  MaxFaults       \* bound on crashes and failing database transactions

ASSUME PipelineAssumption ==
  /\ Setup \in Seq(ToSet(Setup)) /\ Setup # <<>> /\ IsInjective(Setup)
  /\ MaxSymbols \in Nat \ {0}
  /\ NoPrice \notin Nat \ {0}
  /\ BarTicks \in Nat \ {0} /\ LastTick \in Nat /\ MinSamples \in Nat \ {0}
  /\ MorningEnd \in Nat \ {0} /\ RangeStart \in Nat /\ MorningEnd <= RangeStart
  /\ Quotes \in [ToSet(Setup) -> [0..(LastTick - 1) -> SUBSET (Nat \ {0})]]
  /\ MaxFaults \in Nat

Symbols == ToSet(Setup)
Ticks == 0..(LastTick - 1)
Bars == 0..(LastTick \div BarTicks - 1)
BarStart(b) == b * BarTicks
BarEnd(b) == BarStart(b) + BarTicks

Strategies == {"morning_dip", "morning_trigger", "range_trigger"}
Steps == {"idle", "capture", "store", "build", "load", "evaluate", "record"}

VARIABLES
  now,        \* ticks since 09:00
  samples,    \* current_price_samples: symbol, tick |-> price
  bars,       \* intraday_bars_30s: symbol, bar |-> open and close
  signals,    \* the rows of the three strategies, oldest first
  pass,       \* what each scanner is doing
  faults,
  overlapped  \* history: two passes have been under way at once

vars == <<now, samples, bars, signals, pass, faults, overlapped>>

NoBar == [open |-> NoPrice, close |-> NoPrice]

(***************************************************************************)
(* Building bars from samples                                              *)
(***************************************************************************)
SampleTicks(s, b) ==
  {t \in BarStart(b)..(BarEnd(b) - 1) : samples[s][t] # NoPrice}

\* Mutant of BarOf: the bucket that is still running is built as well.
BarOfRunning(s, b, until) ==
  LET ticks == SampleTicks(s, b)
  IN  IF BarStart(b) <= until /\ Cardinality(ticks) >= MinSamples
      THEN [open |-> samples[s][Min(ticks)], close |-> samples[s][Max(ticks)]]
      ELSE NoBar

\* A bar is built from the samples of a bucket that ended by `until`.
BarOf(s, b, until) ==
  LET ticks == SampleTicks(s, b)
  IN  IF BarEnd(b) <= until /\ Cardinality(ticks) >= MinSamples
      THEN [open |-> samples[s][Min(ticks)], close |-> samples[s][Max(ticks)]]
      ELSE NoBar

\* Rows of the same symbol and start are overwritten, others are kept.
Upserted(s, until) ==
  [b \in Bars |->
     IF BarOf(s, b, until) # NoBar THEN BarOf(s, b, until) ELSE bars[s][b]]

StoredBars(s) == {b \in Bars : bars[s][b] # NoBar}
LatestBar(s) == Max(StoredBars(s))
SessionOpen(s) == bars[s][Min(StoredBars(s))].open
MorningBars(s) == {b \in StoredBars(s) : BarEnd(b) <= MorningEnd}
MorningHigh(s) == Max({bars[s][b].close : b \in MorningBars(s)})

(***************************************************************************)
(* The trigger rules                                                       *)
(***************************************************************************)
InMorning(b) == BarEnd(b) < MorningEnd
InRange(b) == BarEnd(b) >= RangeStart

\* What the recorded rows say of a symbol.
StateOf(s, seen) ==
  [dipped |-> <<s, "morning_dip">> \in seen \/ <<s, "morning_trigger">> \in seen,
   morning |-> <<s, "morning_trigger">> \in seen,
   range |-> <<s, "range_trigger">> \in seen]

MorningReclaim(state, open, close) ==
  CASE ~state.dipped /\ close < open -> {"morning_dip"}
    [] state.dipped /\ close > open -> {"morning_trigger"}
    [] OTHER -> {}

RangeBreakout(high, close) == IF close > high THEN {"range_trigger"} ELSE {}

\* Mutant of Transition: a breakout is measured against the bar before.
TransitionOfLastClose(s, seen) ==
  LET b == LatestBar(s)
      state == StateOf(s, seen)
      before == StoredBars(s) \ {b}
  IN  CASE InMorning(b) /\ ~state.morning ->
             MorningReclaim(state, SessionOpen(s), bars[s][b].close)
        [] InRange(b) /\ ~state.range /\ MorningBars(s) # {} /\ before # {} ->
             RangeBreakout(bars[s][Max(before)].close, bars[s][b].close)
        [] OTHER -> {}

\* The transition of the latest bar, at most one.
Transition(s, seen) ==
  LET b == LatestBar(s)
      state == StateOf(s, seen)
  IN  CASE InMorning(b) /\ ~state.morning ->
             MorningReclaim(state, SessionOpen(s), bars[s][b].close)
        [] InRange(b) /\ ~state.range /\ MorningBars(s) # {} ->
             RangeBreakout(MorningHigh(s), bars[s][b].close)
        [] OTHER -> {}

Rows(s, seen) ==
  {[symbol |-> s, strategy |-> strategy, bar |-> LatestBar(s),
    close |-> bars[s][LatestBar(s)].close] : strategy \in Transition(s, seen)}

(***************************************************************************)
(* One pass of a scanner                                                   *)
(***************************************************************************)
Idle ==
  [step |-> "idle", execute |-> FALSE, write |-> FALSE, queue |-> <<>>,
   quote |-> NoPrice, at |-> 0, seen |-> {}, found |-> <<>>]

Selected == SubSeq(Setup, 1, IF Len(Setup) < MaxSymbols THEN Len(Setup) ELSE MaxSymbols)

Init ==
  /\ now = 0
  /\ samples = [s \in Symbols |-> [t \in Ticks |-> NoPrice]]
  /\ bars = [s \in Symbols |-> [b \in Bars |-> NoBar]]
  /\ signals = <<>>
  /\ pass = [p \in Scanners |-> Idle]
  /\ faults = 0
  /\ overlapped = FALSE

At(p, step) == pass[p].step = step
Fault == faults < MaxFaults /\ faults' = faults + 1
Tables == <<samples, bars, signals>>

Goes(p, next) == pass' = [pass EXCEPT ![p] = next]

\* The symbol at the head of the queue is done with.
NextSymbol(p, step, then) ==
  Goes(p, IF Len(pass[p].queue) > 1
          THEN [pass[p] EXCEPT !.step = step, !.queue = Tail(@), !.quote = NoPrice,
                               !.at = IF step = "build" THEN @ ELSE 0]
          ELSE then)

BuildStep(p) ==
  [pass[p] EXCEPT !.step = "build", !.queue = Setup, !.quote = NoPrice, !.at = now]
LoadStep(p) == [Idle EXCEPT !.step = "load", !.write = pass[p].write]

\* A cycle reaches the capture: `execute` is execute_actions, `write` says
\* whether signals are recorded (not in a preview, nor after a failed
\* maintenance).
BeginPass(p) ==
  /\ At(p, "idle")
  /\ \E execute, write \in BOOLEAN :
       Goes(p, [Idle EXCEPT !.step = "capture", !.queue = Selected,
                            !.execute = execute, !.write = write])
  /\ UNCHANGED <<now, Tables, faults>>

\* The broker answers with a price, which is stamped now.
ReadPrice(p) ==
  /\ At(p, "capture") /\ now < LastTick
  /\ \E price \in Quotes[Head(pass[p].queue)][now] :
       IF pass[p].execute
       THEN Goes(p, [pass[p] EXCEPT !.step = "store", !.quote = price, !.at = now])
       ELSE NextSymbol(p, "capture", BuildStep(p))
  /\ UNCHANGED <<now, Tables, faults>>

\* The price of a symbol cannot be had: the others are still captured.
PriceFails(p) ==
  /\ At(p, "capture")
  /\ NextSymbol(p, "capture", BuildStep(p))
  /\ UNCHANGED <<now, Tables, faults>>

\* The capture as a whole fails (a setup row without a name): the cycle
\* skips the bars and goes on to the trigger scan.
CaptureFails(p) ==
  /\ At(p, "capture")
  /\ Fault
  /\ Goes(p, LoadStep(p))
  /\ UNCHANGED <<now, Tables>>

StoreSample(p) ==
  /\ At(p, "store")
  /\ samples' = [samples EXCEPT ![Head(pass[p].queue)][pass[p].at] = pass[p].quote]
  /\ NextSymbol(p, "capture", BuildStep(p))
  /\ UNCHANGED <<now, bars, signals, faults>>

StoreFails(p) ==
  /\ At(p, "store")
  /\ Fault
  /\ NextSymbol(p, "capture", BuildStep(p))
  /\ UNCHANGED <<now, Tables>>

\* The bars of one symbol, in a transaction of their own.
BuildBars(p) ==
  /\ At(p, "build")
  /\ LET s == Head(pass[p].queue)
     IN  bars' = IF pass[p].execute
                 THEN [bars EXCEPT ![s] = Upserted(s, pass[p].at)] ELSE bars
  /\ NextSymbol(p, "build", LoadStep(p))
  /\ UNCHANGED <<now, samples, signals, faults>>

\* One symbol fails and the others are built; or the whole step fails and
\* the trigger scan is skipped.
BuildFails(p) ==
  /\ At(p, "build")
  /\ Fault
  /\ \/ NextSymbol(p, "build", LoadStep(p))
     \/ Goes(p, Idle)
  /\ UNCHANGED <<now, Tables>>

\* The scan reads what is already recorded, before it looks at any bar.
LoadSignals(p) ==
  /\ At(p, "load")
  /\ Goes(p, [pass[p] EXCEPT
                !.step = "evaluate", !.queue = Setup,
                !.seen = {<<row.symbol, row.strategy>> : row \in ToSet(signals)}])
  /\ UNCHANGED <<now, Tables, faults>>

Evaluated(p, rows) ==
  LET found == pass[p].found \o SetToSeq(rows)
  IN  IF Len(pass[p].queue) > 1
      THEN [pass[p] EXCEPT !.queue = Tail(@), !.found = found]
      ELSE IF pass[p].write /\ found # <<>>
      THEN [pass[p] EXCEPT !.step = "record", !.queue = <<>>, !.found = found]
      ELSE Idle

Evaluate(p) ==
  /\ At(p, "evaluate")
  /\ LET s == Head(pass[p].queue)
     IN  Goes(p, Evaluated(p, IF StoredBars(s) = {} THEN {}
                              ELSE Rows(s, pass[p].seen)))
  /\ UNCHANGED <<now, Tables, faults>>

\* A symbol that cannot be evaluated is left out.
EvaluateFails(p) ==
  /\ At(p, "evaluate")
  /\ Fault
  /\ Goes(p, Evaluated(p, {}))
  /\ UNCHANGED <<now, Tables>>

\* Everything the scan found, in one transaction.
Record(p) ==
  /\ At(p, "record")
  /\ signals' = signals \o pass[p].found
  /\ Goes(p, Idle)
  /\ UNCHANGED <<now, samples, bars, faults>>

\* The process dies between two steps, or the transaction of a scan fails.
Crash(p) ==
  /\ ~At(p, "idle")
  /\ Fault
  /\ Goes(p, Idle)
  /\ UNCHANGED <<now, Tables>>

Tick ==
  /\ now < LastTick
  /\ now' = now + 1
  /\ UNCHANGED <<Tables, pass, faults>>

Step(p) ==
  \/ BeginPass(p)
  \/ ReadPrice(p) \/ PriceFails(p) \/ CaptureFails(p)
  \/ StoreSample(p) \/ StoreFails(p)
  \/ BuildBars(p) \/ BuildFails(p)
  \/ LoadSignals(p) \/ Evaluate(p) \/ EvaluateFails(p) \/ Record(p)
  \/ Crash(p)

\* Two passes are under way: the polling loop and the single-cycle script take
\* locks of different names.
Overlap == \E p, q \in Scanners : p # q /\ ~At(p, "idle") /\ ~At(q, "idle")

Next ==
  /\ (\E p \in Scanners : Step(p)) \/ Tick
  /\ overlapped' = (overlapped \/ Overlap')

Spec == Init /\ [][Next]_vars

(***************************************************************************)
(* Properties                                                              *)
(***************************************************************************)
Prices == UNION {Quotes[s][t] : s \in Symbols, t \in Ticks}
Row == [symbol : Symbols, strategy : Strategies, bar : Bars, close : Prices]
Bar == [open : Prices, close : Prices]

\* The state is well formed; a sample or a bar never lies in the future.
TypeOK ==
  /\ now \in 0..LastTick
  /\ samples \in [Symbols -> [Ticks -> Prices \union {NoPrice}]]
  /\ bars \in [Symbols -> [Bars -> Bar \union {NoBar}]]
  /\ ToSet(signals) \subseteq Row
  /\ \A p \in Scanners : pass[p].step \in Steps
  /\ \A s \in Symbols :
       /\ \A t \in Ticks : samples[s][t] # NoPrice => t <= now
       /\ \A b \in StoredBars(s) : BarEnd(b) <= now
  /\ faults \in 0..MaxFaults
  /\ overlapped \in BOOLEAN

\* The rows are what a restarted scanner goes by and what is bought on.  Each
\* is of a stored bar of its own part of the day, and a morning entry comes
\* behind a dip that was recorded before it and not of a later bar.  As long as no
\* two passes have overlapped, moreover, each transition is recorded at most once
\* a day, the dip is of an earlier bar, and the stored bars still justify the row:
\* a dip is below the open of the session, a morning entry above it, a breakout
\* above the close of every bar of the morning
\* (Timing2ThirtySecondTriggerService.scan).
TransitionsJustified ==
  /\ \A row \in ToSet(signals) :
       /\ row.bar \in StoredBars(row.symbol)
       /\ IF row.strategy = "range_trigger" THEN InRange(row.bar) ELSE InMorning(row.bar)
  /\ \A i \in DOMAIN signals :
       signals[i].strategy = "morning_trigger" =>
         \E j \in 1..(i - 1) : /\ signals[j].symbol = signals[i].symbol
                               /\ signals[j].strategy = "morning_dip"
                               /\ signals[j].bar <= signals[i].bar
                               /\ overlapped \/ signals[j].bar < signals[i].bar
  /\ \/ overlapped
     \/ /\ \A i, j \in DOMAIN signals :
             signals[i].symbol = signals[j].symbol /\ signals[i].strategy = signals[j].strategy
             => i = j
        /\ \A row \in ToSet(signals) :
             LET s == row.symbol
             IN  /\ row.close = bars[s][row.bar].close
                 /\ CASE row.strategy = "morning_dip" -> row.close < SessionOpen(s)
                      [] row.strategy = "morning_trigger" -> row.close > SessionOpen(s)
                      [] row.strategy = "range_trigger" ->
                           \A b \in MorningBars(s) : row.close > bars[s][b].close

\* A bar that is stored is final: later samples, rebuilds of the day and
\* restarts do not change what a trigger was decided on, until a pass overlaps
\* with another (Timing2ThirtySecondBarBuildService._build_bars_from_samples).
BarsAreFinal ==
  [][overlapped' \/ \A s \in Symbols : \A b \in StoredBars(s) : bars'[s][b] = bars[s][b]]_vars
=============================================================================
