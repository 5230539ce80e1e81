------------------------------ MODULE DailyScans ------------------------------
(***************************************************************************)
(* The scans that turn candles and prices into signal rows over some       *)
(* trading days: the setups of timing 1 and 2 before the open, the         *)
(* intraday triggers of both timings, the 15-minute bars of held symbols   *)
(* and the MACD exits read from them, and the convergence scan after the   *)
(* close, which also stores the 15-minute bars of the day.                 *)
(*                                                                         *)
(* A scan reads what is already recorded, asks the broker about one symbol *)
(* after the other and records everything it found in one transaction; one *)
(* failing symbol fails the scan and nothing is recorded.  The refresh of  *)
(* the 15-minute bars is the exception: each symbol fails or is replaced   *)
(* by itself.                                                              *)
(*                                                                         *)
(* All setups of timing 1 rest on one strong day before the first of these *)
(* days.  Which bars close near their moving averages is the market's      *)
(* choice, made once; a price is one of four levels around the base price. *)
(***************************************************************************)
EXTENDS Integers, Sequences, FiniteSets, SequencesExt, FiniteSetsExt

CONSTANTS
  Scanners,       \* the processes that run scans
  Universe,       \* the symbols of the universe snapshot, in order
  Held,           \* the symbols with a position
  Days,           \* the last trading day, counted from 1
  MaySetUp,       \* MaySetUp[k]: symbols whose candles may match setup k
  MayConverge,    \* bars <<day, slot>> that may meet the convergence condition
  Slots,          \* 15-minute bars of a day
  CompletedAt,    \* CompletedAt[part]: how many of them are complete
  MinBars,        \* ma_long_window: bars needed for the long average
  Truncated,      \* scans whose minute candles may miss the first bars
  Schedule        \* Schedule[k]: the moments <<day, part>> scan k may begin

Parts == <<"preopen", "morning", "afternoon", "closed">>
Moments == (1..Days) \X (1..Len(Parts))
Setups == {"timing1_setup", "timing2_setup"}
Kinds == Setups \union {"timing1_convergence", "timing1_intraday",
                        "timing2_intraday", "bar_refresh", "sell_macd"}
Timing2Stages == <<"timing2_breakout", "timing2_pullback", "timing2_trigger">>
Strategies ==
  Setups \union ToSet(Timing2Stages) \union
  {"timing1_convergence", "timing1_trigger", "timing1_expired",
   "timing2_expired", "sell_macd"}
Symbols == ToSet(Universe)

\* Bars only become complete as the day goes on, and after the close all are.
ASSUME ScansAssumption ==
  /\ Universe \in Seq(Symbols) /\ IsInjective(Universe) /\ Held \subseteq Symbols
  /\ Days \in Nat \ {0} /\ Slots \in Nat \ {0} /\ MinBars \in Nat \ {0}
  /\ MaySetUp \in [Setups -> SUBSET Symbols]
  /\ MayConverge \subseteq (1..Days) \X (1..Slots)
  /\ CompletedAt \in [ToSet(Parts) -> 0..Slots] /\ CompletedAt["closed"] = Slots
  /\ \A i, j \in 1..Len(Parts) : i <= j => CompletedAt[Parts[i]] <= CompletedAt[Parts[j]]
  /\ Truncated \subseteq {"bar_refresh", "timing1_convergence"}
  /\ Schedule \in [Kinds -> SUBSET ((1..Days) \X ToSet(Parts))]

VARIABLES
  now,        \* the day and the part of the day
  market,     \* the bars of the market that meet the convergence condition
  bars,       \* intraday_bars_15m: symbol, day |-> stored slots
  rows,       \* the signals table
  scan,       \* what each scanner is doing
  overlapped  \* history: two scans have been under way at once

vars == <<now, market, bars, rows, scan, overlapped>>

Today == now[1]
Part == Parts[now[2]]

(***************************************************************************)
(* Rows of the signals table.  `nth` tells rows of the same symbol,        *)
(* strategy and date apart; `conv` is the convergence_trade_date and       *)
(* `high` the bars behind convergence_day_high (timing 1 only).            *)
(***************************************************************************)
RowOf(s, strategy, date, conv, high) ==
  [symbol |-> s, strategy |-> strategy, date |-> date, conv |-> conv,
   high |-> high, nth |-> 1]
PlainRow(s, strategy, date) == RowOf(s, strategy, date, 0, {})

IsRecorded(table, s, strategy, date) ==
  \E row \in table : row.symbol = s /\ row.strategy = strategy /\ row.date = date

\* record appends a row, whatever is there already.
Appended(new) ==
  {[row EXCEPT !.nth =
      1 + Cardinality({r \in rows : /\ r.symbol = row.symbol
                                    /\ r.strategy = row.strategy
                                    /\ r.date = row.date})] : row \in new}

\* The newest convergence row of a symbol that converged before `date`.
ConvergenceRow(table, s, date) ==
  LET earlier == {row \in table : /\ row.symbol = s
                                  /\ row.strategy = "timing1_convergence"
                                  /\ row.conv < date}
  IN  CHOOSE row \in earlier : \A r \in earlier : r.date <= row.date

HasConverged(table, s, date) ==
  \E row \in table : /\ row.symbol = s /\ row.strategy = "timing1_convergence"
                     /\ row.conv < date

(***************************************************************************)
(* The minute candles of today, resampled to completed 15-minute bars      *)
(***************************************************************************)
CompletedSlots == 1..CompletedAt[Part]

\* Mutant of Answers: the bar that is still running is answered as well.
AnswersWithRunning(kind) ==
  IF kind \in Truncated THEN {first..Slots : first \in 1..(Slots + 1)} ELSE {1..Slots}

\* The candles are asked for window by window, back from the end of the day; a
\* window that comes back empty ends the walk, and the bars before it are missing.
Answers(kind) ==
  IF kind \in Truncated THEN {first..CompletedAt[Part] : first \in 1..(Slots + 1)}
  ELSE {CompletedSlots}

(***************************************************************************)
(* The rules                                                               *)
(***************************************************************************)
\* The bars the convergence is looked for in: stored ones of other days and
\* today's answer.
History(s, day, answer) ==
  {bar \in (1..Days) \X (1..Slots) :
     IF bar[1] = day THEN bar[2] \in answer
     ELSE bar[1] < day /\ bar[2] \in bars[s][bar[1]]}

Older(bar, other) ==
  bar[1] < other[1] \/ (bar[1] = other[1] /\ bar[2] <= other[2])

\* The first bar that meets the condition and has MinBars bars up to itself.
Convergences(s, day, answer) ==
  LET history == History(s, day, answer)
      eligible == {bar \in history :
                     /\ bar \in market
                     /\ Cardinality({b \in history : Older(b, bar)}) >= MinBars}
  IN  {bar \in eligible : \A other \in eligible : Older(bar, other)}

ConvergenceRows(s, day, answer) ==
  IF IsRecorded(rows, s, "timing1_convergence", day) THEN {}
  ELSE {RowOf(s, "timing1_convergence", day, bar[1],
              {i \in 1..Slots : <<bar[1], i>> \in History(s, day, answer)}) :
          bar \in Convergences(s, day, answer)}

\* Price levels: at or below the pullback price, below the base price, at or
\* above it, at or above the breakout price.
Levels == 1..4
AtPullback(price) == price = 1
AtBase(price) == price >= 3
AtBreakout(price) == price = 4

Timing1Done(seen, s, day) ==
  \/ IsRecorded(seen, s, "timing1_trigger", day)
  \/ IsRecorded(seen, s, "timing1_expired", day)

\* Every day of the model is a trading day.
IsNextTradingDay(conv, day) == conv = day - 1

Timing1Rows(seen, s, day, price) ==
  LET conv == ConvergenceRow(seen, s, day)
      Row(strategy) == RowOf(s, strategy, day, conv.conv, conv.high)
  IN  IF ~IsNextTradingDay(conv.conv, day) \/ Timing1Done(seen, s, day) THEN {}
      ELSE CASE Part \in {"afternoon", "closed"} -> {Row("timing1_expired")}
             [] Part = "morning" /\ AtBase(price) -> {Row("timing1_trigger")}
             [] OTHER -> {}

Timing2Stage(seen, s, day) ==
  LET At(strategy) == IsRecorded(seen, s, strategy, day)
  IN  IF At("timing2_trigger") THEN "TRIGGERED"
      ELSE IF At("timing2_expired") THEN "EXPIRED"
      ELSE IF At("timing2_pullback") THEN "WAIT_REBOUND"
      ELSE IF At("timing2_breakout") THEN "WAIT_PULLBACK"
      ELSE "WAIT_BREAKOUT"

\* Mutant of Timing2Rows: a price far enough below counts as the pullback
\* whether or not there was a breakout.
Timing2RowsUnordered(seen, s, day, price) ==
  LET stage == Timing2Stage(seen, s, day)
      Row(strategy) == PlainRow(s, strategy, day)
  IN  IF stage \in {"TRIGGERED", "EXPIRED"} \/ Part = "preopen" THEN {}
      ELSE IF Part # "morning" THEN {Row("timing2_expired")}
      ELSE CASE stage = "WAIT_BREAKOUT" /\ AtBreakout(price) -> {Row("timing2_breakout")}
             [] stage # "WAIT_REBOUND" /\ AtPullback(price) -> {Row("timing2_pullback")}
             [] stage = "WAIT_REBOUND" /\ AtBase(price) -> {Row("timing2_trigger")}
             [] OTHER -> {}

Timing2Rows(seen, s, day, price) ==
  LET stage == Timing2Stage(seen, s, day)
      Row(strategy) == PlainRow(s, strategy, day)
  IN  IF stage \in {"TRIGGERED", "EXPIRED"} \/ Part = "preopen" THEN {}
      ELSE IF Part # "morning" THEN {Row("timing2_expired")}
      ELSE CASE stage = "WAIT_BREAKOUT" /\ AtBreakout(price) -> {Row("timing2_breakout")}
             [] stage = "WAIT_PULLBACK" /\ AtPullback(price) -> {Row("timing2_pullback")}
             [] stage = "WAIT_REBOUND" /\ AtBase(price) -> {Row("timing2_trigger")}
             [] OTHER -> {}

\* Enough stored bars for the MACD, whose histogram may or may not decline.
MacdMayMatch(s) ==
  Cardinality({bar \in (1..Days) \X (1..Slots) : bar[2] \in bars[s][bar[1]]}) >= MinBars

(***************************************************************************)
(* Scans                                                                   *)
(***************************************************************************)
Idle == [kind |-> "none", day |-> 0, todo |-> {}, seen |-> {}, found |-> {},
         store |-> {}, answer |-> {}]

Init ==
  /\ now = <<1, 1>>
  /\ market \in SUBSET MayConverge
  /\ bars = [s \in Symbols |-> [d \in 1..Days |-> {}]]
  /\ rows = {}
  /\ scan = [p \in Scanners |-> Idle]
  /\ overlapped = FALSE

\* The symbols a scan looks at: the universe before the open, the symbols of
\* the day's setup or of an earlier convergence, or the positions.
ConvergenceTargets == {s \in Symbols : IsRecorded(rows, s, "timing1_setup", Today)}
Timing1Targets == {s \in Symbols : HasConverged(rows, s, Today)}
Timing2Targets == {s \in Symbols : IsRecorded(rows, s, "timing2_setup", Today)}

Does(p, kinds) == scan[p].kind \in kinds /\ scan[p].todo # {}
Goes(p, next) == scan' = [scan EXCEPT ![p] = next]

\* The symbol a scan is at, in the order of the universe, and those behind it.
Place(s) == CHOOSE i \in DOMAIN Universe : Universe[i] = s
First(todo) == CHOOSE s \in todo : \A r \in todo : Place(s) <= Place(r)
Current(p) == First(scan[p].todo)
Others(p) == scan[p].todo \ {Current(p)}

\* Without symbols to look at the scan ends at once (an error, or SKIPPED in
\* the combined scan).
Begin(p, kind, targets, seen) ==
  /\ scan[p].kind = "none"
  /\ <<Today, Part>> \in Schedule[kind]
  /\ targets # {}
  /\ Goes(p, [Idle EXCEPT !.kind = kind, !.day = Today, !.todo = targets, !.seen = seen])
  /\ UNCHANGED <<now, market, bars, rows>>

BeginTiming1Setup(p) == Begin(p, "timing1_setup", Symbols, {})
BeginTiming2Setup(p) == Begin(p, "timing2_setup", Symbols, {})
BeginSellMacd(p) == Begin(p, "sell_macd", Held, {})
BeginBarRefresh(p) == Begin(p, "bar_refresh", Held, {})

\* The bars of the day must be complete.
BeginConvergence(p) ==
  /\ Part = "closed"
  /\ Begin(p, "timing1_convergence", ConvergenceTargets, {})

\* The intraday scans read the rows of the day before they ask for a price.
BeginTiming1Intraday(p) == Begin(p, "timing1_intraday", Timing1Targets, rows)
BeginTiming2Intraday(p) == Begin(p, "timing2_intraday", Timing2Targets, rows)

\* One symbol is done; after the last the scan commits, or ends at once if it
\* has nothing to write.
Visited(p, new, store) ==
  LET found == scan[p].found \union new
      stored == scan[p].store \union store
  IN  Goes(p, IF Others(p) = {} /\ found = {} /\ stored = {} THEN Idle
              ELSE [scan[p] EXCEPT !.todo = Others(p), !.found = found, !.store = stored])

\* What matched and is not yet recorded today.
VisitOnce(p, kind, may) ==
  /\ Does(p, {kind})
  /\ \E match \in {FALSE, may} :
       Visited(p, IF match /\ ~IsRecorded(rows, Current(p), kind, scan[p].day)
                  THEN {PlainRow(Current(p), kind, scan[p].day)} ELSE {}, {})
  /\ UNCHANGED <<now, market, bars, rows>>

VisitTiming1Setup(p) ==
  VisitOnce(p, "timing1_setup", Current(p) \in MaySetUp["timing1_setup"])
VisitTiming2Setup(p) ==
  VisitOnce(p, "timing2_setup", Current(p) \in MaySetUp["timing2_setup"])
VisitSellMacd(p) == VisitOnce(p, "sell_macd", MacdMayMatch(Current(p)))

VisitConvergence(p) ==
  /\ Does(p, {"timing1_convergence"}) /\ Today = scan[p].day
  /\ \E answer \in Answers("timing1_convergence") :
       Visited(p, ConvergenceRows(Current(p), scan[p].day, answer), {<<Current(p), answer>>})
  /\ UNCHANGED <<now, market, bars, rows>>

VisitTiming1Intraday(p) ==
  /\ Does(p, {"timing1_intraday"}) /\ Today = scan[p].day
  /\ \E price \in Levels :
       Visited(p, Timing1Rows(scan[p].seen, Current(p), scan[p].day, price), {})
  /\ UNCHANGED <<now, market, bars, rows>>

VisitTiming2Intraday(p) ==
  /\ Does(p, {"timing2_intraday"}) /\ Today = scan[p].day
  /\ \E price \in Levels :
       Visited(p, Timing2Rows(scan[p].seen, Current(p), scan[p].day, price), {})
  /\ UNCHANGED <<now, market, bars, rows>>

\* Everything a scan found, in one transaction.
Commit(p) ==
  /\ scan[p].kind \notin {"none", "bar_refresh", "timing1_convergence"}
  /\ scan[p].todo = {}
  /\ rows' = rows \union Appended(scan[p].found)
  /\ Goes(p, Idle)
  /\ UNCHANGED <<now, market, bars>>

\* What the scan stores for a symbol it looked at.
Stored(p, s, existing) ==
  IF \E x \in scan[p].store : x[1] = s
  THEN UNION {x[2] : x \in {y \in scan[p].store : y[1] = s}}
  ELSE existing

\* The bars of the day replace the stored ones, whatever they were, together
\* with the rows of what converged.
CommitConvergence(p) ==
  /\ scan[p].kind = "timing1_convergence" /\ scan[p].todo = {}
  /\ rows' = rows \union Appended(scan[p].found)
  /\ bars' = [s \in Symbols |->
                [bars[s] EXCEPT ![scan[p].day] = Stored(p, s, @)]]
  /\ Goes(p, Idle)
  /\ UNCHANGED <<now, market>>

\* The broker fails for one symbol, the date has changed, the transaction
\* fails, or the process dies: nothing of the scan is written.
Abort(p) ==
  /\ scan[p].kind # "none"
  /\ Goes(p, Idle)
  /\ UNCHANGED <<now, market, bars, rows>>

NextHeld(p) ==
  Goes(p, IF Others(p) = {} THEN Idle
          ELSE [Idle EXCEPT !.kind = "bar_refresh", !.day = scan[p].day,
                            !.todo = Others(p)])

\* An answer that is empty for a symbol without bars, or that has fewer bars
\* than are stored, is not written.
Regressed(existing, answer) ==
  \/ existing = {} /\ answer = {}
  \/ Cardinality(answer) < Cardinality(existing)

\* The refresh looks at the stored bars of a symbol and asks for its candles.
RefreshAsks(p) ==
  /\ Does(p, {"bar_refresh"}) /\ scan[p].answer = {} /\ Today = scan[p].day
  /\ \E answer \in Answers("bar_refresh") :
       IF Regressed(bars[Current(p)][scan[p].day], answer) THEN NextHeld(p)
       ELSE Goes(p, [scan[p] EXCEPT !.answer = answer])
  /\ UNCHANGED <<now, market, bars, rows>>

\* The stored bars of the day are deleted and the new ones inserted.
RefreshReplaces(p) ==
  /\ Does(p, {"bar_refresh"}) /\ scan[p].answer # {}
  /\ bars' = [bars EXCEPT ![Current(p)][scan[p].day] = scan[p].answer]
  /\ NextHeld(p)
  /\ UNCHANGED <<now, market, rows>>

\* The candles of one symbol cannot be had, not even after the retries a rate
\* limit is worth, or its transaction fails: the others go on.
RefreshFails(p) ==
  /\ Does(p, {"bar_refresh"})
  /\ NextHeld(p)
  /\ UNCHANGED <<now, market, bars, rows>>

TimePasses ==
  /\ \/ now[2] < Len(Parts) /\ now' = <<now[1], now[2] + 1>>
     \/ now[2] = Len(Parts) /\ now[1] < Days /\ now' = <<now[1] + 1, 1>>
  /\ UNCHANGED <<market, bars, rows, scan>>

\* Two scans are under way.
Overlap == \E p, q \in Scanners : p # q /\ scan[p].kind # "none" /\ scan[q].kind # "none"

Step(p) ==
  \/ BeginTiming1Setup(p) \/ BeginTiming2Setup(p) \/ BeginConvergence(p)
  \/ BeginTiming1Intraday(p) \/ BeginTiming2Intraday(p)
  \/ BeginSellMacd(p) \/ BeginBarRefresh(p)
  \/ VisitTiming1Setup(p) \/ VisitTiming2Setup(p) \/ VisitConvergence(p)
  \/ VisitTiming1Intraday(p) \/ VisitTiming2Intraday(p) \/ VisitSellMacd(p)
  \/ Commit(p) \/ CommitConvergence(p) \/ Abort(p)
  \/ RefreshAsks(p) \/ RefreshReplaces(p) \/ RefreshFails(p)

Next ==
  /\ (\E p \in Scanners : Step(p)) \/ TimePasses
  /\ overlapped' = (overlapped \/ Overlap')

Spec == Init /\ [][Next]_vars

(***************************************************************************)
(* Properties                                                              *)
(***************************************************************************)
Row == [symbol : Symbols, strategy : Strategies, date : 1..Days,
        conv : 0..Days, high : SUBSET (1..Slots), nth : Nat \ {0}]

\* Rows and bars are well formed, and no bar is stored before it is complete.
TypeOK ==
  /\ now \in Moments
  /\ market \subseteq MayConverge
  /\ bars \in [Symbols -> [1..Days -> SUBSET (1..Slots)]]
  /\ \A s \in Symbols, d \in 1..Days : \A i \in bars[s][d] :
       d < Today \/ (d = Today /\ i <= CompletedAt[Part])
  /\ rows \subseteq Row
  /\ \A p \in Scanners : scan[p].kind \in Kinds \union {"none"}

Has(s, strategy, date) == IsRecorded(rows, s, strategy, date)

\* Restarted scanners rebuild the stage of a symbol from the rows, whatever
\* was aborted, truncated or recorded late: a rebound needs a pullback and that
\* a breakout of the same day, and an entry of timing 1 is bought on a
\* convergence recorded the evening before.  As long as no two scans have
\* overlapped, a strategy records a symbol once a day, and a trigger and an
\* expiry exclude each other.
StagesInOrder ==
  /\ \A s \in Symbols, d \in 1..Days :
       /\ Has(s, "timing2_trigger", d) => Has(s, "timing2_pullback", d)
       /\ Has(s, "timing2_pullback", d) => Has(s, "timing2_breakout", d)
  /\ \A row \in rows : row.strategy = "timing1_trigger" =>
       /\ row.conv = row.date - 1
       /\ \E c \in rows : /\ c.symbol = row.symbol
                         /\ c.strategy = "timing1_convergence"
                         /\ c.conv = row.conv /\ c.date = row.conv
  /\ \/ overlapped
     \/ /\ \A row \in rows : row.nth = 1
        /\ \A s \in Symbols, d \in 1..Days :
             /\ ~(Has(s, "timing1_trigger", d) /\ Has(s, "timing1_expired", d))
             /\ ~(Has(s, "timing2_trigger", d) /\ Has(s, "timing2_expired", d))
=============================================================================
