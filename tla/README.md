# Specifications of auto_trader_v2

TLA+ models of auto_trader_v2, an automatic trader for Korean stocks (KIS broker,
SQLite database, command line scripts): its orders, positions and entry lots, the
execution of signals, the trading day with its locks and scripts, the scans and
bars that produce the signals, and the operations report. With them come the TLC
configurations that check them and TLAPS proofs of all the safety properties the passing
runs check, and of the refinements.

- [The system](#the-system)
- [Modules](#modules)
- [OrderLedger](#orderledger)
- [PositionLedger](#positionledger)
- [SignalExecution](#signalexecution)
- [TradingDay](#tradingday)
- [RuntimeLock](#runtimelock)
- [BarPipeline](#barpipeline)
- [DailyScans](#dailyscans)
- [DailyOps](#dailyops)
- [Runs](#runs)
- [Fairness](#fairness)
- [Proofs](#proofs)
- [Findings](#findings)
- [What is not modelled](#what-is-not-modelled)
- [Plan](#plan)

## The system

The program is a set of scripts that are started by an operator or a scheduler
and share one SQLite database, one brokerage account and one directory of JSON
files per day. There is no server, except a dashboard that reads: concurrency is
between processes. A script that acts takes a *runtime lock* whose name holds the
script's own name and the trade date, so two runs of one script exclude each other,
and runs of different scripts do not.

| Component | State it keeps | Operations | Module |
|---|---|---|---|
| Order service | `orders` | place_order, cancel_order | OrderLedger |
| Unresolved order sync | `orders` | compare an unresolved row with the broker's inquiry, mark it CANCELLED or SUBMITTED | OrderLedger |
| Recovery finalisation | `orders` | compare local executions with the broker, set PARTIAL, FILLED or CANCELLED | OrderLedger, PositionLedger |
| Stale order cancels, maintenance pass | none | sync, finalise, clean up signals, cancel old orders | OrderLedger |
| Manual execution import | `executions`, `positions`, `orders`, `entry_lots` | book an execution the operator enters | OrderLedger, PositionLedger |
| Reconciliation | `positions` | gate, balance inquiry, lot conflict, overwrite | PositionLedger |
| Buy and sell execution | `signals`, orders through the order service | turn unacted signals into orders | SignalExecution |
| Risk guard, kill switch | `trading_controls`, `daily_stats` | allow or block a pass | SignalExecution, DailyOps |
| Trading cycle, polling loop, session, one-shot scripts | locks, files | prepare, loop, stop, report how it ended | IntradayCycle, TradingDay |
| Runtime lock | `runtime_locks` | acquire, heartbeat, release | RuntimeLock, LeasePromise |
| 30-second pipeline | samples, 30-second bars, `signals` | capture prices, build bars, find transitions | BarPipeline |
| Daily scans | 15-minute bars, `signals` | setups, convergence, triggers, bar refresh, MACD exits | DailyScans |
| Operations report, notification, check, dashboard | JSON files | flags, health, alerts and their dispatch, headline | OpsReport, DailyOps |

How they interact. The services call each other directly inside a process. Across
processes they meet in three places: the database, through `BEGIN IMMEDIATE`
transactions that are short and never contain a broker call; the exchange, through
the POST of an order or a cancel, whose reply may be lost, and through inquiries,
which only see the current day; and the day's JSON files, which no lock guards.

What is hard about it, and what should be true:

- *Nothing spans a broker call.* Every handler reads a row, calls the broker
  without a transaction, and writes in a second transaction. In between, fills
  happen and other scripts write. A live order must stay in a row the program
  looks at; status, fill summary, executions and position must agree.
- *Fills enter by hand and late.* The import books them after cancels, syncs,
  reconciliations and the end of the day. Each must find a row that accepts it, once,
  and each share must find its lot.
- *Replies get lost and processes die* between any two steps. POSTs are never
  repeated. What the program does not know it has to keep as not known.
- *Decisions are taken on snapshots.* A buy pass reads holdings, orders and cash once
  and then sends several orders; a sell signal carries a quantity from the time of its
  scan. Limits have to hold for what is really held, ordered and spent.
- *Locks expire.* A lease is judged with a clock reading taken before the
  transaction that uses it, and a trading cycle takes as long as it takes.
- *Scanners are restarted.* The stage of a symbol is rebuilt from the rows of the
  signals table; a row recorded twice, or in the wrong order, is a second trade.
- *Outcomes travel by exit code and file.* A session learns how its loop ended from
  an exit code, the report from files that may be missing, torn or of an earlier
  run. Nothing that failed may look like a success.

`PROJECT.json` lists the hazards one by one, each with its line, and the properties
that would catch it going wrong.

## Modules

| Module | What it is |
|---|---|
| `OrderStatus` | the order states and transitions; how the outcome of a POST becomes a status |
| `OrderPromise` | abstract specification of the ledger: opened once, booked share by share, complete or closed for ever |
| `OrderLedger` | the order service, the maintenance services and the import, as processes over the database and the exchange |
| `OrderLedger_proofs` | inductive invariant of `OrderLedger`, type and safety theorems, the balance of the books, and that `OrderLedger` implements `OrderPromise` |
| `PositionLedger` | several orders of one symbol, their position and entry lots, and the reconciliation |
| `PositionLedger_proofs` | its inductive invariant and theorems |
| `SignalTables` | the tables signal execution works on, and everything else that moves them |
| `SignalExecution` | the buy and the sell execution pass over `SignalTables` |
| `SignalExecution_proofs` | its inductive invariant and theorems |
| `IntradayCycle` | one trading cycle as a function of what its eleven steps came to |
| `TradingDay` | the processes of a day: session, loop, one-shot scripts, their locks, files and exit codes |
| `RuntimeLock` | one runtime lock and the runs that use it, with clocks |
| `LeasePromise` | abstract specification of a lock's row: taken when free, one's own or over, and lost no other way |
| `TradingDay_proofs` | inductive invariants and theorems of `TradingDay` and `RuntimeLock`, and that both implement `LeasePromise` |
| `BarPipeline` | samples, 30-second bars and timing-2 transitions of one day |
| `BarPipeline_proofs` | its inductive invariant and theorems |
| `DailyScans` | the other scans over several days, and the 15-minute bars |
| `DailyScans_proofs` | its inductive invariant and theorems |
| `Sums_proofs` | lemmas about sums over finite sets and least elements, for the proofs above |
| `OpsReport` | report, notification, dispatch decision and dashboard, as operators over the files |
| `DailyOps` | a day of operations: scripts leave files, checks read and write them |
| `DailyOps_proofs` | its inductive invariant and theorems |
| `MC…` | the instances for TLC, one per specification with runs |

`OrderLedger` and `PositionLedger` extend `OrderStatus`; `OrderLedger` instantiates
`OrderPromise` with a refinement mapping; `SignalExecution` extends `SignalTables`,
`TradingDay` extends `IntradayCycle`, `DailyOps` extends `OpsReport`. `TradingDay_proofs`
extends both `TradingDay` and `RuntimeLock` and instantiates `LeasePromise` twice, once
over each.

The system is split where its parts share little, and each side of a cut assumes what
the other establishes:

- `OrderLedger` follows one order through every reply and race; `PositionLedger` takes
  orders that exist and follows what several of them do to position and lots, where
  `OrderLedger` has no lots or prices.
- `SignalExecution` places an order step by step as `OrderLedger` does (row, pre-trade
  check, POST, reply), and lets everything behind it (fills, cancels, the status they
  lead to, imports) happen at any time and in any order: which service does it, and what
  it saw before, is in `OrderLedger`.
- `IntradayCycle` takes each step as completed, failed or skipped: what the steps do to
  the tables is in the modules above.
- `TradingDay` has leases that may expire; that two unexpired ones exclude each other
  is the subject of `RuntimeLock`. That both mean the same by a lock is proved: each
  implements `LeasePromise`. The locks do not keep the workers of `OrderLedger`
  apart, because every script has one of its own, so `OrderLedger` has several workers
  and no lock.
- `BarPipeline` and `DailyScans` end where a signal row is recorded, and `SignalTables`
  begins there.

## OrderLedger

### State

| Variable | Code |
|---|---|
| `status`, `order_no`, `filled_qty` | columns `status`, `kis_order_no IS NOT NULL`, `filled_qty` of `orders`; `ABSENT` means no row |
| `executions` | rows of `executions` of an order; an execution is one share |
| `position` | `positions.qty` of the one symbol modelled |
| `today` | rows whose `requested_at` is on the trade date the scripts are run for |
| `brokerState`, `brokerFilled`, `holdings`, `sellable` | the exchange and the account, from the way `broker/kis` uses them |
| `proc` | where each worker stands and what it remembers from earlier steps |
| `crashes` | a counter, to bound them |

### Steps

One transaction, or one broker call, is one action. A worker is idle or works on
one order. The handlers:

- *place_order*: `PlaceCreate` (the committed PENDING row), `PlaceFailed` or
  `PlaceChecked` (pre-trade check), `PostTaken` or `PostLost` (the one POST, for
  each outcome of the HTTP call), `PlaceFinish` (SUBMITTED, REJECTED or UNKNOWN).
- *cancel_order*: the status check is part of the action that decides to cancel
  (`StaleCancel`, `CancelScript`), then `CancelTaken` or `CancelNotTaken`, then
  `CancelFinish`.
- *the maintenance pass for one order*: `SyncStart`, the inquiry (`SyncLookup`,
  `SyncNoMatch`, `SyncLookupFails`), `SyncApply`; `FinalizeReady` or
  `FinalizeManual`, `FinalizeApply`; `StaleCancel` or `StaleSkip`. An order that
  needs manual recovery is not cancelled, as in the code's skip set.
- *import*: `ImportStart` evaluates, `ImportApply` is the transaction over three
  tables, `ImportRollback` is the same transaction when it raises.
- *environment*: `BrokerFill`, `BrokerClose`, `NewTradeDay`, `Crash`.

### Abstractions

- One symbol. Orders of different symbols share no state the modelled services
  relate.
- An execution is one share; larger executions are several. Prices and lots are in
  `PositionLedger`.
- A pass is followed for one order at a time. The steps of a pass for different
  orders touch different rows, so their order does not matter, except that an
  exception also ends the pass for the orders behind; fairness (below) assumes
  the pass is repeated.
- Ages are a free choice: an order may be found old enough or too young.
- The entry-lot conditions of the finalisation and the import are a free choice
  or left out: `FinalizeManual` may always be taken.
- The exchange takes a cancel order at once, for what is not filled yet.
- The in-process duplicate key of `Order.place_order` never refuses anything: it
  is held only during the POST, and no process sends two orders at once.

### Properties

- `LiveOrdersTracked`: an order the exchange may still execute is in an unresolved
  row. The one exception, a REJECTED row, is a finding.
- `FillAccounting`: filled_qty, status and executions tell one story.
- `UnbookedFillsStayImportable`: a fill that is not booked can be imported.
- `LedgerBalance`: position and executions are two books of the same trades.
- `PromiseKept`: the ledger implements `OrderPromise`.
- `CancelledAtBrokerGetsClosed`, `FillsGetBooked`: liveness. The second speaks of buy
  orders: a sell import can wait for ever when what was sold are shares of a buy order
  stranded in PENDING or REJECTED (see the findings), because the local position would
  become negative and the import rolls back each time.
- `TypeOK`: among the types, that the position is a natural number.

## PositionLedger

State: `orders` (status, quantity, fills, whether the rest is open at the broker, what
was imported, at what cost and in how many rows, the lot a lot-level sell names),
`position` (quantity and average price), `lots` (the `entry_lots` row of each buy order),
`audit` (the sell execution audit, the only record of which lot an order sells), the
account (`broker`, and `outside` for trades made elsewhere and not adopted yet), and
`reconcile`, the reconciliation that runs beside all of this without a lock.

Steps: `PlaceBuy`, `PlaceLotSell`, `PlacePositionSell`; `WriteAudit` or
`CrashBeforeAudit`; `BrokerFill`, `BrokerEnds`; `CancelStale`; `ImportExecution`
(the whole transaction: execution, position, order summary and lot, in every row size
the draft may offer); `Finalize` (the comparison of executions, position average and
lot with the broker); `SyncCancelled`; `TradeOutside`; and `ReconcileGate`,
`ReconcileBalance`, `ReconcileDiff`, `ReconcileWrite`, which are the four moments of
the reconciliation.

Averages are computed as in the code, which rounds a half up in the tables and to the
even neighbour in the comparison (`RoundedAverage`, `RoundHalfEven`).

- `AccountsAgree`: the position plus what is still to be imported and adopted is what
  the account holds, unless a reconciliation ran into fills nobody had imported
  (`doubtful`: the gate was overridden, a fill came between gate and write, or a
  cancelled order had filled after all).
- `LotsAgree`: a lot holds every share imported for it and not sold by a lot-level
  order; the position covers the open lots, unless a position-level sell reduced it.
- `StuckOnlyForAReason`: an unresolved order that ended at the broker can be resolved by
  the programs of the repository, except for five reasons: its audit row was lost, its
  lot was closed before its last fill was booked, its lot moved while it was under way
  or before its audit row was written (a fill of an earlier, cancelled sell of the lot
  was imported between order and audit, and the audit row then starts from less than
  the order sells; TLC did not meet this one, the attempt to prove the list complete
  did), more than two rows were averaged in turn, or it sold shares the ledger has not booked
  yet. The first, second and fifth are each the only reason in some states of the run.
  The third and fourth need a buy of four shares: in an instance with such a buy, two
  lot-level sells and nothing from outside (1,385,379 states, two minutes) each is the
  only reason somewhere, and the property holds. The run keeps to two shares
  because four, with everything else it has, are beyond five minutes.

## SignalExecution

State (in `SignalTables`): the signals table as `log`, `acted` and `stale`, the audit
rows `audit`, `orders`, `position`, `lots`, `cash`, the kill switch (how often it was
changed), how many executors died, whether the loss limit is reached, and the part of the
day. A signal is what the scanners identify it by: strategy, symbol and, for lot-level
exits, the lot. An order keeps its row (`status`, `numbered`, `booked`) apart from the
broker's side (`broker`, `filled`); `late` remembers that it was CANCELLED with fills
nobody had imported. `proc` is an executor: its side, candidates, snapshot, and the order
it has in hand.

Steps of a pass: `Start` (load, split into primary and superseded), `ConsumeSuperseded`,
`Guard`, then `ConsumeBlocked`, or `LoadBalance` and `Snapshot` (buys), and for each
candidate `EvaluateBuy` or `EvaluateSell`, `Place` (the PENDING row), `PreTrade` (sells),
`Post` (taken or not), `Replied` (SUBMITTED, UNKNOWN, or REJECTED, which a lost reply of
an order that was taken becomes too), `ConsumeDecided`. `PassFails` is a ServiceError,
`Crash` a dead process, which leaves the order where it was: PENDING, at the broker or
not. Everything else that moves the tables is `Environment`: signals recorded by
position, lot or price, signals that get old and are cleaned up, the kill switch, the
loss limit, time; and what happens to an order: `Fill` and `BrokerCancels` at the
exchange, `MarkCancelled` in the row, and `Import`, any number of shares at a time, also
into a CANCELLED row.

The scripts that execute signals take locks of different names, so several may run. The
model takes any number of them; `overlapped` is a history that turns TRUE when two passes
are under way at once, and what only holds until then says so.

- `OneOrderInFlight`: until passes overlap, never two unresolved orders of one side for a
  symbol.
- `PositionCovers`: the position covers what its unresolved sells may still sell, and its
  open lots. The first fails after an overlap, or when fills of a cancelled sell come
  late, because the next sell was sized without them; the second after a position-level
  sell, which reduces the position and no lot.
- `SlotEnteredOnce`: until passes overlap, a 30-second slot of a symbol is entered once: a
  second open lot, or an order beside the lot of another one, is only there after a
  position-level sell or late fills of a cancelled buy. A partly imported buy and its own
  lot are one entry.
- `OrdersAudited`: every order carries its audit row; a crash loses at most one, however
  many scripts execute.
- `BuysWithinLimits`: max_holdings, the cash and max_daily_order_count hold over all
  passes and the fills, cancels and imports between them, although each pass decides on
  its snapshot; until passes overlap or a buy goes *astray* (REJECTED here and live at
  the broker, or cancelled with fills that come late). Holdings are counted at the
  account, not in the tables: what is filled and not imported counts.

Beside these stands `SignalOrderedOnce`, that a signal is ordered for once, which the
repository says and two scripts refute in a run of their own.

## TradingDay

`IntradayCycle` is the set of cycles that may happen: a function from the eleven steps
to COMPLETED, FAILED or SKIPPED that satisfies the conditions under which
`run_cycle` skips a step. `TradingDay` runs it inside processes.

State: `clock` (before, in or after the trading window), `day` (universe saved, setups
recorded, loss limit reached), `locks`, and `proc`: each process with its command line,
where it stands, what its preparation came to, its last cycle, its failure streak,
stop reason, exit code and file. A session and the child it waits for are one
process until one of them dies: `KillSession` leaves the polling child alone, `KillChild`
leaves the session with a return code no script ends with.

Steps: the session's argument checks, precheck and preopen preparation
(`SessionStarts` … `SetupScan`), the loop (`PollingAcquires` or `PollingBusy`,
`LoopTop`, `CycleRuns`, `LoopGoesOn`, `LoopStops`), the one-shot scripts (single cycle,
maintenance, import, after-close), and the environment: time, the loss limit, expiring
leases, Ctrl-C, kills. A script rejects, finds its lock busy, fails or ends, each with
its own exit code and file or none. A release may fail, and the row stays: the loop and
the precheck swallow the error (`Released`), the one-shot scripts try again while they
write a file that says FAILED and end with 1 when that fails too (`Finishes`, `Breaks`;
`ClosesWith` for the after-close session, which tries once).

- `SellsFirst`: buy orders are looked at only behind maintenance and every sell scan
  having gone well and sells executed; and nothing on the buy side, nor one failing sell
  scan, keeps the sell signals from being executed.
- `TradesOnlyPrepared`: a session trades only after a preparation of its own.
- `EndsCleanly`: file and exit code of a session tell how its loop, or the child that was
  killed, really ended; an exit with 0 or 4 is in a file of this run; and a one-shot
  script that left its lock behind ended with 1. (A loop may leave its row behind and
  say nothing: the next run waits for the lease.)
- `GivesUpForARow`: the loop gives up after exactly MaxFailures failed cycles in a row.
  The count is a history of its own, not the code's counter.
- `ScriptsEnd`: every launched script ends.

## RuntimeLock

One row of `runtime_locks` (`owner`, `left`) and the runs of the polling script
(`pc`, `age`, `lease`). Time is relative: `left` is the number of seconds until
`expires_at`, `age[p]` the seconds since run p read the clock in `_build_window`,
which happens before `BEGIN IMMEDIATE`. SQLite keeps the transaction waiting for up to
`MaxWait` seconds (`busy_timeout`), then raises "database is locked". An expiry
further in the past than `MaxWait` is past for every reading in use, so time stops
counting there and the model stays finite.

The script: `AcquireBegin`, `Acquire` or `AcquireBusy`; then the loop, `BeatBegin`,
`Beat` (back to waiting for the start time, or into a cycle) or `BeatLost`,
`CycleEnd` or `CycleRaises`, `CheckBeat`; then `Release` or `ReleaseFails` in the
finally clause. `run_trading_session.py` only acquires and releases, which is
`Acquire` to `stop`. `Crash` skips the finally clause. `Rerun` is a new process with a
new owner id; a run that left no row lends it its name. The names that `TradingDay` has too
begin with `Lock` here (`LockInit`, `LockNext`, `LockSpec`, `LockTypeOK`), so that one module can
speak of both.

- `FreshLeasesExclusive`: never two runs whose leases have not expired.
- `LostForGood`: a run that lost the row never gets it back and starts no other
  cycle; an overlap lasts for the rest of one cycle at most.
- `DeadOwnerReplaced`: a row left by a dead run does not lock everybody out.

The model needs `MaxWait < Lease`: the default busy timeout is 5 s and the smallest
default lease 90 s.

`LeasePromise` says of one row, without clocks, what both models of it promise: whoever
takes or gives up a row finds none, its own, or one that is over; and a lease ends by
itself. From that follows `NoTheft`: no row passes from one process to another while
its lease lasts. In `RuntimeLock` a row is live while it has seconds left; in `TradingDay`
while its flag says so. A script that only looks whether it would get the lock, as the
session does before its preparation, is a `GiveUp`: it acquires and releases at once.

## BarPipeline

State: `samples` (a price per symbol and tick, or none), `bars` (open and close of each
30-second bar), `signals` (the rows of the three strategies, in order) and what each
scanner is doing. A pass is `BeginPass`, then `ReadPrice` and `StoreSample` for each
symbol, `BuildBars`, `LoadSignals`, `Evaluate` for each symbol, `Record`. Every one of
them can fail as in the code, and the process can die between any two.

A quote is stamped when it is parsed and stored later, so a sample may arrive after its
bar was over; the bars of the whole day are rebuilt in every pass. Highs, lows and
volumes are left out: no rule reads them.

- `TransitionsJustified`: each transition is recorded in order, in its part of the day,
  once, and the stored bars still justify it.
- `BarsAreFinal`: a stored bar never changes.

The polling loop and the single-cycle script run this pipeline under locks of different
names. With any number of passes at once a row is still of a stored bar of its part of the
day, and an entry follows a dip recorded before it; that it is recorded once, is justified
by the closes, and that bars are final, holds until two passes overlap (`overlapped`). The
check for an existing row and its insert are two moments, so after that a transition may be
recorded twice.

## DailyScans

State: `now` (day and part of the day), `market` (which bars meet the convergence
condition, chosen once), `bars` (which 15-minute bars are stored), `rows` (the signals
table) and the running scans. Each scan begins by reading what is recorded, visits
symbol by symbol and records everything in one transaction (`Commit`,
`CommitConvergence`) or nothing (`Abort`). The bar refresh replaces or refuses symbol
by symbol (`RefreshAsks`, `RefreshReplaces`, `RefreshFails`).

A scan keeps the symbols it has yet to look at as a set (`todo`) and takes the next one in
the order of the universe (`Current`); what it found waits in `found`.

Whether a series of prices meets a rule is the market's choice; which bars are looked at
is the code's and is modelled.

The evening scan and the refresh ask for candles window by window, back from the end of the
day, and take an empty window for the beginning: an answer that is cut off lacks the
first bars. `Truncated` says for which of the two that may happen; `scans` lets it
happen to both.

- `StagesInOrder`: a pullback follows a breakout of its day and a rebound its pullback; an
  entry of timing 1 comes on the day after a convergence that was recorded that evening,
  whatever was aborted, cut off, or scanned by two at once. Until two scans overlap a
  strategy records a symbol once a day, and a trigger and an expiry exclude each other.

## DailyOps

`OpsReport` defines report, flags, health, actions, alert text, notification, dispatch
decision, and the dashboard's headline as operators on the directory of the day, a
function from labels to what the files hold. `DailyOps` fills the directory: scripts
end in each of the ways their code allows, with an exit code and a file or none
(`ScriptRuns`), or die while writing (`ScriptDiesWriting`); the
kill switch is set or read in three steps (`SetterStarts`, `SetterCommits`,
`SetterWrites`); and checks build the report, prepare a notification, send it and
record that they did, in child processes that hand each other files and may die.

- `FailuresReported`: no run that ended with an error and left its file is reported
  READY, and a failed executing script is CRITICAL.
- `KillSwitchShown`: once a file tells of the present switch, the report shows it.
- `ChecksTellTruth`: the record never tells of an alert that was not sent, whatever
  checks overlap and die; and until two overlap, a check that ends with 0 had nothing to
  tell at its level, or the very alert went out.
- `DashboardAgrees`: while the last check is about the report that is there, headline and
  overview of the dashboard name the same level.

## Runs

| Run | Instance | Distinct states |
|---|---|---|
| `ledger_safety` | buy of 2, two sells of 1, 2 workers, 1 held, no crash; symmetry | 1,115,230 |
| `ledger_liveness` | buy of 2, 2 workers, 2 crashes | 4,395 |
| `lock_safety` | 3 runs, lease 2, wait 1 | 141,750 |
| `execution` | 1 executor, 3 symbols, 7 signals in 6 kinds of day, 2 holdings, 2 orders a day, cash 3, 1 mishap | 935,311 |
| `positions` | buy, lot-level sell, position sell on one symbol, another traded outside, prices 1 and 2, 1 crash, 1 outside trade, 1 reconciliation | 854,196 |
| `day` | 2 processes of every kind, 3 faults in a cycle, 2 failures allowed, no limit of cycles, 1 mishap | 150,911 |
| `ops` | 2 events, 2 checks, 1 fault, ten files, four command lines | 3,050,497 |
| `bars` | 2 symbols, 4 bars of 2 ticks, 1 fault | 2,964,141 |
| `scans` | 3 days, 2 slots a day, 2 symbols, cut-off answers | 746,240 |
| `ledger_rejected` | buy of 2, 1 crash | violates `RejectedNeverLive` |
| `ledger_pending` | buy of 2, 1 crash | violates `PendingIsRecovered` |
| `execution_twice` | as `execution`, 2 executors, no mishap | violates `SignalOrderedOnce` |

Each run checks the properties of its section above; `PROJECT.json` says which.

Why the bounds are enough to see the interesting cases:

- *Ledger.* A quantity of two is the least that can be partly filled. Two workers are
  the least that interleave, and as a worker handles one order from one read to one
  write, a hazard of this code is a pair: one that read and one that wrote in between.
  With one share held and two sells of one share both pre-trade checks are passed.
  Crashes are in `ledger_liveness`, where two allow one inside the recovery from the
  other; the theorems hold for any number, of everything.
- *Positions.* Two shares at two prices are what makes an average round, and two imports
  per order what makes a row come between a sell and its audit. The position-level
  sell meets the lot-level one on the same lot.
- *Execution.* The limits are one below what the day's signals ask for, so each of them
  is met; the days pair what competes: two slots of a symbol, a buy and a lot exit, two
  exits of one lot, a lot exit and a position exit, buys of three symbols. A lot of two
  shares and orders of two are filled and imported in parts.
- *Day.* Two processes are the least that meet at a lock; three faults in a cycle are what
  it takes to fail all three sell scans; two failures allowed are the least at which
  "in a row" differs from "at all".
- *Lock.* A lease of two and a wait of one let a clock reading be taken before, and used
  after, the moment the lease of another run expires; three runs are one that lost the
  lock, one that took it, and one that waits.
- *Bars.* Two bars before, one at and one after the boundary between the morning and the
  range rule; two ticks are an open and a close, and the second symbol shows that one
  symbol's failure leaves the other alone.
- *Scans.* Three days are the least in which an evening follows the day of an entry; either
  scan of the bars may be answered in part.
- *Ops.* Two events and two checks allow a file to change between two checks, or between
  the children of one; `KillSwitchShown` needs one change and one status.

The runs of `SignalExecution`, `BarPipeline`, `DailyScans` and `DailyOps` have one process
that starts again and again, so that the cases before an overlap are covered with several
symbols, strategies and files; `execution_twice` has two. What holds after an overlap the
theorems say for any number of processes. Smaller instances with two at once of the last
three (2,507,279, 228,606 and 1,947,620 distinct states) were checked too, without an error.

Symmetry is used in `ledger_safety`, over the workers and the two equal sell orders; no
invariant distinguishes them, and the run checks no liveness.

Only `lock_safety` checks for deadlock. Everywhere else the system may stop: every order
is terminal, the trading day or the session is over, or the bounded number of events
has happened.

Each property of a passing run has a mutant: a plausible mistake in one definition that
makes the run fail. They stand in the modules, before the definition they change,
and are named in `PROJECT.json`.

## Fairness

- *OrderLedger* (`FairSpec`). A process that runs goes on (`WF` of a worker's next step;
  a crash is not excluded). The polling loop repeats the maintenance pass over every
  unresolved order, and an inquiry that can be answered is answered some day (`SF` of
  `SyncStart` and `SyncLookup` for each order; strong, because between two passes the
  worker is busy with something else). An operator who follows the recovery procedure
  imports what can be imported (`SF` of `ImportStart`). Nothing is assumed of the
  exchange, of cancels, or of placing.
- *RuntimeLock* (`FairLockSpec`). Time passes; runs go on, which includes that a cycle ends;
  scripts are started again; and a run that could take the row is not refused by the
  database every time (`SF`).
- *TradingDay* (`FairSpec`). Time passes, and as long as some launched process can go
  on, one of them does (`WF`). Nothing is assumed of failures, kills or leases: the
  loop ends because its cutoff is passed or because something stopped it before.

The other modules have no liveness property: what they do is driven by quotes, signals
and operators, of whom nothing may be assumed.

## Proofs

The theorems are about the specifications with arbitrary constants, under the
assumptions named in the modules. `PROJECT.json` lists them with the property each
states; every safety property of a passing run is among them.
Each proof module has an inductive invariant `IInv` that implies the properties, and one
lemma per action that the action keeps it. TLC finds these invariants to
hold on instances of the size above, too.

### Assumptions

What the constants are assumed to be is what the modules say: quantities, prices and
limits are positive, sets of orders and symbols are finite, `NoOrder`, `NoLot` and their
like are no orders or lots. Four assumptions leave something out:

- `MaxWait < Lease` (`RuntimeLock`): see there.
- `MorningAssumption`, `ExecutionAssumption` (`SignalTables`, `SignalExecution`): the day
  begins with at most one open lot per 30-second slot and symbol, with positions that
  cover the open lots, and with no more holdings than `MaxHoldings`. The program keeps
  these over a day if nothing else sells (that is what the theorems say); it does not
  restore them, so an operator who lowers `max_holdings` below what is held, or a
  position sold elsewhere overnight, is left out.
- `ScansAssumption` (`DailyScans`): all bars of the day are complete at its close, and
  no complete bar becomes incomplete; the model begins with an empty signals table.
- `Setup`, `Universe` hold a symbol once, as the snapshots do.

One theorem has a hypothesis besides these: `OneChanger` (`SwitchIsShown`): one process
enables or disables the kill switch; any number may read it. Two that change it at once
may take their stamps in one order and commit in the other, and then the later file, which
the report believes, is not the row in the database.

No theorem assumes that a process is alone. Nothing in the code makes it so: a runtime
lock keeps two runs of one script apart (`LeasesExclusive`, up to the rest of one cycle
after the lock is lost), but the polling loop, the single-cycle script and the one-shot
scripts have locks of their own, and checks have none. So `SignalExecution`,
`BarPipeline`, `DailyScans` and `DailyOps` have any number of processes, and a history
variable `overlapped` that is TRUE from the first state on in which two passes (scans,
checks) are under way. The theorems say what holds whoever overlaps, and what holds until
then; passes that take turns never set it, nor do passes that die and are followed by
others. What fails afterwards is under *Findings*.

### The arguments

**OrderLedger_proofs.** The invariants are not inductive: that a cancel that comes back
finds room for every fill, for example, depends on what its worker saw when the broker
took it. The strengthening `IInv` has three parts.

- `OrderOK(o)` relates a row to the exchange: executions are among the fills, a
  cancelled order was not full, a row with an order number was taken by the
  broker, a CANCELLED row is cancelled there.
- `WorkerOK(w)` says what a worker may rely on at each point, and it has to survive the
  steps of everybody else: a worker about to POST has a PENDING row nobody else
  sends; one that is about to write CANCELLED saw the order cancelled at the broker,
  which is for ever.
- `OnePlacer`: no two workers place the same order.

Facts about a worker are *stable*: the lemma about `Stable(o)` shows that what an
order's row and the broker's side may do in a step never invalidates what another
worker knows. So each action is proved for its own order and worker, and the
lemmas `MoveKeepsIInv` (steps that only move a worker) and `RowStepKeepsIInv` (steps
that write one row) do the rest. One lemma per action follows, and the theorems
`TypeCorrect`, `LiveTracked`, `FillsAgree`, `FillsImportable`.

`BooksAgree` counts: the shares booked to a side are a finite set of pairs, and an
import adds one pair and one share. `LedgerKeepsPromise` classifies what a step does to
the rows (`RowSteps`): nothing, or one row is created, moves between statuses, or gets
one execution; each of these is a step of the promise or a stutter. That finalisation
never changes a row, except by cancelling it, is one of the lemmas: its target has always
been written by the import already.

**PositionLedger_proofs.** `AccountsAgree` and `LotsAgree` add up several orders, so
every action is proved twice: what it does to one row (`OrdersSound`, `AuditSound`,
`AveragesSound`), and what that does to the sums (`Accounts`, `LotsSound`: a lot's
`sold` is the sum over the audited sells of what was imported for each, and its total what
was imported for its buy). The hard part is the reconciliation, which writes a position from
a balance read three steps before. `ReconcileSound` says what the old balance is still good
for: as long as no fill crossed it (`dirty`), balance and account differ by the trades
made outside since, no unresolved order has a fill (what the gate saw, if it was not
overridden), and the symbols it is about to overwrite have no open lot. `EndedOrdersResolve` shows that the list of reasons in `StuckFor` is
complete. There the averages have to be computed: up to two rows, rounding them one after
the other gives the rounded average of the executions, which a third row may spoil.

**SignalExecution_proofs.** `IInv` has three layers. The first holds for any number of passes
at once: the types, `TablesSound`, which relates an order, its lot, the position and the
audit rows, and `WorkSound`, which says what order a pass has in hand. From it follow
`TypeCorrect`, `OrdersStayAudited`, which counts the orders without audit row (`Lost`)
against the crashes, and the second half of `PositionCoversItsSells`, a sum over the lots
that every import moves together with the position. The second layer is about the time
before an overlap: `ViewSound` says what is left of what the one pass under way has read,
and `PlaceSound` why the order it is about to place is the only one of its symbol and
side, although fills, cancels and imports have moved the tables since. `OneOrderAtATime`,
`SlotsEnteredOnce` and the first half of `PositionCoversItsSells` follow from
`OrdersAlone`. The third, `SnapshotSound`, is for `LimitsHold` and holds as long as no buy
has gone astray: every symbol that is held or has an unresolved buy is one the snapshot
had, or that the pass has added; the account has at least the cash the pass still counts;
and there are no more orders of the day than it has counted.

**TradingDay_proofs.** The invariant is local: `Sound` says what a process record may
be, `LocksOK` which lock a process may own where it stands. Every action sets the record
of one process, so one lemma (`StepKeeps`) reduces it to that record. `GivesUpOnlyForARow`
rests on `RowSound`: the counter of the code and the history of failed cycles are equal
whenever no cycle is being judged. `SellsComeFirst` rests on `CycleSafe`, which is about
every cycle of `IntradayCycle`. The theorems are about `Spec`; the run checks the
same properties under `FairSpec`, which implies it.

**BarPipeline_proofs.** What holds for any number of scanners is `Weak`: a row is of a stored
bar, stored bars are never lost, and what a scan has read of the rows is still there when
it records. Until two passes overlap there is `Sound`: a stored bar is what its samples make
(`BarsBuilt`), every earlier bucket that has enough samples is stored too
(`BarsComplete`), and no sample on its way and no build under way reaches behind a stored
bar (`PassSound`). From the second it follows that the open of the session and the high of
the morning are fixed once something was judged by them; from the third that bars are
final.

**DailyScans_proofs.** `Admissible` says what a row that was found needs of the rows
recorded before it; rows are only added, so this survives whatever other scans record. It
gives the order of the stages and the convergence behind an entry for any number of
scanners and any answers. `Fresh` says that nothing recorded speaks against the row; it
survives until two scans overlap, and gives that each row is recorded once and excludes
its opposite.

**TradingDay_proofs, the lock.** `LeaseInv` says that a run that holds a lease either owns
the row, with the same expiry, or its lease is over. A takeover with an old clock reading is
harmless because the reading is *earlier* than now: what had expired then has
expired now. `LockKeepsPromise` and `DayKeepsPromise` show step by step that
`RuntimeLock` and `TradingDay` implement `LeasePromise`: a step is a take, a giving up, the
end of a lease, or leaves the row as it is. The second is proved for the row of every
kind of script (`Name`) and rests on `LocksOK`: the lock a process drops when it ends is its own
or one that is over. `LockIsNotStolen` and `DayStealsNoLock` carry `NoTheft` over to both.

**DailyOps_proofs.** The exit code of a script and the flags the report raises for its file
are computed in different programs. `Told` relates the two: a run that ended with an error is
told of by a flag of its own file, FAILED if it broke off. There is one lemma for each kind
of script, over all the ways it ends (`SessionTold` … `RehearsalTold`), and `FailureTold` joins
them. `FailureShown` follows the flag into outcome, level and row, and
`FlagsLeadSomewhere` shows that every flag refers to a file that exists, also the three
that stand for several files. The invariant `IInv` supplies what these lemmas start from: the
files are such as the scripts leave (`FilesOK`), the file behind a run is the one it
left (`RanOK`), and a check has a report before it prepares a notification (`ChecksOK`).
`SentOK` counts alerts against the checks that may still send (`Pending`).
`KillSwitchShown` needs `SwitchKnown` besides: no file and no row in hand is later than the row
of the database, nor says other than it; `LatestExists` shows that the report's choice of
the latest file is one. `RecordIsTruthful`, the half of `ChecksTellTruth` about the record,
rests on what one child hands the next (`HandedOK`), with any number of checks. The other half needs `TruthKnown`,
which holds until two checks overlap: what a check remembers is what the files say at each
of its steps.

**Sums_proofs.** The sums of the models are `SumFunctionOnSet`, whose definition picks the
elements in an order nobody knows. The lemmas say that the order does not matter and how a
sum changes with its set or function. The library's induction takes an operator as a parameter,
which is out of the provers' reach; the inductions here are therefore by least
counterexample over the sizes of sets, which only needs that the natural numbers are
well founded.

### Only model-checked

- Liveness: `CancelledAtBrokerGetsClosed`, `FillsGetBooked`, `DeadOwnerReplaced`,
  `ScriptsEnd`. They need ENABLED and fairness, which the prover has not.
- The operators of `OpsReport` that fold or sort a sequence (the alert text, the counts of
  failed refreshes): what they compute for every input would need induction over data.

## Findings

With a run that shows them:

1. *A lost reply becomes REJECTED* (`ledger_rejected`). `_execute_post` wraps network errors
   in the exception class that means refusal, so the service marks the order REJECTED,
   which is terminal. The comments of `broker/kis/order.py`, `models.py` and `base.py` say
   UNKNOWN.
2. *A crash after the POST leaves PENDING for ever* (`ledger_pending`), in spite of
   principle 6 of `docs/project_spec.md`.
3. *Two scripts order for one signal* (`execution_twice`). Their locks have different names,
   both read the signal before either has consumed it, and no order key is stored;
   `docs/project_spec.md`, line 14, wants every order guarded against duplicates.

Met while modelling, without a run of their own:

- The lock of the polling loop can be lost inside a cycle: one that outlasts the lease
  trades on while another run takes the row, in spite of the head of the script ("one
  persisted runtime lock for the whole polling loop"). `LostForGood` bounds what follows.
- More symbols are held than max_holdings (`docs/project_spec.md`, line 173). The fills of a
  buy that was cancelled before they were imported count nowhere until then, and another
  symbol is bought in its place. `BuysWithinLimits` says what holds until that happens.
- A symbol is bought again on the day it was sold. Nothing between scan and order reads
  the executions of the day; line 133 wants such a symbol skipped.
- The cooldown of a strong day is not kept. No code counts the five days of line 114. They
  would follow from the convergence being the first since the strong day, found again
  every evening in the stored bars; but the evening scan replaces those with whatever it
  was answered, and a cut-off answer to a repeated scan loses the convergence.
- The maintenance pass never cancels a PARTIAL order for age, since it sends such orders
  to manual recovery; `docs/project_spec.md`, line 171, says that unfilled orders are
  cancelled. `scripts/cancel_stale_buy_orders.py`, started by hand, does cancel them.
- Reaching the daily loss limit ends the polling loop, and with it the sells;
  `docs/operations_runbook.md`, line 13, says it only stops new buys.
- With two passes at once `OneOrderInFlight`, `SlotEnteredOnce` and `BuysWithinLimits` fail
  as well (see 3): each decides on a snapshot that knows nothing of the other.
- Fills of a cancelled sell that are imported late leave less than the next sell was sized
  on, and its own fills cannot all be imported then (exception of `PositionCovers`, third
  and fifth reason of `StuckOnlyForAReason`).
- A sell pass that dies between a lot-level order and its audit row leaves an order whose
  executions can be imported by no program of the repository (first reason of
  `StuckOnlyForAReason`).
- With two scanners of the 30-second pipeline (loop and cycle script) a transition is
  recorded twice: the check for an existing row and the insert are two moments.
- A loop that cannot release its lock ends as if it had, and the next one is locked out
  until the lease ends.
- An alert may go out twice: when the sender dies after sending, and when two checks
  overlap. Two that overlap with different levels may also lose one: the check that asks
  for WARNING reads the notification prepared for CRITICAL and ends with 0 (TLC shows it
  in eleven states in an instance with two checks).
- Two processes that change the kill switch at once may commit in another order than their
  time stamps; the report then shows the state of the later stamp, not that of the database.

## What is not modelled

- *Price rules, indicators, exits by price.* Floating-point functions of series; the
  models let the market choose their result.
- *Profit and loss, and the arithmetic of the loss limit*: reached or not is a free choice.
- *KIS client*: retries of inquiries, the rate limiter, the token and its cache, paging of
  order inquiries. Inquiries appear as answered, unanswered or failed.
- *Reference data* (market master, universe filters): batch imports before trading, in
  single transactions.
- *Migrations, configuration, logging*: run before everything else, or only output.
- *Operator views, drafts' texts, preview modes*: they read and change nothing; where a
  preview leaves a file the report reads, the file is in `DailyOps`.
- *The dashboard's HTTP server*: of its two requests that write, the kill switch is in
  `DailyOps`; the others read.
- *The selection of the buy strategy*: a file the dashboard writes and the next session
  reads; the strategy a session runs with is a free choice in `TradingDay`.

## Plan

Done: all modules above with their runs; the proofs listed in `PROJECT.json`.

Next, most important first:

1. The order of the commits of two processes that change the kill switch, to replace the
   hypothesis of `SwitchIsShown` by what holds of two.
2. `KisClient`: retries, backoff, token renewal and the rate limiter.
3. One cut between modules proved instead of assumed: that what the services of
   `OrderLedger` do to an order is among the fills, cancels and imports `SignalTables` lets
   happen.
