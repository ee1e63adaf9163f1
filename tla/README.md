# A verification project for cutie-backtest-providers

TLA+ specifications of the state machines inside the backtest provider, the TLC
configurations that check them on small instances, and theorems that TLAPS
checks for every value of the constants.  Everything is translated from the
Python source; where the code calls out of the repository (the Server that owns
paper runs, the market, the file system, the `backtesting` package, the
Freqtrade command), the other side is modelled from how the code uses it and is
marked external.

To check a run: `tlc -config <run>.cfg <module>.tla`.  To check the proofs:
`tlapm` on the eight modules whose name ends in `Proofs`.
`PROJECT.json` lists runs, properties, the mutation each property is known to
catch, the source lines behind every definition, the hazards and the findings.

## 1. The system

The repository is a *provider*: an HTTP service that replays trading strategies
on candles and returns trades, diagnostics and an equity curve.  Nearly all of
the logic is under `backtesting-py/`.

| Part | Where | State | Operations | What is hard |
|---|---|---|---|---|
| Strategy kernel | `strategy_kernel.py` 4199-4928 | `KernelState`: equity, frames, pending entry, position, last exit, trades, diagnostics | `evaluate`, `finalize`, `simulate`, mark-to-market curve | order of fill, exit and signal within a bar; one slot for order and position; leverage; what the last bar does |
| Basket kernel (v3) | `strategy_kernel.py` 4931-5460 | basket of legs, flags, aligned bars, marks | `simulate_v3` | bars some leg lacks; flags set at a close and executed at the next aligned open |
| Paper tick | `cutie_backtesting_provider.py` 2255-2566, `strategy_execution.py` | none: the Server sends a snapshot and its hash | validate, rebuild the window, restore, evaluate one frame, snapshot | retries, duplicates, torn reads, codec round trip |
| Compiled-strategy replay | same file 1945-2249, `strategy_kernel.py` | the rows of every stream, the frames | preflight, fetch, cover, build frames, decide | how far back each stream must reach: warm-up, lag, buckets, windows |
| Signal lifecycle, cycle replay | `strategy_cycle_replay.py`, `signal_lifecycle_kernel.py`, `strategy_signal_replay.py`, `strategy_risk_accounting.py` | open signal, stop state, risk state, daily counts | candles, strategy bars, other entries, intents; settlement | four kinds of event at one instant; quotas across shifted midnights; pause for good |
| Scale-in/out ledger | `scale_in_out_ledger.py`, `strategy_time_layer.py` | lots, cash, realized profit, trades, equity points | `buy`, `sell`, `sell_all`, `sell_lot`, time limits, entry gate, liquidation | rounding of shared charges, cash at its limit, expiry of rounds |
| Grid, DCA, RSI and Fear & Greed templates | `cutie_backtesting_provider.py` 3884-4234, 5591-5780 | lines, round, counters beside the ledger | `signal` at a close, `on_fill` at the next open | refused, unaffordable, gated and expired orders must leave template and ledger equal |
| Portfolio ledger and strategies | `portfolio_ledger.py`, `portfolio_runner.py`, `portfolio_rotation.py`, `portfolio_btc_dominance_rotation.py` | cash, lots per coin, fills, snapshots, points read so far | `rebalance`, `mark`, reconciliation, weekly and daily decisions | sales before buys, minimums, reading only what was known |
| Rotation service | `portfolio_rotation_http.py`, `fetch_rotation`, `run_backtest` | limiter, executors, fetch slots, rate lock, deadlines | serve, time out, fetch legs | a request gives up while its job and legs run on |
| Single-asset overlay | `cutie_backtesting_provider.py` 2779-3700, `strategy_risk_overlay.py`, `strategy_dynamic_stop.py`, `strategy_entry_filters.py`, `strategy_pattern_template.py` | inside the broker of `backtesting`: orders, trades, frozen levels, confirmation queue | protective orders at the fill, liquidation, moving stops, partial targets, settlement of the last bar | the order queue of an outside library, patched methods, one bar processed twice |
| Turtle template | same file 4236-4580 | group, units, pending unit | add, protect, leave together | units are observed through fills |
| Indicator templates | same file, the `_build_*` functions | an `armed` or `_dipped` flag at most | `next()` | crossings seen through ties, fills, gates and stops |
| Pattern detectors | `strategy_swing_points.py`, `strategy_bottom_patterns.py`, `strategy_top_patterns.py`, `strategy_divergence.py`, `strategy_chan.py`, `_build_fibonacci_retracement` | points, armed setup, strokes and centers, wave | one bar at a time | points confirmed late, patterns replaced, used or failed in between |
| Event templates | `strategy_event_window.py`, `strategy_token_unlock.py`, `strategy_macro_events.py` | legs and their log | submit, guard, end by plan, settle | telling the exits afterwards from the trades alone |
| OHLCV cache | same file 372-465, 999-1100 | files in a directory | read, write, evict, source check | threads and kills between system calls |
| Market data clients | same file 467-1276 | counters under a lock | split, fetch, check, join the warm-up | arithmetic at chunk borders and week grids |
| Missing candles | same file, `strategy_range_breakout.py`, `strategy_calendar_schedule.py`, `strategy_entry_filters.py` | masks | accept, refuse, mask | how far the shadow of a hole reaches |
| Freqtrade provider | `freqtrade/cutie_freqtrade_provider.py` | config, results, reports | cover, run, find, parse, keep | newest-file search in a directory others write to |
| Metric templates, reports, validation, catalog, installers | elsewhere | none or files | - | - |

How they meet: `run_backtest` takes the limiter and runs a request in a thread;
portfolio requests go on to an executor of their own and fetch their streams
through `_fetch_ohlcv_raw`, which uses the cache.  The kernels, ledgers and
cycle replays are single-threaded and called with finished data; ledger
templates talk to their ledger through two callbacks; single-asset templates
run inside the library's broker, whose methods the overlay replaces.  A paper
run is the kernel again, called once per bar through a snapshot, by a Server
that may retry.

## 2. The modules

| Module | Models | Actions |
|---|---|---|
| `KernelSteps` | the methods of `KernelState` as functions of a state and a frame | - |
| `StrategyKernel` | `simulate` | `EvaluateFrame`, `RefuseFrame`, `FinishReplay` |
| `KernelStepsProofs` | lemmas about those methods, for the replay and the paper tick | - |
| `StrategyKernelProofs` | the theorems about it | - |
| `PaperTick` | `_run_paper_tick`, the codec, an external Server | `BarCloses`, `ReadState`, `Dispatch`, `HandleTick`, `Commit` |
| `PaperTickProofs` | the theorems about it | - |
| `BasketRun` | `simulate_v3` | a frame some leg lacks, a warmup frame, a decided frame, the end |
| `BasketRunProofs` | the theorems about it | - |
| `SignalSteps`, `SignalBook`, `CycleReplay` | a signal against a candle; the abstract book of one strategy; `replay_cycle` | `NextInstant`, `Observe`, `ManageStop`, `ExternalEntry`, `RuleExit`, `EntryIntent` |
| `CycleReplayProofs` | the theorems about it | - |
| `LotSteps`, `ScaleRun` | `ScaleInOutLedger`; `run_scale_in_out` over any signals | `OpenBar`, `CloseBar`, `Finish` |
| `GridRun`, `DcaRun`, `SeriesRun` | the templates over it (`SeriesRun`: RSI and Fear & Greed) | an open and a close each, refusals, the end |
| `LotRunProofs` | the theorems about the ledger's runs and the templates | - |
| `PortfolioSteps`, `PortfolioRun` | `PortfolioLedger`; `run_portfolio` over any targets | `Open`, `Close` |
| `RotationRun`, `DominanceRun` | the two strategies over it | an open and a close each |
| `PortfolioProofs` | the theorems about the portfolio and the two strategies | - |
| `RotationService` | limiter, jobs, legs, slots, pace, deadlines | one per step of a thread |
| `BrokerSteps` | the broker of the `backtesting` package (external): order queue, contingent orders, fills | - |
| `TemplateRun` | `_FixedRiskMixin` and the classes around it, over any signals | `BrokerNext`, `StrategyNext`, `BlockedNext`, `Finalize` |
| `TemplateSignals` | twenty-five indicator templates over `TemplateRun` | `BarOpens`, `BarDecides`, `BarIsBlocked` |
| `TurtleRun` | the turtle group over the same broker | a bar, a decision, the end |
| `EventRun` | event window, token unlock, two kinds of macro release, and their settlement, over `TemplateRun` | as `TemplateRun`, by kind |
| `PatternSignals` | swing patterns, divergences, Chan's third points, Fibonacci waves, and the entry they share | `ReadBar` |
| `CandleFetch` | the chunk planner, the pages of an exchange, the joined warm-up | a chunk, a page, the turn to the warm-up, its end |
| `ArtifactReplay` | `_replay_validated_artifact` up to a decision's frames | validate, fetch, fetch, cover, build, decide |
| `OhlcvStore` | the cache directory, one step per system call (the stats of one listing are one) | `Exists` ... `Evict`, `Expire`, `Restart` |
| `SharedStateProofs` | the theorems about `RotationService` and `OhlcvStore`, whose threads share slots and a directory | - |
| `GapMasks` | the tolerance of `run_backtest` and five families of masks, with a minimal broker | judge, process, `next`, settle |
| `FreqtradeRun` | the Freqtrade provider and its directories | ask, refuse, prepare, the command (writes, fails, ends), a run by hand, answer |

A module whose name ends in `Steps` holds pure operators, so that a replay and a
paper tick, or two templates, call the same definitions.  `MC...` modules hold
instances and conjunctions of the components' properties.  Variables marked
*history* record the past for the properties; nothing in the model reads them.

Conventions.  Money is an integer in a stated unit where the code uses exact
decimals or fractions; where the code rounds, the model rounds at the same place
and in the same direction.  Optional values are sequences of length at most one,
or `None`.  Operators under the comment "Mutation:" (or "Mutant of") are not
used by the model: each is a plausible bug of the operator below it, and is what
a property of some run catches.

### Abstractions worth knowing

* A compiled strategy's conditions are one comparison or one crossing of a single
  feature; the feature's value is part of the bar.  The expression language
  behind it is stateless.
* In `ArtifactReplay` a value is the set of rows it is made of, so that reading
  too few, too many or too late rows shows, and arithmetic does not.
* Indicator lines are read, not computed: a reading orders the lines of a template
  among themselves and against its thresholds.  Every path of readings is run.
* The broker is external: whole units, no commission, the order of its queue and
  of its calls as the overlay relies on them.  The patched methods are the code's.
* How long a pattern's position stands is left open (the overlay is
  `TemplateRun`'s subject).  Of the choices Chan's run offers only gap 2 ("new")
  is instantiated.
* In the cycle replay prices and costs are constants of the instance, and only
  signals with a limit price are modelled; the market-base branches are not.
* Rankings, EMA sides and the BTC range are data chosen freely at each close.
* In the service, time is counted down in ticks; a tick may fall anywhere.  The
  other request kinds only occupy the limiter and are left out.
* In the cache all keys belong to the exchange the central source serves; rows
  are whole or truncated.  The stats of one listing are one step: a file that is
  removed or written anew between two of them is left out.
* The Freqtrade command may end in any way: too late, with an error (told as missing
  data when its words say so, whatever the coverage check found), or with 0, each with
  or without a result.  Assumed of it: a result is of the data format it was made to
  read; daily profits, where it gives any, come in one form, in the order of the days,
  and tell what the trades that closed in each made (`LedgersAgree`); candle files do
  not change while the provider runs.
* All results of one behaviour tell the same ledger, one of those of the instance; whose
  result it is, and when it was written, differ.

## 3. The runs

| Run | Module | Instance | Question |
|---|---|---|---|
| `kernel_replay` | `MCStrategyKernel` | six bar shapes, window 1..6, five-times leverage, cooldown 1 | does a replay look ahead, miss an exit, lose an order, over-commit, or end off its curve? |
| `paper_run` | `MCPaperTick` | a short, three shapes, window 1..6, risk sizing, crossing entry | is a paper run with retries, duplicates and torn reads the replay of the same bars? |
| `cycle_strategies` | `MCCycleReplay` | four strategies, below | stop, quota, pause and settlement rules against the whole history; the abstract book |
| `ledger_runs` | `MCLedgerRuns` | a pair of legs, six lot runs and three portfolio runs, below | do books, charges, curves, template memory and snapshots agree? |
| `service_runs` | `MCRotationService` | two requests of two streams, two slots, one job worker | slots, pace, deadlines and termination across runs |
| `templates_run` | `MCTemplateRun` | five parts, below | protection, exits and their names, groups, signals, patterns, events |
| `data_path` | `MCDataPath` | five paths, below | from the request to the rows a run reads |
| `paper_negative_take` | `MCPaperTick` | a short with a 3R target below zero | finding |
| `service_one_at_a_time` | `MCRotationService` | a job worker per request | finding |
| `templates_final_close` | `MCTemplateRun` | a leveraged run with a stop and a target | finding |
| `macro_reasons` | `MCTemplateRun` | macro releases with a stop of the user's | finding |
| `late_windows` | `MCDataPath` | the streams of compiled strategies | finding |

**Runs of several instances.**  Most runs check several parameterisations at once:
the MC module EXTENDS one component with the constants of the configuration
file, INSTANCEs others (or the same one again) WITH other constants, and a
variable that never changes (`strategy`, `template`, `part`, `path`)
says which one is running; the variables of the others stand still.  Properties
are conjunctions of the components' own, by case.  Each shared module is also
instantiated without substitution, since TLC otherwise evaluates a constant
definition once and uses its value in every instance.

* `cycle_strategies`: *long*, a managed long (trailing 25 percent, breakeven,
  bars of one candle, expiry) over any sequence of five shapes and three
  intents; *short*, with ticks of two and bars of two candles; *quotas*, days of
  six units from a shifted midnight, own quota 2, the author's 3, a cooldown and
  three possible entries of other strategies; *settlements*, up to five trades
  that win, break even or lose a little or a lot, and one more entry after them.
* `ledger_runs`: *pair*, the parameters of the configuration file: a long and a short
  leg, six grid bars with gaps, one warm-up bar, a cooldown of two aligned bars;
  *grid*, a range left on both sides, a stop below it, a gated
  bar, a holding limit and cash for three lots; *paused*, the same held through a
  fall, with cash for every line; *dca*, periods of two bars, two dips a round,
  a gated bar, a limit of four bars; *series*, every archive of four days, days
  missing or too young, and RSI with and without warm-up; *oldest* and *newest*,
  any signals, first and last lots first, charges of 10 and 5 percent, every
  kind of time limit; *rotation* over nine days (two Mondays); *dominance*, a
  history one point short, points read late and out of order; *free* targets
  with costs of 20 and 10 percent.
* `templates_run`: *overlay*, four bars of six shapes under fourteen settings
  (with and without the risk layer, leverage, sizing, partial targets, moving
  stops, frozen levels, confirmation), any signal at any bar; *turtle*, three
  groups on the same bars; *signals*, every indicator template under three
  settings; *events*, eight event lists under eight settings; *patterns*, every
  detector on both sides over every path of three to five levels, Chan's strokes
  behind a first center, Fibonacci waves freely and behind a first wave.
* `data_path`: *rows*, two grids on the epoch and a shifted one, one to four
  chunks, two candles missing; *streams*, every primitive on every kind of
  source, one more feature that looks back, warm-ups below, at and above what is
  needed, a row missing; *cache*, two threads, three keys, room for one file,
  kills and the files an earlier deployment left; *holes*, two days of four
  candles, three missing; *local*, three requests under up to three run ids, two
  ranges, three data directories (covered, outside, unreadable or missing), room for
  four entries among the reports, trades without a close, daily profits of either form
  and with dates that cannot be read, one run by hand of two pairs.

**Why the bounds are enough.**  The kernel carries one order, one position, one
flag and one index between bars: six bars hold a signal, its fill, an exit, the
cooldown and a second trade, which is the longest chain the properties relate.
The basket adds a gap in between.  The cycle replay needs a signal to expire or
close, the cooldown to run out and a day to end (*quotas*), or five losses in a
row (*settlements*): clocks of 9 to 12 reach both, with the pause in force for
the entry after.  (Five losses around a break-even trade would need a sixth trade:
the run shows that a break-even trade does not count as a loss, not that it leaves a
streak of four as it was until a fifth.)  Ledgers need two lots, a partial sale and
a second round; the rotation two Mondays.  In the service two requests of two
streams are the least for a leg that outlives its run to compete with another
run's legs for slots, lock and pace; deadlines are small but larger than the pace.
A template's bar depends on the bar before and on one trade with its orders: four
bars hold an entry, a protective order, an exit and a second entry on the bar of
the exit, and the last bar's own rules; turtle groups reach three units.  Patterns
need as many bars as their points, one more for each confirmation, the signal
and the fill: seven to fifteen with the fixed openings.  In the cache one file of
room makes every second write evict; three fetches are enough for a reader, a
writer and an evictor to meet.  Data ranges go past one chunk and one page on
both sides.

**Deadlock** is not checked: every one of these programs ends (a window, a data
set, a budget of requests), and the last state has no successor.

**Fairness** is assumed in one place only, `RotationService!ServingSpec`: time
passes, and the threads that serve requests are scheduled.  That suffices for
every request to be answered, whatever the jobs do, because the wait for the job
has a timeout.  That every job ends adds, in its own statement, that the
executor's threads are scheduled (`JobFairness`); nothing is assumed of the
market's answer, and the deadlines make up for it.  A lock is granted to a thread
that finds it free again and again only in so far as weak fairness of that
thread's own step goes: no fairness between competitors for a slot or the rate
lock is assumed.

## 4. What the runs show

**Kernel.**  Every fill is at the open after a bar of the window on which the
entry condition held (`NextBarFill`).  A position is left on the first bar that
ends it, at a price of that bar, in order of priority (`ExitsFollowTheBars`).
Every signal becomes a position, a diagnostic or the pending order, re-entries
wait for the cooldown and the curve ends at the equity (`OrdersReachTheCurve`);
trades chain to the equity (`TradesFormLedger`), and an open position was covered
by the equity it was opened on (`MarginCovered`), after crashes through a stop
too.  A pair fills on the next bar both legs have, leaves whole at the first
breach, and counts aligned bars only (`BasketsKeepTheirRules`, of `ledger_runs`).

**Paper.**  The refinement `ImplementsReplay` maps the Server's books to a state of
`StrategyKernel` and shows that a paper run takes only steps of a replay of the
same bars, although requests are sent with a state read earlier, handled late,
twice or never, and replies are committed in any order.  `RepliesAgree`: all
replies that continue one state agree.  `SnapshotsRestore`: every snapshot handed
out is one the next tick accepts; this holds of the run's strategy and not of every
one, see the finding of `paper_negative_take`.

**Cycle, ledgers, portfolios.**  The comment above each property states what it says
of the code.  The pattern is the same throughout: the replay keeps running
summaries (a stop level, counters, lots, cash, flags), and the property states
what they have to be as a function of the whole history.  Of a cycle: the signals
published are those that closed and the open one, in order (`EverySignalOnce`); a
stop is the tightest level of the bars after the fill (`EveryStopFollowsTheBars`);
an entry is published exactly when the entries, settlements and instants so far
allow it (`EveryEntryIsEarned`).
`EveryCycleImplementsBook` is a refinement: each step of the replay is one of
`SignalBook`, whose stop only tightens and whose exits are at the target, at the
stop in force, or by rule.  `TemplatesMirrorTheLedger`: what grid, DCA and Fear &
Greed remember is what the ledger holds, refused, unaffordable, gated and expired
orders included.

**Service.**  Slots are conserved across runs that gave up, requests to the market
are a pace apart, nothing is asked for a request already answered, a success is
made of every stream, and everything ends.

**Templates.**  No entry is filled past its own stop, no touch of a stop, a target or
a liquidation price is carried on (`ProtectionHolds`); every exit is paid at the
price its name promises (`ExitsArePaidAsNamed`); the account is the sum of its
trades, partial targets take their share, and every pattern signal waits or was
settled once (`RunsAddUp`).  A turtle group is what the broker holds and leaves as
one (`GroupsStayWhole`).  Indicator templates never enter twice on one turn
(`SignalsAreEarned`) and never keep a position on the wrong side of the level that
opened it (`PositionsFollowTheirLevel`), ties excepted.  A detector speaks at exactly
the closes at which its pattern, read off the chart, is complete for the first
time (`PatternsAreSound`).  Every event is told once, and for the exit that
closed its trade (`EventsAreTold`).

**Data.**  Chunks and pages meet without a gap or an overlap and the warm-up joins
the run (`RowsFormOneSeries`); the coverage check demands what the fetch asked for,
within the budget (`AdmittedFetchesSuffice`); frames read the latest closed rows
and no others (`FramesReadTheLatestClosed`); a cache hit is a whole series of the
configured source after any kill, and the directory is within its limit at rest
(`CacheServesWholeFiles`); no decision and no holding crosses a missing candle it
may not cross (`HolesAreMasked`).

Of the Freqtrade provider: when the command wrote a result, a success answers nothing
older, and where Freqtrade honours the selected directory it answers, and copies, this
very request's result (`LocalResultsAreOwn`); the result of a covered request is of
data that covers it, and a request is turned away only when no file could serve it
(`LocalDataIsChecked`); the curve stands at each time at what the listed trades with an
exit have made (`LocalCurvesTellTheTrades`); a report stays for half as many requests as
there are places (`LocalReportsStay`).  What the code does not promise, and no property
claims: a command that exits with 0 and writes nothing lets an earlier try of the same
run id, or Freqtrade's newest backtest, be answered as a success; a copy that fails is
only logged, and the success names a report that is missing, torn, or of an earlier
request of the same run id; a trade without a readable close is listed and is in no
curve; the curve of a result with other pairs counts those too.

### Findings

1. `paper_negative_take` (bug): the kernel opens positions whose take-profit is zero
   or negative - a short at 20 with a stop at 28 and 3R is given -4 - and
   `to_snapshot` writes it, but `from_snapshot` (`strategy_kernel.py:5695`) demands a
   positive one.  The replay runs on; the paper run is refused on every later tick.
2. `service_one_at_a_time`: "One CPU backtest at a time" does not hold after a
   timeout, since the handler returns and the job computes on.
3. `templates_final_close` (bug): a liquidation leaves its reason behind; on the last
   bar a plain close still queued is then taken for a liquidation, the last `next()`
   is skipped, and the trade that the data ends is paid the last open instead of the
   last close.
4. `macro_reasons`: a macro release with a stop of the user's leaves by the protective
   order, and the settlement tells it as the engine's own close at the period's end.
5. `late_windows`: a lag widens the primary frames and every stream is fetched back to
   the first of them, but not to the window that frame reads: an admitted request
   whose source has every row can die at the frames.

Observations that are modelled as they are, without a run of their own: a mark at
the close of bar i-1 is overridden by a trade closed at the open of bar i
(documented at `strategy_kernel.py:4776`); in the DCA a dip or the target takes
the place of the period's calendar buy; `simulate_v3` has no check of the margin
against what is left of the capital; a gap between close and open sells a grid cell
for less than its step; `stat()` after a listing raises an error `_fetch_ohlcv_raw`
does not list; in a small chunk one missing candle at a border is accepted; a weekly
warm-up does not meet the run's grid; a close decided on the last bar keeps the name
it was decided for; a position may span a missing candle where the template allows it.

## 5. What is proved

For every value of the constants that satisfies the named assumptions:

| Module | Theorem | Property |
|---|---|---|
| `StrategyKernelProofs` | `TypeCorrect` | `Spec => []TypeOK` |
| | `NoLookAhead` | `Spec => []NextBarFill` |
| | `LedgerChains` | `Spec => []TradesFormLedger` |
| | `NeverOverMargin` | `Spec => []MarginCovered` |
| | `Invariance` | `Spec => []IInv`, the inductive invariant behind them |
| | `LeftOnTheFirstBar` | `Spec => []ExitsFollowTheBars` |
| | `OrdersEndOnce` | `Spec => []OrdersReachTheCurve` |
| | `ExitInvariance` | `Spec => []XInv`, the inductive invariant behind them |
| `PaperTickProofs` | `TicksReplay` | `Spec => ImplementsReplay`, the refinement of `StrategyKernel` |
| | `RetriesAgree` | `Spec => []RepliesAgree` |
| | `TicksKeepTheBooks` | of the books the Server keeps: what is proved of the replay |
| | `EverySnapshotRestores` | `Spec => []SnapshotsRestore`, for rules whose levels stay positive |
| | `PaperInvariance` | `Spec => []PaperInv`, the inductive invariant behind them |
| `CycleReplayProofs` | `SignalsEndOnce` | `Spec => []EverySignalOnce` |
| | `StopsFollowTheBars` | `Spec => []StopFollowsTheBars`, which `EveryStopFollowsTheBars` says of four strategies |
| | `BookIsKept` | `Spec => ImplementsBook`, the refinement of `SignalBook`; `EveryCycleImplementsBook` in the run |
| | `EntriesEarned` | `Spec => EntriesAreEarned`, an action property, which `EveryEntryIsEarned` says of four strategies |
| | `QuotasAreCounted` | `Spec => []Counts`: counters and last entry are those of the history |
| | `AccountSumsUp` | `Spec => []Sums(risk, Returns)`: equity, peak, streak and pause are those of the returns |
| | `CycleInvariance` | `Spec => []IInv`, the inductive invariant behind them |
| `BasketRunProofs` | `BasketsKeepTheRules` | `Spec => []BasketsKeepTheirRules` |
| | `BasketsFollowSignals` | `Spec => []FillsFollowSignals`, a part of the run's `BasketsKeepTheirRules` |
| | `SignalsTally` | `Spec => []Counted`, the count of `SignalsAccounted` |
| | `BasketInvariance`, `RulesInvariance` | `Spec => []IInv`, `Spec => []RInv`, the inductive invariants behind them |
| `LotRunProofs` | `LotRunInvariance` | `Spec => []RunInvariant`, the inductive invariant of `ScaleRun` |
| | `LotTypesCorrect` | `Spec => []TypeOK`, a part of the run's `LotBooksAreSound` |
| | `LedgerNeverFails` | `Spec => []NeverEngineError`, another part of it |
| | `CurvesEndRight` | `Spec => []CurveEndsAtTheResult`, another part of it |
| | `RoundsNeverOutlast` | `Spec => []RoundsExpire`, what `EveryRoundExpires` says of each template |
| | `ServerCanRecomputeFees` | `Spec => []ServerRecomputesFees`, the part of `LotBooksAreSound` on charges (`FeesRecompute`) |
| | `GridIsALotRun` | `GridSpec => Spec`: the grid refines a run under any signals |
| | `GridTypesCorrect` | `GridSpec => []GridTypeOK` |
| | `GridMirrorsTheBook` | `GridSpec => []LinesMirrorTheLots`, the grid's part of `TemplatesMirrorTheLedger` |
| | `GridClearsBelow` | `GridSpec => []BelowRangeIsFlat`, the other part of it |
| | `GridInvariance` | `GridSpec => []GridInvariant`, the inductive invariant of `GridRun` |
| | `GreedCountsItsLots` | `SeriesSpec => []LotsAreCounted`, a part of `TemplatesMirrorTheLedger` |
| | `GreedReadsTheDay` | `SeriesSpec => []ReadsTheLastWholeDay`, another part |
| | `DcaMirrorsTheLots` | `DcaSpec => []RoundMirrorsTheLots`, another part |
| | `DcaCountsItsDips` | `DcaSpec => []DipsAreCounted`, another part |
| | `DcaCountsItsRounds` | `DcaSpec => []RoundsAreCounted`, another part |
| `PortfolioProofs` | `PortfolioTypes` | `Spec => []TypeOK`, under any targets |
| | `SnapshotsAreReplays` | `Spec => []SnapshotsReconcile`, a part of the run's `RebalancesLand` |
| | `RebalancesLandOnTarget` | `Spec => []LandsOnTarget`, the other part of it |
| | `RotationTypes`, `RotationKeepsItsBooks` | the same three of `RotationSpec` |
| | `OutOfTheMarket` | `RotationSpec => []RiskOff`, a part of `RotationsKeepTheirRules` |
| | `TradesOnItsDays` | `RotationSpec => []BuysOnMondays`, another part |
| | `ErrorsNameTheirCause` | `RotationSpec => []FailsOnMinimumsOnly`, another part |
| | `DominanceTypes`, `DominanceKeepsItsBooks` | the same three of `DominanceSpec` |
| | `PointsAreReadOnTime` | `DominanceSpec => []ReadsWhatIsAvailable`, another part |
| | `ExitsFollowTheirEntries` | `DominanceSpec => []ExitsFollowEntries`, another part |
| | `HaltsComeFirst` | `DominanceSpec => []HaltsBeforeTrading`, the last part |
| `SharedStateProofs` | `SlotsNeverLost` | `Spec => []SlotsAccountedFor` |
| | `SuccessesAreWhole` | `Spec => []SuccessIsWhole` |
| | `MarketAskedInTurn` | `Spec => MarketIsAskedInTurn`, an action property |
| | `ServiceInvariance` | `Spec => []IInv`, the inductive invariant behind them |
| | `LimitHoldsAtRest` | `StoreSpec => []BoundedAtRest`, a part of the run's `CacheServesWholeFiles` |
| | `HitsStayWhole` | `StoreSpec => []HitsAreWhole`, the other part of it |
| | `CacheIsWholeAndBounded` | `StoreSpec => []CacheServesWholeFiles`, both parts |
| | `StoreInvariance` | `StoreSpec => []StoreIInv`, the inductive invariant behind the limit |

**The kernel** (any strategy, sizing, instrument, capital, window and frames:
`SpecAssumption`, `RunAssumption`, `FramesAssumption` - positive prices, ranges of
the contract, an exit priority that is a permutation).  None of the properties is
inductive alone: `NextBarFill` speaks of positions, but a position comes from a
pending order, so the order must remember which bar it was signalled on; that bar
must be the last one seen; and appending a bar must not change what held on
earlier ones.  `IInv` adds `Sound` (the types and the shape of the state: one slot, an
order signalled on the last bar) and `AtRest` (what holds between two calls).
`evaluate` is a chain of stages - arrive, open the pending order, count the bar, take
an exit, flag the signal exit, signal - and the invariant is broken and restored
inside the chain.  So there are two lemmas per stage: `...Sound` (types survive the
stage; in `KernelStepsProofs`, because the paper tick calls the same stages) and
`...Keeps` (the books, `Kept`, survive it for a given current time), and the step lemma
composes them.  The proofs of `finalize` reuse the lemmas about
closing a position.

`XInv` relates the state to every bar since the fill.
That a position is left on the *first* bar that ends it follows from what holds of an
open one (`Survives`): it entered on the bar `bars_held` says, no bar since has touched
its stop or its take, and the exit condition was met on the last of them at most, in
which case the flag is up.  Within a bar this is weaker until the exits have been
looked for (`Held`), and each exit turns one of its conjuncts into the trade's.  The
tally of the orders counts decisions by kind (`CountAppend`): pending = filled +
diagnostics + the one in the slot, filled = exited + the one open.  The cooldown needs
that every exit is known by the index of the last one (`Cooled`), and the end of the
curve that a mark belongs to a position still open or lies before some settled trade
(`Marked`).

**The paper tick** (any strategy and window as above, any bars the market may print
and any schedule: `PaperAssumption`, and `NullAssumption`, that JSON's null is neither a
snapshot nor a hash; hashes of different snapshots differ, as in the model).  The
Provider evaluates a bar on a state that comes from a snapshot, with empty logs and a
window rebuilt from the market, and the Server appends the logs it gets back.  This is
the replay's step because no stage reads the logs it writes: `Follows` says that a
state with longer logs goes the same way, stage by stage up to `EvaluateFollows`.  The
codec is exact both ways on what the kernel produces (`SnapshotRestores`: milliseconds
on the wire, seconds in the kernel, the frames left out), and the window rebuilt is the
one the kernel would have kept (`RestoredFollows`).  What `PaperInv` carries is small:
the Server's hash is that of its snapshot, an accepted request asks for the first bar
if and only if it carries no state, and each reply answers an accepted request over a
market whose past does not change (`AnswersLast`).  A commit is then one
`EvaluateFrame` (`CommitEvaluates`), a bar before the window one too (`BarArrives`), and
the rest leaves the replay where it is.  From the refinement `TicksKeepTheBooks` takes
over the theorems of the kernel: next-open fills, first exits, the ledger, the margin,
the tally and the cooldown.  That every snapshot restores needs a hypothesis, because the
decoder refuses a level that is not positive and some rules produce one:
`LevelsArePositive` asks of the stop and the take, read on any bar and put at any
open, that they are positive unless they refuse the entry anyway.  It is the dividing
line - true of the strategy of `paper_run`, false of that of `paper_negative_take` - and
under it `LevelsInv` carries, beside `PaperInv`, that every state on the wire was taken
from a sound one whose pending order says what its signal bar said.

**The basket** (any legs, instrument rules, sizes, prices and gaps:
`BasketAssumption`).  Again a basket comes from a pending entry, so `Pending` says of
the entry what `FilledAfterSignal` will say of the basket: its signal is the last bar
of the grid, in the window, complete and readable.  A bar some leg lacks would break
that, and does not because it drops the entry (`SkipKeeps`); a warm-up bar cannot
meet an entry (`WarmupKeeps`).  An aligned bar turns a pending entry into a basket or
a refusal, and a held basket into the same one or a trade, so each signal is counted
once on either side of the tally (`AlignedKeeps`).

`RInv` is what the rules of a basket need beside: the aligned bars are in order and are
exactly the bars every leg has (`Laid`), so that a count of bars held and a distance in
aligned indexes mean what they say; the flags of a held basket tell of the last
aligned bar, and no earlier one breached (`Watched`); and a mark lies in the life of
the trade its basket became, or the basket is held still (`Marks`).  Sums over legs are
never computed: profit and loss stay opaque, and only that a breach is a function of
the basket and a bar is used.

**The cycle** (any side, prices on the tick, rules, lifetime, candles, bar length,
funding, quotas, day offset and intents: `SignalAssumption`, `CycleAssumption`).
`Timeline` says where the loop stands: which candles the unfinished strategy bar
holds, and by when the finished ones closed - in the phase "bar" one candle more has
been observed than the last bar knows, which is the order the stop depends on.
`Live` is the open signal: it waits with the initial stop and no stop state, or it
was filled on a candle that opened after its publication, and its stop state has seen
exactly the bars since (`HasSeen`): its extreme, its breakeven flag and its stop are
the tightest over those bars.  `HasSeen` is kept because rounding to the tick is
monotone (`Rounded`, from division) and leaves a price on the tick alone, so that the
tightest of rounded levels is the rounded level of the tightest.  `Ended` fixes what a
closed signal was at its close, and `InOrder` lines the closed ones up with the
publications.  The refinement needs of the same invariant that a candle which stops or
fills a signal does so by the stop in force, and a lemma for each step of the book.

`EntriesEarned` joins two summaries to the histories they stand for.  The counters
of the quotas are cardinalities of the entries of a day (`Counts`).  The account
(`Sums`) is harder: equity and peak are kept trade by trade, over a denominator that
grows with each, while `Exhausted` compares products over any stretch of trades.
Compounding from the first trade goes by way of any later one (`ByWayOf`), and every
equity is positive until a first one is lost, so that dividing by it turns "a fifth
below the peak" into "some stretch lost a fifth" (`FallFromThePeak`); the streak of
losses is the set of losses since the last winner, and any run of trades without a
winner lies in it (`StreakTells`).  The products are a recursive function, about
which the library's induction cannot be used; `AllUpTo`, an induction over a set of
numbers that follows from well-foundedness, takes its place, and `CompoundedIs`
proves by it that the function exists.

**The lot ledger** (any signals, prices, charges below the whole, capital, lot order,
window, limits and refusals: `LotAssumption`, `RunAssumption`).  Four assertions of the
code can stop a run, and none of them is inductive.  `Book` is: cash and the entry
costs of the lots still held add up to the capital and what was realised - the cost of
a lot being its price times its quantity and what is left of its charges - and the
quantities held are those bought and not sold (`Adds`); lots are held in the order of
their opens (`Queued`); and the lot sold last lies on the side of them the order sells
from (`Behind`).  From the first follow both ways to the equity at every
price, because the sum over lots is linear in the price (`TotalLinear`), and that cash is
never borrowed.  A portion keeps all three (`PortionSold`): what it takes from a lot's
charges is never more than is left, and nothing is left when the lot is
sold whole.  A sale is such portions one after another, a recursive function over
their number: `StepsExist` shows by `AllUpTo` that it exists, and `QtySold` that it sells what
was asked in as many portions as there are lots at most.  Sums over a sequence are
recursive functions too (`Sums`); `TotalAppend`, `TotalReplace` and `TotalRemove` say how
a sum follows a book that gains, changes or loses a lot.

`CurveOK` keeps the points behind the bar and says that the last point of a ledger
without lots is its cash.  `ClockOK` keeps the round's clock at the bar of its first fill,
and that when a round was due at the last close its lots are sold at this open.

`ServerRecomputesFees` says something of sold-out lots only, and is not inductive.
`FeesOK` adds, for every purchase, a witness (`Accounted`): a function that runs its entry
charge down the trades of the run, one share at a time (`RunsDown`).  While the lot is held
no trade of it is its last, and the lot keeps exactly what the function ends at; once it is
gone, the trade that sold it took the rest, the quantities of its trades add up to what
was bought, and, as lots open in time order, no later trade is of that lot.
`RunIsRecomputed` then shows that this function and the formula, a recursive function
over the same trades, agree at every trade.

**The grid** (any lines, at least five cells, either answer to a close below:
`GridAssumption`).  Since every step of it is one of the run (`GridStep`), the ledger's
invariant comes for free, and `MemoryOK` is kept beside it: the lines fall by one from lot to
lot, the reference is the line below the last, a pending buy is for that line, and
while the range is left the lots are gone or sold at this open (`ToClear`).  A fill
that fails changes neither the lots nor the lines; `FillOK` says of each
order when it fails.

**Fear & Greed and RSI** (any archives, days, thresholds, room for any number of lots:
`SeriesAssumption`).  `SeriesInvariant` adds to the ledger's that a run past its first
open was `Served`, and `CountsOK`: the lots counted are the lots held, and a pending buy
has room.  The count is kept apart from the ledger, so a fill that fails must leave both
alone and a sale must empty both: the template only ever sells everything.  The
day read needs that `Whole` leaves no gap: from the first day needed, and by `AllUpTo`
from each day to the next, every day up to the last is in the archive, so that the newest
one available is the one before the close's own.

**The DCA** (any amounts, percentages, periods and limits: `DcaAssumption`, which is, like
the last, the assumptions of the ledger and its run and the template's parameters).
The template keeps sums where the ledger keeps lots, and works out the quantity of a
fill for itself: `RoundOK` says that the sums are the lots' and that a pending buy is
for the amount remembered, from which both arrive at the same quantity.  `DipsOK` counts
from the bar of the round's first fill, which `Since` finds in the history, and needs that
a blocked dip is rolled back; `SalesOK` that all trades so far closed before now, so
that the opens of a later sale are new.

**The portfolio** (any pool, steps, minimums, costs, capital, prices and days, any
weights that sum to the whole at most: `PortfolioAssumption`, `TargetAssumption`).
`RunOK` holds of a run whoever decides.  Its centre is `Balanced`: the first n fills
replay to cash that is not negative and to the quantities held, for every n.  An order
appends one fill or one rejection (`OrderIs`), and a fill moves cash and lots by exactly
what the replay reads from it (`BalanceKeeps`); a snapshot replays from the fills up to its
day, and later fills, all of a later day, take nothing from it (`ReconciledStays`).
That a rebalance lands is the harder half, because the orders compete for cash.  Lots
are whole multiples of the step (`Whole`), so an order brings its own symbol within a
step of the target unless a minimum or the cash left refuses it (`Lands`), and no order
after it touches that symbol (`OthersStay`).  Between the first and the last order of a
rebalance a symbol is therefore in one of three conditions, as `Underway` counts them:
not yet asked for (`Before`), asked to sell (`HasSold`), or asked for twice and `Landed`.

**The rotations** (`RotationAssumption`; `DominanceParameters`).  Each is a portfolio
whose closes decide by a rule, and `CloseKeeps` asks of a decision only that it is a
table of weights or none, so that `RunOK` comes with it.  `RotationOK` adds that a blocked day is
decided as all cash at the close before it, that what such a day left unsold has its
refusal in the book, and that nothing moves on a day that is neither a Monday nor
blocked; `RiskOff` follows by `AllUpTo` from day to day.  `DominanceOK` adds what the closes have
read.  The archive's order of arrival is one of availability, not of dates, and
`Arrivals` is that order as a function from ranks: that it lists every point once
(`ArrivalsAre`) is the pigeonhole principle, an injection of a finite set into itself
being onto.  A decision reads the longest prefix that is available (`ReadableIs`), and
inserting points by date, one by one, keeps a list sorted and loses none (`InsertIs`,
`ReadAllIs`).  That exits follow entries rests on what coins are held for: unless the
run is about to fail its end check, whoever holds coins, or is about to buy them, decided
an entry last.

**The service** (any finite sets of requests and streams, any numbers of workers and
slots, any pace and deadlines: `ServiceAssumption`).  The slots are counted by the
legs that hold one, and `OneLegMoves` says how the count follows a leg.  Actions
that rewrite all legs of a job at once keep the count only because none of those legs
holds a slot: `Started` says that no leg exists before its job begins, and `Collect`
cancels queued legs only.  A success rests on `Whole`, which carries "every stream ok"
from the collection through the computation to the answer.  The pace needs mutual
exclusion under the lock and, of the leg under it, that it waits for exactly what is
left of the pace (`Locked`, with `grantAge + nextIn >= Pace`).  That nothing is asked
for an answered request follows from `Ended` (legs under way outlive a job only past
the fetch deadline) and `Dated` (the fetch deadline is no later than the request's).

**The cache** (any number of threads, keys and fetches, any limit, any files left
within it: `StoreAssumption`).  No thread knows what the directory holds: it evicts by
a listing that others may have outrun.  What keeps the limit is `Watched`: unless an
eviction was skipped or cut short (`owed`), the directory is within its limit, or a
thread has still to list it, or the listing of some thread covers every file.  A
thread that opens a file has still to list; the thread that lists sees everything;
and one that ends its eviction with such a listing leaves at most `MaxFiles` of them.
`HitsStayWhole` needs no history, since the rows of a hit are judged by the file that
was opened and not by the one that was examined before.

Only model-checked: liveness (out of the prover's reach), the overlay of the templates
with its signals, events and patterns, and what `MCDataPath` composes (candles, artifacts, masks, Freqtrade).  Where a
run checks several instances at once (`MCLedgerRuns`), its property is the conjunction
of those of the components, and the theorems are about the components.
No module declares a `RECURSIVE` operator: recursion is written with recursive
functions and folds, so that proofs can reach every component.

Liveness of a paper run (it reaches the end of its window if retried) is not
checked: together with the refinement the behaviour graph is too large.  The only
ways to stop short are a snapshot that does not restore, which `SnapshotsRestore`
covers, and the window limit.

## 6. Plan

Done, in this order: the kernel and its proofs; the paper tick; the cycle replay and
its book; the lot ledger and its templates; the portfolio ledger and its strategies;
the service and its proofs; the cache and the basket and their proofs; the proofs of
the exits, of the rules of the basket, of the cycle with its book, of the paper tick,
of the lot ledger and its templates, and of the portfolio and its two rotations; the
overlay over an external broker, the turtle, the indicator templates, events and
patterns; the data path from chunks to frames; masks; the Freqtrade provider.

What is left, most useful first: the market-base branch and the price tick of the
signal lifecycle; candle patterns and range boxes; report retention of the main
provider, as a second instance of the cache's pattern; the surprise variants of the
macro releases as cases of their own; an account (cash and lots) that `ScaleRun` and
`PortfolioRun` both implement; theorems about the overlay of the templates.

## 7. What is not modelled, and why

* Indicator formulas, metrics, the risk report: functions of arrays, with nothing that
  happens in an order; the fixtures of the test-suite are the right tool.
* Request validation, hashes, canonical JSON, catalogs, reports' HTML: formats.  What
  validation lets through is what the `ASSUME`s say.
* HTTP, retries inside one HTTP call, shell installers, the contract validator, the
  provider template: I/O without a state machine of their own.
* Metric templates (funding, open interest, flows): condition tables over external
  series, run by the overlay that `TemplateRun` models under any signal.
* Decimal precision: the model's arithmetic is exact where the code's is (fractions,
  wide decimal contexts) and the instances stay far below 32 bits.
