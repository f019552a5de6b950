# A TLA+ verification of KR-agent-test

This directory specifies and verifies the trading agent of this repository: what its
handlers do to the broker's orders, to the account's money and to the files they keep, in
every order in which jobs, fills, restarts and failures can meet. `PROJECT.json` lists
components, runs, mutants, findings, hazards and theorems and maps each definition to its
lines.

    tlc -workers 2 -config de_main.cfg MCDecisionEngine.tla
    tlapm NewsDaemonProofs.tla

## 1. The system

| Component | State it keeps | Operations | Talks to |
|---|---|---|---|
| `agent.py` | scheduler jobs | `start_scheduled`: `run_once` at 0, 6, 12, 18 UTC, `background_check` every 5 min | engine, ETF monitor |
| `decision_engine.py` | `agent_state.json`: `last_run_id`, `pending_buys`, `tp_sl_pairs`, `entry_dates` | `run_cycle`, `background_check`, cash management, portfolio sync | TDash, broker |
| `etf_monitor.py` | bars, `_position`, cooldowns in memory; `etf_position` in the same file | a tick every 10 s: entry, exit, sync | broker, the file |
| `kr_broker.py` | none (HTTP) | orders, conditional orders, account, prices | KR broker |
| `tdash_connector.py` | none (files) | newest run, signals, holdings, `update_cash` | TDash's data directory |
| `mcda_engine.py`, indicators | none | scores | engine, monitor |
| `llm_execution_agent.py`, `scheduler.py` | a decision log; a thread | not reached from `agent.py` | - |
| `news_quant/` | SQLite: ledger, costs, news; counters in memory | a daemon: poll, score, gate, execute one cycle at a time | EDGAR, RSS, Anthropic, Alpaca or KR |
| `simulate_etf_monitor.py`, `news_quant/backtest_8k.py`, `analysis/` | none that is live | offline backtests | recorded prices |

How they interact: `run_cycle` reads the newest TDash run and the state file, fetches the
account, cancels orphaned legs, sends orders, and at its end writes the state back whole.
`background_check` does the same for limit orders that rest, and starts `run_cycle` itself
when a new run appeared. Both jobs belong to one scheduler that keeps a job from
overlapping itself but not the other. The monitor's thread trades two ETFs beside them,
sharing with the engine the broker account (the engine sells its ETF to raise cash) and
the state file (without a common lock).

What is hard: two jobs and a thread that read, change and rewrite one file; decisions taken
on an account fetched earlier; orders that fill at any later time; a save that truncates
the file first; crashes between an order and the save that records it; a publication
between two reads of "the newest run"; cooldowns held in memory; calls that fail after
they took effect; a news trade that keeps the one thread busy while events grow old.
`PROJECT.json` lists these as hazards, each at its line.

What makes each component correct:

- **engine**: a run is executed at most once, exits are never dropped, the run on record
  never goes back, what is bought stays within what was asked, the pairs on record are the
  live legs of their ticker, every pending order is resolved, every run is picked up.
- **monitor**: flat before the close, no purchase in a cooldown, no second purchase beside
  a position it has, the file never says anything else than memory, a liquidation is noticed.
- **cash**: the account is not overdrawn by runs that fit the budget it was reported with,
  no more is liquidated than a shortfall needs, idle cash is invested, the caps hold and the
  best signals are taken.
- **news daemon and executor**: an event is traded at most once and not lost without a
  reason; one trade at a time, and no shares that nobody looks after; no entry after a
  drawdown or over the budget; ledger and broker agree; the daily cap holds.
- **ETF simulator**: the same promises about sessions, cooldowns and red days as the monitor,
  over the bars a data provider delivers.

## 2. Modules

| Module | Models |
|---|---|
| `DecisionEngine` | `run_cycle`, `background_check`, the broker's orders and legs, TDash's runs, crashes |
| `CashCycle` | the money of `run_cycle`: selection, liquidation, execution, investment, the portfolio file |
| `ETFMonitor` | the monitor's tick, cooldowns, file, stop and start; the engine's sales and saves beside it |
| `ETFSimulator` | `run_simulation` bar by bar |
| `NewsExecutor` | `Executor.execute` with Alpaca (or the dry run) and the ledger |
| `NewsDaemon` | the daemon's loop, pollers, store, gate and counters around `NewsExecutor` (which it extends) |
| `TradeExposure` | what the news trader promises about positions, without saying how; `NewsDaemon` implements it |
| `MC...` | constants for TLC |
| `...Proofs` | theorems about the module they are named after |
| `DecisionEngineRunsProofs`, `NewsLossProofs` | more theorems about `DecisionEngine`, of runs and stamps, and about `NewsDaemon`, of lost events; each extends the module's first proofs |

Definitions named `..._Mutant` are plausible bugs in the definition that follows. They are
used to see that each property can fail, by replacing that definition's body.

In every module but the simulator `faults` is fixed in the initial state: the set of faults
a behaviour may have, one of `FaultSets`. One run covers several sets, and a property that
needs a fault to be absent says so in its own statement.

### DecisionEngine

Two processes, `"main"` (`run_once`) and `"bg"` (`background_check`), each with a program
counter, a copy of the state dict (`st`), the run and signals it read and the plans it has
left. A handler is cut where somebody else can get in between: a load, an account fetch,
each order, the two halves of a save (`torn` is the truncated file).

| Code | Actions |
|---|---|
| `run_cycle` | `CycleLoad` (state, run, idempotency), `CycleSignals` (`get_portfolio` reads the newest run again for its signals), `CycleGivesUp`, `CycleSelect` (selection, reconciliation, plans), `Execute...`, `SaveBegin`, `SaveEnd`, `SaveFails` |
| `_execute_one`, `_place_and_store_tp_sl` | `ExecuteSell`, `ExecuteMarketBuy`, `ExecuteLimitBuy`, `ExecuteFails`; `PlaceLegs`, `KnownIds` (a leg whose call raised may be placed and is not known), `Stored` |
| `background_check` | `BgTrigger`, the cycle it calls, `BgStamp` (the guard), `BgLoad`, `BgAccount`, `BgAccountFails`, `BgConfirmFill`, `BgEscalate`, `BgEscalationFails`, `BgKeepWaiting`, `BgReconcile`, `BgSave...` |
| the broker, TDash, time, the process (external) | `LimitFills`, `LegFires`, `Publish`, `HourPasses`, `Crash` |

`FaultKinds`: `"overlap"` (both jobs at once), `"midpublish"` (a run appears while a job is
active), `"broker"` (a call fails without effect), `"late"` (an order, an escalation's
or a leg's included, that raised has reached the broker; the code keeps an escalation's
entry and escalates it again), `"disk"` (the file cannot be opened for writing), `"crash"`.

Abstracted: prices are choices (market or limit, how many legs are accepted); an order of
the engine fills at once, fails, or takes effect although it failed; a run has one signal per
ticker. Money is the subject of `CashCycle`.

### CashCycle

One job and no races, but dollars. `Selection` is `_select_signals`: a set of places in the run
that takes exactly what its caps allow after what it took before, by composite and then by
place (`Before`). That equation has one solution (`SelectionIsOne`), which is what the loop over
the ranked signals comes to; sums of money are the community module's folds over functions.
`Plans` is `_signal_to_plan`; then `Raise`, `Liquidate` (QQQ, then SPY), `Execute`,
`Invest`, `Sync` are the steps of `run_cycle`, each with the branches the code has. `Publish`
lets TDash publish any of `RunSets` that fits the portfolio file it was last given. Faults:
limit orders, a slow broker, legs that fire, calls that fail. A position is what it is worth.
The sync of the portfolio file is that of `run_cycle`; those of `background_check` and of a
cycle outside market hours are left out.

### ETFMonitor

One thread cut at each broker call, and a clock in quarters of an hour: `slot` counts from
the opening, the units from `Open` on are closed. Cooldowns are counted down. `Tock` lets a
unit pass once a tick completed in it. A save opens the file, which empties it (`Opens`, the
file is then `Torn`), and writes it in a later step (`Dumps`), so that a crash can leave a file
that cannot be read; no later save of the monitor opens such a file (`NotOpened`).
`ProcessStops` loses everything in memory, `ProcessStarts` restores from the file as
`_restore_position` does, and `ClearingFails` is the start that cannot clear a stale entry.
`Liquidate` is the engine's sale, `EngineLoads` and `EngineSaves` its use of the file.

`"broker"` lets calls fail in a tick; `"cold"` is a start at which the broker or the price
history cannot be read. They are two kinds because a position is kept through the one and
forgotten in the other, and properties can then say which they survive.

Abstracted: prices and indicators, whose verdicts (signal, price under the stop) are
choices; an entry buys `Lot` shares.

### NewsExecutor, NewsDaemon and TradeExposure

`execute` is cut at every broker call: `Guard`, `Size`, `Place`, `WaitEnds`, `Cancel`,
`RecordEntry`, `HoldEnds`, `Close`, `RecordExit`, `RecordEquity`, and `Raises` at any of them.
Between two steps `Market` moves: an order fills in part or whole, the bracket fires, the
session ends. The ledger is `entered`, `exited`, the latest equity row `recorded`, the largest
`peak`, and the sticky `halted`.

| Code | Actions of `NewsDaemon` |
|---|---|
| `Daemon.run` | `PollBegins`, `FeedEnds`, `Abort` (the `except` around a poll), `Ends`/`Down`, `Restart` |
| `EdgarLivePoller.poll_bulk`, `RssLivePoller.poll_once`, `store.upsert` | `Entries`, `Take` (the generators store an entry and yield it) |
| `Daemon.handle_event`, `signal_gate.evaluate`, `score_filing` | `Drop`, `Score`, `Gate`, `Trade` (a step of `execute`), `Return` |
| `request_stop`, `crawl_once` | `RequestStop`, `Crawl` |
| time (external) | `Tick`, `Ages` (an event leaves the lookback while the daemon is held up) |

Faults: `"blind"` (the account cannot be fetched: the gate and the equity row go on, the
sizing raises), `"late"` (fills, positions and
cancellations lag), `"close"`, `"raise"`, `"llm"` (a score that cannot be had, or is paid for and cannot be used), `"crawler"`, `"dayend"`, `"stop"` (stops,
kills and restarts). A clock in half days and `shift` give the local date and the UTC date.

`TradeExposure` gives each ticker one of four words: flat, ordered, watched, unwatched. At most
one ticker is ordered or watched, and only a mishap (`careless`) leads to unwatched from
there. `NewsDaemon` defines `Exposure` from the executor's place, the broker's shares and its
working orders; `OneTradeInHand` is the abstract specification under that mapping, `TradeEnds`
its fairness. Only the faults of `Careless` are counted as mishaps: a broker that cannot be
asked for the account, a scorer or a crawler are not among them.

Abstracted: prices, sizes, what a filing says and what the score of it is; KR Broker's live
orders for news (Alpaca and the dry run are modelled).

### ETFSimulator

One action per way a bar is dealt with (`StaysOut`, `Enters`, `Keeps`, `FlipExit`,
`ForcedExit`, `SignalExit`), and `Missing` for a bar that is not there. Days are UTC dates, so
that their slot 0 is the evening before in New York and Friday's evening is Saturday; sessions
begin an hour later in winter; the regime of a date is a choice. `stopSales` and `sound` are
history variables: the sales at a stop of the last day, and whether a bar of the session is
missing. Abstracted: money, which ETF is held, the indicators (a signal from -1 to 2), the
price (steps from the entry price).

## 3. What the runs check

| Run | Instance | Shows |
|---|---|---|
| `de_main` | 2 tickers, 2 runs, new, added, trimmed and sold, 0 or 2 legs; `"broker"` with `"late"`, or `"midpublish"` | `AtMostOnce`, `ExposureBound` (held plus on order is at most twice what was asked, if what failed did nothing), `EscalationsStop` (three times, if it may have been executed), `ExitsNotSkipped`, `FreshLegsKept` (legs just placed survive the reconciliation of the same check) |
| `de_faults` | 2 tickers, 2 runs, entries, 1 leg; `"broker"`, `"late"`, `"disk"`, `"crash"` | `NoForeignCancel`: a recorded leg id, however stale the record, never names another ticker's leg; `StampNeverRegresses` |
| `de_live` | 1 ticker, 2 runs; `"midpublish"`, `"broker"`, fairness | `PendingResolved`, `RunPickedUp` |
| `etf_monitor` | 1 ETF, a session of 12 units; three sets of faults up to all of them, fairness | `NoOvernight`, `Recorded` (between ticks the file holds the position, or a crash made it unreadable), `CooldownKept`, `NoRebuy`, `LiquidationNoticed`, `TypeOK` (no order sells more than is held) |
| `cash` | 4 stocks, 6 runs of which 3 are published, 3 accounts; no fault or one of four, fairness | `NoOverdraft`, `LiquidationFits`, `CapKept` (a step: accounts may begin above the cap), `BestSelected`, `CashInvested` |
| `news_days` | 3 events, 2 tickers, 2 days, both date shifts; crawler, scorer | `CyclesPerDay`, `LossBounded`, `LedgerSettled` (entries and exits of the quantities the broker bought, nothing left held), `BudgetStops` |
| `news_faults` | 2 events, 1 ticker; six sets of the other faults, fairness | `EventOnce`, `DrawdownStops`, `OneTradeInHand` and `TradeEnds` (the refinement of `TradeExposure`), `NewsTaken` |
| `sim` | 5 days with a weekend, 3 regimes, both seasons, half hours | `FlatOvernight`, `RedDayLeft`, `CooldownKept`, `BreakerKept` |

One run per module also checks its `TypeOK`. Four runs refute what the repository says of
itself (section 5): `de_overlap`, `de_double_order`, `etf_cooldown`, `cash_proceeds`.

**Bounds.** Two runs are the least in which a stamp can go back, a second buy can replace a
record, a pending order can meet a new signal. Two tickers are needed for a leg of another
ticker and for the position cap, which is 1 so that it is reached. `MaxExecs` and `MaxLegs`
never stop anything in `de_main` and `de_live`. In `de_faults` they do (1 execution of a run,
3 legs): crashes make executions unbounded, and one execution of each of two runs, with one
crash or more at any point, is what is checked there; `RecordsSound` needs no bound. Ticker
symmetry is used in safety runs only.

For the monitor the times are those of `config.yaml` in quarters of an hour rounded up, but
for the session (12 units instead of 26) and the no-entry window (4 instead of 6): entry
windows, both cooldowns, two stop-losses and the close still fit. The night is 2 units, as
long as the shorter cooldown, which is what `CooldownHeld` assumes (section 4): the circuit
breaker blocks until midnight only. `Lot = 3` lets the engine
sell less and more than half. `MaxHeld` bounds what late fills can pile up; under the faults
that `NoRebuy` is about it is never reached. With both ETFs (symmetry, safety only, a
session of 16 units) the run has 6.9 million states and no error; it is not kept because
it takes five minutes.

`cash` has the thresholds of `config.yaml` and caps of 3 positions and 1 new name, so that a
SELL makes room, two new names compete and a purchase needs both ETFs. Three runs let the
money of the first be spent by the second and be missing in the third.

`news_days` lasts two half days after the first, so that a poll can run past midnight, with
a cap of one cycle a day, so that the factor of two in `CyclesPerDay` is reached, and two
tickers, so that the gate closes for one and not for the other. `news_faults` has an order of
two shares (partial fills), an account that loses exactly the limit, and a third event would
only repeat what two do; two mishaps let a restart be followed by another. The two runs are
not one since the product of dates, events and faults does not fit: `NewsDaemonProofs` has all
and `NewsLossProofs` have all of these properties but liveness for any size.

`sim` uses slots of half an hour: a session of 13, five slots outside it, a minimum hold of 2,
a no-entry window of 3. A Thursday to a Monday has every change of date there is: within the
week, Friday's evening, the weekend.

**Fairness.** `DecisionEngine`: a job that began goes on (weak fairness of its steps: every
call has a timeout and every exception is caught); `background_check` is started every five
minutes whatever `run_once` does, and the account and the market order answer if asked for
ever (strong fairness, since each may fail for a while). `ETFMonitor`: the loop swallows all
exceptions and ticks on; a stopped process is started again; the prices answer again and
again, so that the bars fill up; the sync is due once a minute, so it cannot miss its turn
for ever. `CashCycle`: cycle follows cycle, a slow order is filled in the end, and the
purchase of an ETF does not fail every time. `NewsDaemon`: its one thread goes on (the waits
of `wait_for_fill` and of the hold have deadlines, `run` swallows exceptions), and a poll
does not come back short of what is in the feed for ever; a daemon that went down need not be
started again, so `NewsTaken` leaves `"stop"` out. Nothing is assumed of the market: fills,
legs, sales by the engine may never happen.

## 4. What is proved

For any set of tickers, any signals, any bounds (`DecisionEngineProofs`, no assumption but
the constants' types):

- `TypeCorrect`: `TypeOK` is an invariant, under every fault. One lemma per group of actions.
- `RecordsSound`: `NoForeignCancel` under every fault, overlap and crashes included. The
  property is its own inductive invariant given `TypeOK`: every dict in the system, in the
  file, in a job's copy, or written over a newer one, holds ids handed out earlier
  (`i < next`), ids are handed out once, and a dict only changes by forgetting pairs
  (`ForgettingKeepsRecords`) or by recording ids just handed out for that very ticker
  (`PlacingKeepsRecords`). A stale dict is therefore harmless here, which is why the theorem
  needs no mutual exclusion.
- `ExposureLimited`: `ExposureBound` when jobs do not overlap, the process does not die, the
  file can be written and calls that fail have done nothing at the broker, whichever fail and
  whenever runs are published.
  The property is not inductive: an escalation orders again the quantity noted as pending,
  so the invariant (`ExposureInv`) must say that what is held, on order *and pending* is
  within twice what was asked, for whichever dict is the current one: a job's copy while
  it works, the file otherwise; and that only one job works (`CycleControl`, `BgControl`).
- `EscalationsEnd`: `EscalationsStop` under every fault. An escalation that raised after the
  broker executed it keeps its entry and is repeated, which is where a bound of twice fails.
  It is repeated only while the check's snapshot has less than 90% of the entry's quantity.
  The invariant, `StopInv`, says that no entry of any dict, and no resting order, is of more
  than was asked for, and that a ticker still to be looked at has no more held and on order
  than the snapshot has plus what was asked for: one more escalation makes that three times.

For any ETFs, times and sets of faults (`ETFMonitorProofs`). `Types` and `Phases` are the
common base: `Phases` ties the place in the tick to the position, the snapshot and the
clock (an entry in progress found no position and passed the clock's gates; an exit in
progress has a snapshot that is the position).

- `MonitorTypes`: `TypeOK`. That `held` stays a natural number needs the snapshot's ETF
  (`Phases`) and the check of the broker.
- `CooldownHeld`: `CooldownKept` under every fault, if the night is at least as long as the
  shorter cooldown (in `config.yaml` and the code 30 minutes against 17.5 hours and more). The
  invariant, `CooldownInv`, is that the block that is left and the time since the cooldown
  began add up to the shorter cooldown; an order on its way keeps the second alone.
- `FileRecords`: `Recorded`, from the stronger fact that holds also within a tick: unless
  it is being written the file is the position, or a crash left it unreadable. It is never wrong.
- `FlatOvernight`: `NoOvernight`, if entries end before positions are closed, by at least
  the minimum hold less one unit (`ClockFits`; the configured 90, 15 and 10 minutes fit).
  `DayInv` says that a position, in memory or in the file, was entered early enough to be
  old enough when the close comes (`Timely`), that no bars are missing, and that towards the
  end of a day without a mishap a completed tick leaves no position.
- `RebuysNot`: `NoRebuy`. `HoldInv` says that of every ETF of which half a lot or more is
  held, the monitor, or its file while it is down, knows; an exit in progress sells no less
  than is held, so that a sale of the engine between its steps does no harm.

For any events, tickers, caps, ledgers and faults (`NewsDaemonProofs`); `Phases` ties the
executor's place and the event in hand to what the daemon is doing, and `NewsTypes` is `TypeOK`:

- `NoEventTwice`: `EventOnce` under every fault. `OnceOnly` adds that what is not stored was
  not traded and that what is on the way to the gate is stored and was not traded: the store
  is written before the event is looked at.
- `DrawdownGuards`, `BudgetGuards`: the action properties `DrawdownStops` and `BudgetStops`.
  Between the guard and the entry nothing is recorded (`Cleared`); a cost is booked under a
  day that has come, so that midnight between the two does not matter (`InBudget`).
- `DaysBounded`: `CyclesPerDay`, without exceptions, stops and an account that cannot be read. `Counted` relates the counter, the trade in hand and the day's
  trades in two cases: the counter is still that of an earlier day, or it was begun anew on a
  day in which up to `MaxCycles` trades had been made on the old one.
- `LedgerAgrees`: `LedgerSettled`, in quantities. `LedgerSteps` says what the ledger and the
  order look like at each place of `execute`, and that an order that outlives its trade has
  bought something; `OnlyTrade`, below, that nothing is held of a trade that is over.
- `Implements`: `Spec => OneTradeInHand`, the refinement. Every step of executor, broker and
  daemon is mapped to a step of `TradeExposure` or to none (`ImplementsStep`). Where a mishap
  is possible the abstract specification allows the trade to be lost; where none is,
  `OnlyTrade` is needed: no other event has shares, legs or a working order, and the trade in
  hand is buying, covered by its legs, or gone, so that what the executor turns away from is
  flat. A dry run never has shares (`NothingSent`).

For any calendar, regimes and parameters (`ETFSimulatorProofs`):

- `ReplayTypes`, `RedDaysLeft`, `BreakerHolds`: `TypeOK`, `RedDayLeft` and `BreakerKept` without
  further assumptions. `BreakerInv` says that the stops of a date are counted since the last
  change of date, and that the last allowed one blocks through that date.
- `FlatAfterSession`: `FlatOvernight` if the no-entry window and the session are at least as
  long as the minimum hold (`FlatTimes`; 90 or 120, 390 and 10 minutes in every mode, whose
  minimum hold is 10, 2 or 1 bars of 1, 5 or 10 minutes). `FlatInv` bounds the age of a young position by the bars since the opening.
- `CooldownHolds`: `CooldownKept` if the cooldown is at most one slot longer than the time from
  midnight to 14:30 UTC (`CooldownFits`): the circuit breaker of a late stop ends then.
- `BreakevenNeverSells`: the breakeven floor near the close never sells anything. It is set by a
  price at or above the profit it needs and forgotten before the next price comes, so a price
  below it never meets it. The live monitor has the same lines (`etf_monitor.py:740-743`),
  although `config.yaml:51` describes a stop that moves to the entry price.

For any stocks, runs, accounts, limits and faults (`CashCycleProofs`). `SumFunctionOnSet` is
defined by a recursive function on the subsets of a set, so the module first proves what it
needs of sums: that the function exists, that any element can be split off (`SumRemove`), that
a sum depends only on what is summed (`SumSame`) and is bounded by that of a set it maps into one to
one (`SumInto`). The library's induction theorems take operators; these lemmas are by induction
stated of sets (`NumbersFrom0`, `SubsetsFromEmpty`).

- `CashTypes`: `TypeOK`. That no position becomes negative needs `AsRead`: an ETF that is not
  sold yet is worth what the cycle read, since no order of it is open when a cycle begins.
- `LiquidationSized`: `LiquidationFits`, whatever fails but the calls to the broker. `Fitting`
  follows the cash raised from the first ETF to the second.
- `NeverOverdrawn`: `NoOverdraft`. `Solvent` says that between cycles the file's budget is cash
  and ETFs (`Reported`) and the run keeps to it (`Modest`); that the BUYs of a cycle are covered
  by cash and ETFs until the ETFs are sold, and then by cash alone (`Covered`), which each plan
  leaves true of the plans after it. `LiquidationSized` is what takes the one to the other.
- `CapHolds`: `CapKept`. The cap is not kept step by step but promised: while a NEW name is left
  to buy, stocks held and NEW names left exceed the cap by no more than the positions still to be
  sold off (`Slots`). A selection starts with that (`CapSelect`: the last NEW name taken had
  room, and every SELL counted has a plan, since the run goes by the file and the file by the
  account), and as exits come first none is left to be sold off when a NEW name is bought.
- `SelectsBest`: `BestSelected`, and `SelectionIsOne`, from `Before` being a total order.

For any tickers and signals (`DecisionEngineRunsProofs`). Each job's step is first reduced to
what it does to copies, stamps and counters (`CycleMoves`, `BgMoves`, `EnvMoves`), and the
invariants are about these:

- `ExitsReached`: `ExitsNotSkipped`, with overlapping jobs, crashes and failed saves. `Reached`
  says that wherever the newest run appears as a stamp (the file, a copy, `background_check`'s
  peek once its cycle is over) and has an exit, it has been through an execution.
- `StampsGrow`: `StampNeverRegresses`, with crashes and failed saves. `Current`: while runs are
  published between jobs the run of a cycle is the newest; `Copied`: the file does not change
  under a background check that works alone; `NoOlder`: so the stamp it writes is not older.
- `ExecutedOnce`: `AtMostOnce`, when the state is saved. `Once` adds that an executed newest run
  is on record as soon as its cycle has saved, and that a torn file is being written.
- `LegsSurvive`: `FreshLegsKept`. An order that was resolved made the check fetch the account
  again, and the ids of a ticker that is gone are not those of one that is held (`RecordsSound`).

`NewsLossProofs` has `LossesPaid`, that is `LossBounded`: the property is not inductive, since a
stop that was requested loses an event of each poll that is still under way. `Paid` adds these
to the events lost already; together they are counted by the mishaps.

**Model-checked only:** liveness, out of the prover's reach: `PendingResolved`, `RunPickedUp`,
`LiquidationNoticed`, `TradeEnds`, `NewsTaken`, `CashInvested`. Every other property of a passing
run is a theorem.

## 5. Findings

Each is the counterexample of a run.

- `de_overlap`: `run_once` and `background_check` at the same time execute a run twice
  (`decision_engine.py:226`). Both fall on 18:00 UTC while the market is open.
- `de_double_order`: an escalated limit order is not cancelled and may fill as well
  (`decision_engine.py:793`).
- `etf_cooldown`: the sync of the tick that sold at a stop-loss replaces the 60-minute
  cooldown, or the day's circuit breaker, by 30 minutes (`etf_monitor.py:864`).
- `cash_proceeds`: SELL plans carry price 0, so ETFs are liquidated as if the run's sales
  brought nothing (`decision_engine.py:290`).

Further disagreements, to see with a change of a configuration, or of a property whose guard
names the fault it leaves out; TLC finds each within seconds:

| Property | Where | Change | What happens |
|---|---|---|---|
| `HardCap` (README.md:99, config.yaml:29) | `de_double_order` | `Tickers = {t1, t2}` | limit buys that rest are not counted and fill later |
| `LegsRecorded` (kr_broker.py:335) | `de_double_order` | signals that add with a bracket | a second buy overwrites the record of the first pair |
| `OneCancelsOther` (decision_engine.py:15) | `de_double_order` | `LiveSpec`, `SignalSets <- Mixed` | the other leg stays while any share is held |
| `ExitsNotSkipped` (README.md:116) | `de_main` | without its first conjunct | a triggered cycle that could not fetch the account is put on record, its exits never executed (`decision_engine.py:739`) |
| `StampNeverRegresses` | `de_main` | without its premise | a run published between the peek and the cycle is executed, then the guard records the older one (`decision_engine.py:738`) |
| `FreshLegsKept` (decision_engine.py:814) | `de_main` | without its first conjunct | the second account fetch fails, the old snapshot cancels fresh legs |
| `FreshLegsKept` | `de_main` | its first conjunct about `"broker"` only, faults `"overlap"` | an overlapping cycle saves an order that the check has not loaded; it fills after the check's account snapshot, by which the check cancels the ticker's recorded leg |
| `NoRebuyAfterCrash` (etf_monitor.py:507) | `etf_cooldown` | `FaultSets = {{"crash"}}` | a crash between the answer to a BUY and the end of its save leaves no entry, or a file that cannot be read, and after the start the monitor buys again (`etf_monitor.py:684`) |
| `FillsRecorded` (ledger.py:3-4) | `news_faults` | `FaultSets = {{"late"}}` | an entry that fills when the wait has ended and before its cancellation arrives is in no row of the ledger (`executor.py:152`) |
| `NoRebuyBesideEngine` (etf_monitor.py:702) | `etf_cooldown` | faults `"restart"`, `"engine"` | a save of the engine drops the monitor's position from the file, and after a restart it buys again (`decision_engine.py:320`) |
| `FlipKnown` (simulate_etf_monitor.py:675) | `sim` | as a property | the replay leaves at the first bar of a day whose regime is computed from that day's close: it knows the close in advance |

Weaker than one would wish, and stated so in the properties: the news daemon trades twice the
daily cap around midnight and more after exceptions and restarts; `BudgetStops` holds only
where the local date is the UTC date; an entry that fills after its wait and cancellation, a
close that fails and a stop leave shares nobody watches (`Lose`, `Stray`).

## 6. What is not modelled, and the plan

Left out for good: indicators, scores and MCDA weights as floating-point numbers, text
processing, scraping and language-model calls (their results are inputs), logging, HTTP,
console commands; `scheduler.py` and `llm_execution_agent.py`, which `agent.py` never reaches;
`news_quant/backtest_8k.py`, `shadow_report.py` and `analysis/`, offline statistics over
recorded data without state or steps. In the simulator: money, the resampling of bars, the
download and the report.

Left for later, in this order:

1. One file, three writers: `agent_state.json` as read and written by the engine's two jobs and
   the monitor's thread together, with one atomic register per key as the abstract
   specification. `DecisionEngine` has the two jobs, `ETFMonitor` the engine's saves, no module
   has all three.
2. The quantity of legs after a TRIM, partial fills of the engine's orders.
3. KR Broker's live orders for the news executor.
