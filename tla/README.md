# botDCA in TLA+

A verification development for botDCA, a long-only DCA ("dollar-cost
averaging") bot that trades up to three Bybit USDT perpetuals from one account.
The modules here model what the bot does between two REST calls, between two
threads, between two requests and between two lives of the process, and what its
backtest and research code compute. TLC checks them on small instances, and TLAPS
proves the central invariants of seven of them for every instance.

All paths are relative to the repository; `live_service.py` without a directory
is `botdca/live_service.py`.

## 1. The system

One process runs a FastAPI service and, per enabled symbol, a worker thread and
a private-stream client. Everything a worker decides, it decides under one lock
shared by every symbol (`_make_runtimes` in `api.py`).

| Component | State it keeps | Operations | Hard because |
|---|---|---|---|
| Live sync (`live_service.py`, `strategy.py`, `order_plan.py`, `reconciliation.py`, `risk.py`) | strategy state, re-entry flag, current cycle, flat-since, entry grace period | `sync`: position read, reconcile, plan, protect, replace take profit and DCA; or re-enter when flat | up to ten REST calls, each of which the exchange may overtake, refuse, or answer too late |
| Exchange adapter (`bybit_exchange.py`) | none | idempotent placement by client identity, cancel, reads | an accepted order whose answer is lost |
| Execution journal (`persistence.py`) | execution rows | record, open-cycle summary, entry generation | missing, late, duplicated, reordered rows |
| Protection (`protection.py`) | none | classify resting exits | several exits, partial exits |
| Portfolio coordinator (`portfolio.py`) | reservations | evaluate, authorize, prune | what it counts against what the exchange holds |
| Live worker (`worker.py`) | thread, last error, last recovery time, stream alert flag | recover, sync, handle the exception, start, stop | its handler runs outside the lock and writes to the database |
| Recovery and stream (`execution_recovery.py`, `event_processor.py`, `bybit_stream.py`) | checkpoint, connection | page the execution history; ingest messages | windows, overlap, page bounds, late listings, reconnects |
| Deployment and lease (`live_runtime.py`, `database.py`) | advisory lock | start, stop, restart | stops that time out, a lost database session |
| Alerts (`alerts.py`) | deduplication keys, durable open alerts | dispatch, clear, acknowledge | keys and rows drift apart |
| Activation and configuration (`activation.py`, `strategy_slots.py`, `api.py`) | stored slots and their activation status, the copy in memory | save, advance, gate at start | read then write across requests, without a lock |
| Operator (`api.py`, `runtime.py`, `controller.py`) | manual-resume flag | Pause, Resume, Close position & pause | readiness is read before the lock; a close is several calls |
| Sizing and instrument rules (`sizing.py`, `instruments.py`, `order_plan.py`) | none | rounding, bounds, the first order, the resting plan | floats at step boundaries |
| Accounting (`accounting.py`) | none | folds of executions and the transaction log | rows that belong to nobody, or to both sources |
| Backtest engine (`backtest.py`) | cycle, fees, equity record | candle by candle replay | several thresholds in one segment |
| Research (`trader_export.py`, `historical_*.py`, `forecast.py`, `calibration.py`, ...) | none | grouping, matching, forecasting | tolerances that are not transitive, ties in a dynamic program |
| Credential vault | encrypted file | encrypt, decrypt | |

They interact as follows. The exchange fills orders whenever it likes. The
stream turns executions into journal rows; recovery does the same from the
execution history, before a sync, at least every 30 seconds and after every
reconnect. The sync compares the journal with the position, restores the
strategy from both, and sends or cancels orders, the entries and DCAs among them
inside `PortfolioCoordinator.authorize`. What goes wrong raises an alert. The
operator's requests arrive in HTTP threads: those that trade take the strategy
lock, those that change the configuration take none and instead demand that no
worker runs. A process starts workers only when the gate allows the stored
configuration and the database lease is free. A restart keeps only the exchange
and the database.

What makes each component correct is stated as properties in section 4; the
hazards those properties answer are listed, each at its line, in
`PROJECT.json`.

## 2. Modules

| Module | Models | Extends or instances |
|---|---|---|
| `ExecutionJournal` | the two journal queries and the deduplicating insert, as operators over a sequence of executions and the set of journaled positions | |
| `Protection` | `assess_protection`, `_matching_limit` | |
| `LiveService` | one symbol: the sync, the operator, the exchange, with the worker loop and the stream as its neighbours | both |
| `Portfolio` | the portfolio coordinator over several symbols, against what the exchange really holds | |
| `ExecutionLedger` | what recovery promises: a mark that never passes a missing execution | |
| `Recovery` | windows, overlap, pages, bounds and checkpoint of the recovery, and the lossy stream | `ExecutionLedger` as a refinement |
| `Alerts` | the dispatcher's memory and the alert table, as operators | |
| `Worker` | one worker's thread, stream, forced recovery, alerts, start, stop and lease | `Alerts` |
| `Activation` | the stored slots, the copy in memory, the two requests that change them, the gate and the start of the process | |
| `Instruments` | rounding to steps and ticks, order bounds, the first order's size | |
| `Ladder` | `TradingCycle`, triggers, targets, the margin guard, the resting order plan | `Instruments` |
| `Forecast` | the ladder walked from a price; scenarios of several symbols | `Ladder` |
| `Accounting` | both folds and the totals | |
| `Replay` | the backtest engine, next to the account it would have had | `Forecast`, `Accounting` |
| `TraderExport` | grouping of exported rows, cycles, regimes, the greedy comparison | |
| `History` | the anchored and continuous validation against a trader's history | `TraderExport` |
| `MC...` | instances for TLC, with values that a `.cfg` cannot write | the module of that name |
| `LiveServiceProofs`, `PortfolioProofs`, `RecoveryProofs`, `WorkerProofs`, `ActivationProofs`, `ReplayProofs`, `HistoryProofs` | theorems | the module of that name |
| `SumTheorems` | lemmas about sums over finite domains, least and greatest numbers | |

### LiveService: state and actions

An action is one REST call with the local computation up to the next one. All of
that computation runs under the strategy lock, so nothing else in the process
can observe a finer step; the exchange can, and it acts between any two actions.
Three places are finer because the code leaves the lock or assigns twice:
`HandlerDisablesReentry`/`HandlerPauses` (`worker.py:187-189`, no lock),
`EnableReentry`/`FinishResume` (`strategy.py:77-79`) and the manual close, which
is one action per call (`controller.py:56-103`).

| Variables | In the code |
|---|---|
| `orders`, `execs`, `pos`, `basis` | the exchange: orders by acceptance, executions by time, signed position, and the entry executions behind the average entry |
| `journal` | which executions the database holds |
| `strat`, `cycle` | `DcaStrategy.state`, `reentry_enabled`, `current_cycle` |
| `wpc`, `work` | the call the sync will make next and what it has decided from its snapshot |
| `opc`, `opWork` | the same for the operator's request |
| `flatSeen`, `entryPending` | `_flat_since` and `_entry_submitted_at` are set |
| `recovered`, `health` | recovery succeeded in this process; what readiness reads of the last sync |
| `resumeMark`, `budget` | observation of the last Resume; the bounds |

| Actions | Code |
|---|---|
| `ReadPosition`, `BlockEntry`, `SubmitEntry` | `_sync_locked`, `_sync_flat_position`, `_authorize` |
| `Reconcile` | `reconcile_strategy` and `restore_cycle` |
| `ReadOrders`, `RecheckPosition` | `_sync_open_position` up to the lost-protection check, with `build_resting_order_plan` |
| `PlaceTp`, `RereadAfterRejection`, `CancelStaleTp` | the take-profit half |
| `CancelStaleDca`, `PlaceDca`, `BlockDca` | the DCA half |
| `ExhaustIdentities`, `CallRaises`, `AnswerLost` | what goes wrong in `_place_idempotent` and any other call |
| `HandlerDisablesReentry`, `HandlerPauses`, `Recover` | `LiveWorker._run`, `run_once` |
| `Pause`, `CheckResume`, `EnableReentry`, `FinishResume` | `api.py`, `BotRuntime`, `DcaStrategy` |
| `StartClose`, `CloseCancels`, `CloseReadsPosition`, `CloseSubmits`, `CloseRereads`, `CloseRaises` | `TradingController` |
| `StreamDelivers` | `ExchangeEventProcessor` |
| `FillBuy`, `FillSell`, `ManualTrade`, `ExternalCancel`, `Crash` | outside the code |

Abstractions. A limit price is a function of the average entry and the ladder
step, so an order carries the set of entry executions (`basis`) and the step it
was priced from, and two prices are equal exactly when those are. A client
identity is the tuple that is hashed. Time appears only as "the delay, or the
grace period, may be over". Readiness for Resume is reduced to the last sync's
outcome; the code refuses in more cases, so the model resumes more often.
Refusals that depend on balances are choices (`BlockEntry`, `BlockDca`) or the
constant `RefusedLevels`. Quantities are integers: the `1e-9` tolerances of the
code separate equal from unequal quantities and so do integers. `Recover` journals
any set of the missing executions at once; `Recovery` has its windows and pages,
and `Worker` decides when it runs. Executions have different times: the order
`open_cycle_execution_summary` gives to rows of one millisecond, by execution
identity, is not modelled.

Two things end in a state no sync leaves. The failure handler writes to the
database, and when that raises the thread is gone (`wpc = "dead"`) until the
process restarts. And `build_resting_order_plan` raises for a basket with an order
below the minimum notional: `IllegalQtys` are the quantities for which it does
(`PlanRaises`), and `ReadOrders` then fails on every sync of that basket.

What the exchange is assumed to do: it fills resting orders in any order and, if
`PartialFills`, in parts; it never fills a reduce-only order beyond the
position, cancels reduce-only orders when the position closes, and refuses a
reduce-only order when there is nothing to reduce (the code handles exactly that
refusal); it accepts a client identity once.

### Portfolio: state and actions

An action is one sync of one symbol, reduced to its effect on capital; all syncs
run under the lock all symbols share, so they do not interleave, and the order
of calls inside one is `LiveService`'s subject.

| Variables | In the code |
|---|---|
| `held`, `resting`, `unseen` | the exchange: positions, resting entry and DCA orders, and margin the reported balance does not show yet |
| `seen` | `LiveStrategyService.exposure()`, zero until the symbol is reconciled |
| `reserved` | `_reservations`, with "the TTL is over" as a flag |
| `basket`, `slips`, `budget` | which orders belong to a closed basket; what has escaped the coordinator; the bounds |

`SyncFlat`, `SyncEnter` and `SyncOpen` are the two halves of the sync,
`Authorize` is `PortfolioCoordinator.authorize` with its three outcomes (refused,
submitted, raised, the last with or without the order accepted), `Snapshot` the
operations API. An entry's client identity hashes its rounded quantity and the
generation the journal gives (`live_service.py:291`): `Quotes` are the identities
one basket's entries can have, so a sync can send a second entry while the first
rests, and `_reserve` then overwrites its reservation (`portfolio.py:394`). An
entry is a market order: `Paid` lets it fill below or up to `Slippage` above the
margin reserved at the last price. `slips` names eight circumstances: an expired
reservation (`expiry`), an accepted submission that raised (`lost`), a partial
fill (`partial`), an order that outlives its basket (`orphan`), a second order
that takes the reservation of one still resting (`second`), the same before the
balance shows the first (`blind`), an entry filled above its reservation
(`price`), and a restart.

The equity of the account is constant: what closed baskets earn or lose is not
modelled.

Assumed of the exchange: resting entry orders lock their margin, and the balance
shows an order at the latest when it fills, when its reservation's 60 seconds are
over, or when a process has restarted.

### Recovery and ExecutionLedger: state and actions

Times are integers in one unit. The exchange stamps executions with its `clock`
and lists them in its history within `Lag`; the bot computes its window with a
clock that is `Skew` ahead.

| Variables | In the code |
|---|---|
| `clock`, `time`, `listed` | the exchange: its clock, when each execution happened, which the history shows |
| `journal` | execution rows |
| `checkpoint` | `end_ms` of the latest `EXECUTION_RECOVERY` event |
| `recovery` | the call under way: window, pages read, rows served |
| `failures`, `origin` | the bound; where the first complete window started |

| Actions | Code |
|---|---|
| `Begin` | `ExecutionRecovery.__call__` up to the first page; it raises after too long a gap (`GapExceeded`) |
| `Page`, `BoundExceeded` | one page and its rows; more pages than a recovery reads |
| `Checkpoint` | the event written after the last page |
| `Raise` | a request, a row, the cursor or the database fails; or the process dies |
| `StreamDelivers` | `handle_execution_message` and the deduplicating insert; a lost message is this step not taken |
| `Tick`, `Execute`, `Appear` | the exchange |

`ExecutionLedger` has no windows, pages or checkpoints: executions happen beyond a
mark, get recorded, and the mark advances only over complete history. `Recovery`
implements it with `mark <- checkpoint - Overlap`: executions of the last
`Overlap` of a window need not be in it, because the next one starts there.
`Lag + Skew <= Overlap` is what the 60 seconds of overlap assume of the exchange.

### Worker and Alerts: state and actions

| Variables | In the code |
|---|---|
| `keys`, `open` | `AlertDispatcher._last_emitted`; critical rows neither resolved nor acknowledged |
| `main`, `lease` | where the lifespan of the API is; who holds the advisory lock |
| `pc` | where the thread is in `run_once` and its handler |
| `websocket`, `failed` | the private stream; `failed_messages` ahead of `_seen_stream_failures` |
| `alerted`, `lastRecovery`, `forced` | `_stream_alerted`, `_last_recovery_at`, `reconnected or missed_messages` |
| `error`, `cycle` | `last_error`, `strategy.current_cycle` |
| `basket`, `opened`, `protected` | the exchange |
| `silent`, `stale`, `sessionLost`, `gap`, `skipped`, `orphan`, `lossSeen` | observations: why a condition has no row, what may have been missed, what excuses it |

| Actions | Code |
|---|---|
| `Wake`, `ReadConnected`, `FindDisconnected`, `FindConnected`, `Restart`, `RecordReconnect`, `CheckMessages`, `RunRecovery`, `Journal` | `LiveWorker.run_once`, one action per call that may fail |
| `Sync`, `Protect` | the sync, as far as it raises and clears alerts |
| `Handle`, `Report` | the exception handler, whose last write may raise too |
| `AcquireLease`, `StartWorker`, `AskStop`, `Stopped`, `Exit` | `LiveWorkerDeployment`, `LiveWorker.start` and `stop`, shutdown and crash |
| `Dispatch`, `Clear`, `Acknowledge`, `Forget`, `Expire` | `alerts.py` |
| `Rival`, `LoseSession`, `Drop`, `Return`, `MessageFails`, `OpenBasket`, `CloseBasket`, `LoseTakeProfit`, `Age`, `AlertsChange` | another process, the database, the connection, the exchange, the operator, time |

`run_once` reads `stream.connected` twice, once for what forces the recovery
(`ReadConnected`) and once for what restarts the stream (`FindDisconnected`), and the
connection may change between the two. Of the two ways protection is reported lost,
one fails the sync (the take profit cannot be placed) and one does not
(`live_service.py:435`, an ambiguous or partial exit); `Protect` has both. A thread
that does not end in time keeps the lease; `stop` raises and the process
ends all the same (`Exit`). Time passes only between two runs: a run is short
against 30 seconds and against a cooldown. All cooldowns end at once, since each
property is about one condition.

### Activation: state and actions

The two handlers are synchronous functions which the server runs in a pool of
threads, without a lock. Each is one action per read or write of what another
request, a worker or the exchange can change.

| Variables | In the code |
|---|---|
| `rows` | the `strategy_slots` table |
| `phase`, `env` | where the lifespan is; its settings |
| `slots`, `runtimes`, `store` | `app.state.strategy_slots`, `strategy_runtimes`, `strategy_slot_store` |
| `workers`, `started`, `baskets` | live threads, deployed symbols, runtimes with an open cycle |
| `exchange` | position and order of each symbol |
| `requests` | each handler: its candidates, the rows its session loaded, the symbols it checked |
| `history`, `budget` | what was saved last and how far approved, with the doubts a race leaves; the bounds |

| Actions | Code |
|---|---|
| `Start`, `StartWithoutRows`, `Deploy`, `Down`, `WorkerEnds` | `lifespan`, `_make_runtimes`, the gate, the deployment loop |
| `BeginSave`, `ReadPositions`, `ReadOrders` | `store_strategy_slots` up to the database |
| `BeginAdvance` | `advance_activation` |
| `SelectRows`, `UpdateRows`, `Publish`, `Refused` | `StrategySlotStore.replace`, whose UPDATE writes only the columns that differ from what its session loaded; the assignment of the copy in memory |
| `WorkerOrders`, `WorkerSyncs`, `Fills`, `Closes`, `Cleared` | workers, exchange and operator |

Three doubts are recorded when they arise, and named by the properties: a request
was overtaken by another one's commit or publication, a commit wrote over rows
another request had changed (`torn`), or the process served the defaults because
the rows could not be read.

### Ladder, Instruments, Forecast, Accounting, Replay

`Ladder` is the pure arithmetic shared by the live service, the backtest and the
forecast. Prices are whole ticks; quantities are units, `Lot` of which make a step
of the exchange, and only orders are rounded to steps: the take profit and the DCA
of the plan (`TpQty`, `DcaQty`) down, by `_increments` with its allowance for noise.
The ladder's ratios are in `Whole`-ths, so the repository's own (1.05 % and 1.339,
`domain.py:33`) is an instance, with `Whole = 10000`. A restored basket has the
average entry of the exchange, to a `Lot`-th of a tick and rounded either way
(`AverageFill`). A threshold between two ticks is taken as the order plan rounds it,
where the engine (`backtest.py:263`, 284) and the margin guard (`risk.py:85`) compute
with the threshold itself. A margin is counted as the notional it pays for, because
the leverage is one constant of a strategy version. The drift of a float is a number
of `Grain`-ths of a step. `LiveBasket` is the basket of the live service: entered in
whole steps, planned from its restored cycle, and grown by the planned DCAs.

`Replay` is the engine: `NextCandle` (funding, or the entry, or a skipped
candle), then `TakeProfit`, `AddDca` and `EndSegment` along the candle's path in
the configured order, until the path is used up. `start` is where the segment in
hand began: whether it rises or falls is the code's `end > start`, whatever has
been filled since. Its book keeps the engine's
figures; beside them it records every mark (`marks`), the executions an account
trading like this would have (`rows`) and the transaction log, so that
`Accounting` can be run over them. `Stranger` adds executions and log rows that
are not the strategy's; they come last, which makes no difference to sums.

### TraderExport and History

`ReadRow` reads the export in any order; `Parse` groups the rows into closed
cycles and regimes or rejects the file; `Anchored` evaluates one cycle from its
own opening, `Continuous` one regime without interruption, against every sequence
of closes a replay of that window may have. The dynamic program
`_ordered_close_matches` is written as the recurrence it computes, with its ties.

## 3. Runs and bounds

| Run | Instance | Question |
|---|---|---|
| `live_core` | partial fills, 4 executions, 1 fault, 1 restart, DCA of twice the entry, nothing by hand | the safety of orders, entries and journal |
| `live_baskets` | 3 executions, trial mode, two DCA levels of which one is refused, 1 fault, 1 restart, 1 intervention by hand (a close, a trade or a cancellation) | two baskets in a row, one of them perhaps a human's, and entries around a manual close |
| `live_liveness` | fair, partial fills, 3 executions, 1 fault, 1 restart, an entry of 2 of which 1 left over has no legal plan | an open basket gets protected |
| `paused_flat`, `deep_guard`, `activation_race` | smallest instance with the behaviour | what the documents promise and the code does not do (section 5) |
| `portfolio` | fair; 2 symbols, 1 DCA level of twice the entry, leverages 1 and 2, one symbol's entries with 2 identities, the other's filling 1 unit above its reservation; 1 failing submission, 1 restart, 1 event from outside (close, cancel, second identity, dear fill) | what the coordinator counts and what its limits bound |
| `activation` | 2 slots, 2 symbols, 4 submissions of which 2 must be refused, 3 environments, 2 request threads, 3 requests, 2 starts, 1 outage | what is stored, approved and run |
| `recovery` | fair; 3 executions, a window of 3, overlap 2, lag 1, clock 1 ahead, pages of 1 row, at most 2 of them, 1 failure | the refinement, and that every execution arrives |
| `worker` | fair; 1 basket, 2 failing calls or writes, 2 events | leases, alerts and forced recovery |
| `replay` | 8 candles, 3 time slots, 4 configurations, 2 accounts, a ladder of 3 steps (multipliers 1.4, 1.5, 2.0) with 2 live, 5 units to a step | the engine against accounting and forecast, and the live basket against the forecast |
| `history` | exports of up to 3 of 9 rows, replays of up to 2 closes | grouping, regimes and matching |

Live runs: three executions are an entry, a DCA and an exit, one basket with every
order replaced once, or two entries with an exit between them. Four add a second
entry or a partial fill on either side. The one intervention by hand is a
trade, a cancellation or a manual close with trades by hand beside it, which is how its
market order can find nothing left to close. One fault is enough for each single failed
or unanswered call to happen at every point; two faults only repeat the handler.
One restart happens at every point of every sync. `Attempts` stands for the ten
identities of `_place_idempotent`; with two of them the exhausted case is reached.
Quantities one and two with multiplier one and two make every partial fill one
unit.

Recovery: the window is small so that every length of gap occurs, up to one that
no longer fits; with pages of one row and two pages, three executions exceed the
bound; the lag and the skew together just fit the overlap.

Worker: two failures are what it takes for an alert to lose both its row and its
flag, or for the handler to fail after a call has; two events start the worker
and then break it once, restart it, or lose a take profit. One basket has all
three answers to "whose key is it": none, this one's, a closed one's.

Activation: the two threads may be any two of save and advance, and three requests
let a save follow both. One start serves the table, the other what the requests
made of it, or the defaults when the database is out. The request threads are
symmetric and nothing chooses between them.

Replay: the candles rise, fall, turn and gap, and from an entry at 100 the
thresholds of the ladder fall between and onto their points; three candles close
one basket and begin the next, and reach the deepest live level. With 5 units to a step
and multipliers of 1.4 and 1.5, a DCA is a fraction of a step before it is floored, and
an average entry a fraction of a tick; the order bounds refuse some of the plans and
the poorer account some of the DCAs. `MaxRows` is one execution or row of somebody
else's.

History: three rows make groups that are chains of tolerances, exact duplicates
and separate positions, and two regimes.

`CHECK_DEADLOCK FALSE` everywhere: once the bounds are used up nothing need
happen; the liveness properties say what must. Distinct states: `live_baskets`
2,550,641, `live_core` 1,139,416, `activation` 953,832, `worker` 779,195, `history`
636,376, `recovery` 495,732, `portfolio` 271,926, `live_liveness` 267,747, `replay`
43,365.

### Fairness

`LiveService.FairSpec` assumes what `LiveWorker._run` gives: while it lives the thread
loops, a call returns or raises (`WF` on the calls of a sync and on the handler,
which may return or end the thread), the strategy lock is granted again and again
although operators also take it (`SF` on `ReadPosition`), and an operator's request
that holds the lock ends (`WF`). Recovery is forced at the latest after 30 seconds
and in the end finds every execution (`SF` on `RecoverAll`, the recoveries that find
all): that is `EveryExecutionJournaled` of `Recovery`, with the exceptions it names.
Fills, stream messages, operators, humans and crashes are owed nothing, and nobody
restarts a dead worker.

`Portfolio.FairSpec`: the workers' syncs, the balance and the expiry of
reservations go on; entries, fills and closes need not.

`Recovery.FairSpec`: the worker calls the recovery again and again, as `Worker`
shows it does, a call that has begun goes on or raises, and the exchange lists
what has happened. The stream is owed nothing, so all of it may be lost.

`Worker.FairSpec`: the thread goes on until it is stopped, and 30 seconds pass
between two runs again and again. Starts, stops, cooldowns and the connection are
owed nothing.

## 4. Properties

Live service.

* `AtMostOneDca`: two DCA orders never rest together, although the stale one is
  cancelled and the new one placed by different calls, either of which may fail.
* `AtMostTwoExits`: the take profit is replaced place-first, so two may rest;
  a third never does.
* `TakeProfitFirst`: a sync goes past its take-profit step only behind one
  resting order for the whole position at the current target.
* `EntryOnlyWhenResumed`: no entry unless the operator's last word was Resume.
* `SingleEntry`: of the entries behind one basket none is of a later generation,
  and no two live ones share an identity.
* `JournalMirrorsExchange`: a complete journal tells the exchange's basket.
* `OneCyclePerResume`: trial mode starts one basket per Resume: once an entry of
  this Resume has filled and an exit has begun, no further entry is sent.
* `OpenBasketProtected` (liveness): an open basket is again and again covered,
  or in a state that no sync repairs (`HeldForHuman`): a human traded the symbol, the
  worker is dead, several exits rest, the take profit's identities are used up, the
  plan raises, or the journal's level is beyond the ladder. TLC finds the property
  false without the second, third or fifth of these; the others are not reached
  within the bounds of this run.

Portfolio.

* `EveryOrderCounted`: unless one of the eight slips happened, the coordinator
  counts at least what each symbol commits, from submission to close.
* `WithinLimits`: then margin and notional of all symbols stay within the limits.
* `ReserveKept`: what is committed never spends the reserve floor, through
  lagging balances, restarts and forgotten reservations; only an accepted
  submission that raises, an entry filled above its price, or a second order sent
  before the balance shows the first can break it.
* `NoPhantomBlocks` (liveness): a reservation without an order blocks a DCA only
  until it expires.

Recovery.

* `KeepsLedger` (refinement): a checkpoint never moves past an execution that is
  not journaled, whatever the windows, pages, failures and late listings.
* `EveryExecutionJournaled` (liveness): every execution is journaled in the end,
  unless the gap has outgrown the window or the rows the page bound, where the
  code raises until a human looks.

Worker, alerts and lease.

* `OneWorker`: no other process gets the lease while this worker's thread lives,
  unless the database session that holds it broke.
* `SyncAfterRecovery`: a sync does not start over a gap the worker has noticed,
  but for two cases the property names, each within 30 seconds of a recovery: a
  failure between reconnect and recovery, and a drop between the two reads of the
  connection.
* `GapRecovered` (liveness): what the stream missed is recovered, whatever fails,
  as long as the thread lives.
* `LossShown`, `FailureShown`: protection that was lost and not repaired, and a
  failed worker, have an open critical alert, whatever was raised, cleared or
  restarted before; the exceptions are the reasons in `silent`.
* `AlertsResolved` (liveness): an alert does not outlive its condition, but for a
  disconnect alert whose flag was lost.

Activation.

* `StoredAsSubmitted`: what the table holds is one submitted configuration,
  column by column, unless a commit tore rows another request had changed.
* `VettedStatus`: without doubts, no stored slot has a status its parameters have
  not been taken to, step by step, since they were saved.
* `RunningApproved`: workers run only what the gate allowed, and exactly the
  symbols it allowed.
* `SaveKeepsBaskets`: a save drops a symbol only when the exchange holds nothing
  for it; the property names the window between its two reads.

Backtest, accounting, forecast and live plan.

* `LedgerAgrees`: what the engine books is what accounting finds in the executions
  of an account that trades like it, whatever else that account does.
* `NothingLost`: every cash flow is in exactly one bucket.
* `NothingLeftBehind`: no threshold stays behind the price without a fill, but for
  those a candle opened beyond.
* `EquityMeasured`: peak, drawdown, time under water and excursions, kept in
  passing, are those of the whole record of marks.
* `ForecastBounds`: the forecast is what the engine deploys, the worst case bounds
  every scenario that is no deeper, and the stress is what the engine would lose.
* `LiveWithinForecast`: the live basket, whose DCAs are floored to steps, whose next
  order grows from the floored one and whose average entry the exchange rounds, never
  holds more than the forecast of the same entry, and costs less than a tick a unit
  more, at every level and whatever the drift of the floats.
* `EveryBasketCovered`: the take profit of a live basket is legal and for all of it at
  every level, if the market takes the whole forecast ladder as one order; a plan
  is refused only over its DCA. The entry bought by margin is the one bought by quantity.
* `ReentryWaits`: a cycle begins only behind a closed one and its delay.

Research.

* `GroupsArePositions`: the groups of an export do not depend on the order of its
  rows, and are exactly the rows within both tolerances of each other.
* `MatchesOptimal`: the dynamic program finds the best ordered matching, compared
  with all of them.
* `PairsOfTheirCycles`: the pairs of all regimes, shifted into common lists, name
  the cycles they were found for, and the counts and verdicts follow.

Each property of a passing run has a mutant in `PROJECT.json`: a plausible slip
in one definition, under which TLC finds the property violated.

## 5. Where code and documents disagree

With a run that shows it:

* A DCA limit order survives the close of its basket (`_sync_flat_position`
  cancels nothing) and can open the next one while the strategy is paused
  (`paused_flat`, README "Pause semantics").
* The deep-basket guard ignores DCAs of other symbols that are authorised and
  resting, so more baskets than tolerated may become deep (`deep_guard`).
* An advance reads the configuration in memory and writes the rows back; a save
  that commits in between keeps its parameters and gets the status the old ones
  were advanced to (`activation_race`, README line 194: "any edit to the traded
  parameters returns it to `DRAFT`"). No property of `activation` assumes that
  this does not happen: they say what holds when no request was overtaken.

Met while modelling, and visible in the models, without a run of their own:

* Two reduce-only exits rest after a sync whose cancel failed, until the next sync
  holds them as ambiguous (README line 161, `protection.py:9`); `AtMostTwoExits`
  is the bound that is kept.
* `LiveWorker._run` pauses without the lock: between the two assignments of
  `DcaStrategy.resume` it leaves `IDLE` with re-entry disabled, and the next
  sync enters (README line 523).
* A position that closes between the two position reads of one sync is reported
  as a worker failure (`reconciliation.py:30`).
* Reconciliation compares net quantities only, so two missing fills that offset
  each other restore a DCA level the basket does not have (`reconciliation.py:49`).
* A DCA order rests longer than its reservation: after 60 seconds the margin guard
  no longer sees it and the total may exceed `BOT_MAX_TOTAL_BOT_MARGIN_USDT`
  (README line 137, `portfolio.py:248`); this is the `expiry` of `WithinLimits`.
* The floating-loss guard (`portfolio.py:357`) never refuses, because no exposure
  carries an unrealized result (`live_service.py:135` leaves the default 0.0).
* The entry identity hashes the rounded quantity (`live_service.py:291`) and the
  generation the journal gives (`persistence.py:334`): a price move, or an older
  exit that reaches the journal between two syncs which both see a flat position,
  gives two identities, and two entries may stand behind one basket, of which the
  coordinator counts only the second (`second` in `Portfolio`). `SingleEntry`
  says what is excluded nevertheless. The leftover DCA of
  `paused_flat` can also fill into the next basket, which then holds one order
  more than its ladder.
* A successful run clears `WORKER_CRASHED` without the basket it was raised for
  (`worker.py:132`), so its key stays: a second failure in the same basket within
  the cooldown has no open alert (`alerts.py:206`). This is the reason
  "suppressed" of `FailureShown`.
* When the reconnect event cannot be written, or the recovery behind it fails, the
  next run finds the stream up and may sync before the missed executions are
  recovered, for up to 30 seconds. The same holds when the stream drops between the
  two reads of `stream.connected` (`worker.py:71-72`): the restart then forces no
  recovery. README line 527 says "execution history recovery precedes
  reconciliation on startup and reconnect". These are the exceptions of
  `SyncAfterRecovery`.
* `_stream_alerted` is set after a write that may fail and does not survive a
  restart: the disconnect alert it stands for then stays open until somebody
  acknowledges it (`worker.py:86`).
* An execution that recovery has stored carries `realized_pnl` 0, and the row the
  stream delivers later, with the result in it, is dropped as a duplicate.
* The engine does not fill a threshold that a candle opened beyond until the price
  comes back and crosses it again, while the live `should_take_profit` and
  `should_dca` compare with `>=` and `<=` and fire at once. With the initial entry
  as reference, the default ladder's step 8 (5.11 %) lies above its step 7
  (5.53 %), and the engine waits for the price to return to it.
* Candles the engine skips during a re-entry delay do not count in
  `ongoing_underwater_seconds`.
* The forecast takes every drop from the weighted average, so it underestimates a
  ladder whose triggers follow the initial entry; `ForecastBounds` excludes it.
* Accounting drops log rows of types it does not know and funding of symbols that
  are not configured; `NothingLost` excludes both.
* `floor_qty` applies the largest market order to the take profit of the whole
  position: a basket that has grown beyond it has no plan at all, and the sync
  raises. This is the precondition of `EveryBasketCovered`.
* A DCA below the minimum quantity or notional makes the whole plan raise
  (`order_plan.py:123-127`), on every sync and before the take profit is placed, so
  the basket stays without one. This is `PlanRaises` of `HeldForHuman` and the second
  case of `EveryBasketCovered`.
* A failure handler whose own event cannot be written ends the worker thread
  (`worker.py:197`); the basket at hand has then no one to protect it until a restart.

## 6. Proofs

Each theorem is proved for every value of the constants that satisfies the
module's named assumption, as Init, a lemma for the steps of `Next` with one step
per action, and a temporal step by `PTL`. TLC checked each strengthened invariant
first. Nothing is assumed but those assumptions, which say what the constants are
(and, for `Recovery`, that `Lag + Skew <= Overlap <= Week`; for `Activation`, that
the defaults are a valid configuration).

`LiveServiceProofs` (`LiveAssumption`).

* `TypeInvariant`: `Spec => []TypeOK`.
* `OneEntryLiability`: `Spec => []AtMostOneDca`. `AtMostOneDca` alone is not
  inductive: a sync about to place a DCA decided so from an older snapshot. The
  strengthening `OneDcaInv` says that whatever DCA rests is among those the sync
  still has to cancel or is the one it keeps, and that when the placement is
  next nothing rests. The environment never adds a DCA, so the snapshot only
  overestimates.
* `TwoExits`: `Spec => []AtMostTwoExits`, by `TwoExitsInv`: before the sync
  places a take profit at most one rests, because `Assess` holds when several
  do.
* `EntriesNeedResume`: `Spec => EntryOnlyWhenResumed`, by `ResumedInv`: the
  strategy is `IDLE`, or a sync is past the flat check, only while the
  observation variable records a Resume.

The second part of the module follows one basket from its entry to its close. Its
invariant `BasketInv` has seven parts: two requests never hold the lock
together and no order is sent while a Resume is applied (`LockOK`); a position has a
basis, and without one no exit rests (`PositionOK`); what a filled order, a basis and
a generation refer to has happened (`OrdersOK`); of two orders with one identity
one was cancelled (`IdentityOK`); while the cycle's average entry is the exchange's
the position has not outgrown it (`CycleOK`); a take profit at the current average
entry has filled only what the position has lost since (`ExitsOK`); and the sync
never calls stale the take profit it is about to send (`StaleOK`).

* `ProtectionFirst`: `Spec => TakeProfitFirst`. A sync leaves its take-profit step when
  the plan's order rests already, has just been placed, or is refused because an
  order with its identity is known. In the last two cases the order covers the
  position because it has filled only what the position has lost (`ExitsOK`), is
  complete when it is filled (`OrdersOK`), and is not one the plan cancels (`StaleOK`).
* `EntriesOfOneBasket`: `Spec => []SingleEntry`, by `EntryOK`: an entry is decided when
  no exit rests and no basket has been sold from, and carries the generation of a
  sale before every later basket.
* `OneBasketPerResume`: `Spec => []OneCyclePerResume`, by `TrialOK`: once an exit has
  filled, the cycle is still known, the strategy is paused, or the worker is about
  to pause it.
* `JournalOfLongs` and `JournalMirrors`: a complete journal gives the position and
  the entry executions behind the average entry. The query reads net quantities,
  a recursive function over the journal. `MirrorOK` says of every such function
  (and that there is one) what its last value and its open rows are; one more
  execution extends the function by one value, so no induction over the journal is
  needed. The first theorem assumes that the symbol is never short, the second
  that nobody has traded it by hand: a hand-made sale beyond the position opens a
  short, where the query, which looks for the last time the sum was zero or less,
  is wrong. The second has no other hypothesis, because every exit of the bot is
  reduce-only, which the proof shows.

`PortfolioProofs` (`PortfolioAssumption`), for any number of symbols.

* `PortfolioTyped`: `Spec => []TypeOK`.
* `OrdersCounted`: `Spec => []EveryOrderCounted`. The invariant `CountedOK` says
  for each symbol, as long as nothing slipped, that its one resting order is the
  next level's, reconciled and still reserved (`Covered`), or that nothing rests
  and what has filled is in the exposure or behind a reservation that has not
  landed in it (`CaughtUp`).
* `LimitsHold`: `Spec => []WithinLimits`. A guard compares sums over all symbols.
  What each symbol commits is at most what the coordinator projects for it
  (`OrdersCounted`), so the sums compare too, and the order added is the one in
  the projection. `SumTheorems` proves what this needs of sums over a finite
  domain (monotone, one summand replaced, scaled by the leverage). The library's
  induction rules take an operator and cannot be instantiated, so each sum lemma
  takes a minimal counterexample in the well-founded order of finite sets.
* `ReserveHolds`: `Spec => []ReserveKept`, although reservations expire and a
  restart forgets them. `UnseenOK` says that margin the balance does not show
  belongs to the order of a live reservation, and that any sync which could
  replace that reservation finds the order resting and sends nothing, or a second
  entry, which is `blind` (`Pending`). What the balance does not show is then
  always reserved, and the floor is compared with both. The three circumstances
  the property excludes are those in which the code can spend the floor: each was
  met as a counterexample first.

`RecoveryProofs` (`RecoveryAssumption`).

* `RecoveryTyped`: `Spec => []TypeOK`.
* `LedgerKept`: `Spec => KeepsLedger`, the refinement. `HistoryOK` says what is
  older than the lag is listed, `WindowOK` that a window starts no later than the
  last checkpoint less the overlap, `SweptOK` that behind its last page a recovery
  has journaled its window but for the overlap, and `CoveredOK` that from the
  first window to the mark nothing is missing. Initial states map to initial
  states of the ledger; a page and a stream message map to `Record`, a checkpoint
  to `Advance`, an execution to `Happen`, every other step to a stutter.

`WorkerProofs` (`WorkerAssumption`).

* `WorkerTyped`: `Spec => []TypeOK`.
* `OneWorkerHolds`: `Spec => []OneWorker`, by `LeaseOK`: the thread lives only in
  a process that is up, and such a process holds the lease or has lost the session.
* `SyncsAfterRecovery`: `Spec => SyncAfterRecovery`, by `GapOK`, which says for
  each place the thread may be at what will force the recovery before a sync, or
  which of the two exceptions (`skipped`) has happened.
* `LossIsShown`: `Spec => []LossShown`, by `LossOK`: the key that would suppress the
  alert about the basket at hand is taken only while that alert has an open row, or
  one of the reasons (`Explained`) why it has none. A key outlives its row only for
  baskets that have ended.
* `FailureIsShown`: `Spec => []FailureShown`, by `CrashOK`, the same for the alert of a
  failed worker, whose key may be stale: what a stale key suppresses is noted.

`ReplayProofs` (`ReplayAssumption` and those of the modules it extends: among them
that the noise a ratio is cleared of is less than a `Whole`-th of it), for any candles,
ladder, step, fee, funding and any other executions and log rows of the account.

* `ReplayTyped`: `Spec => [](Typed /\ SegmentOK)`, which also says where inside a
  candle the price may be.
* `NothingBehind`: `Spec => []NothingLeftBehind`, by `BehindOK`: a threshold the price is
  beyond is about to be filled, or is one of those the code does not come back to.
* `CyclesWait`: `Spec => ReentryWaits`, by `PaceOK`.
* `PositionCovered`: a position of whole steps, restored at an average entry rounded
  either way and with a drift of at most a `Grain`-th of a step, has in every plan that
  is not refused a take profit for the whole of it. The noise allowance covers the
  drift (`DriftRounded`) and restoring keeps the quantity (`RestoredSize`). It is a theorem
  about the operators, not about the engine's states; `EveryBasketCovered` says besides
  when plans are refused.
* `LedgersAgree`: `Spec => []LedgerAgrees`. The accounting folds the executions and the
  log; the engine keeps running sums. `LedgerOK` says that the bucket of the engine's
  symbol has of the executions what the book has (`Mirrors`), that the log charges it
  the funding the engine has paid, whatever accounting it starts from (`LogOK`), that
  the engine's fees are those of its fills (`FeesOK`), and that its results are the sums
  over its cycles (`ResultsOK`).
* `CashIsKept`: `Spec => []NothingLost`, by `FlowOK`: what the buckets are worth together
  is the sum of the cash flows of the executions (`RowsOK`) and of the log rows that
  are kept (`CashOK`, again from any accounting). One row changes one bucket, so the
  total changes by what that bucket does.
* `EquityIsMeasured`: `Spec => []EquityMeasured`, by `MeasureOK`: the book's figures are
  witnesses of the record's extremes (`PeakOK`, `ExtremesOK`, `ExcursionsOf`), it knows
  since when it is under water (`WaterOK`), it has one length for every end of such a
  time (`RecoveriesOK`), and the longest of these with the one it is in is the longest
  of the record (`LongestOK`). A step marks the equity once or twice, or not at all,
  and a mark extends the record by one element, so each extreme needs only the
  comparison the engine makes. `SettledOK` says that between candles the equity is
  the one last marked, which is what the report adds up to.

A fold from the left is a recursive function over the indices. The provers have
no induction over data, so that the function exists, and is the only one, is proved
by a minimal set of indices without one, in the well-founded order of finite sets
(`SumTheorems` does the same for sums). After that a step appends one element and
the fold changes by one application.

`HistoryProofs` (`TraderExportAssumption`, `HistoryAssumption`), for any export of
rows that close no earlier than they open, any tolerances and windows, and any
replays of the cycles.

* `OrderedMatchesBest`: for sequences of any length, the result of
  `_ordered_close_matches` is a matching in order of the most pairs and, among those,
  of the least total error. `Sound` says this of one cell of the table; a cell follows
  from the three before it, because a matching of two prefixes either leaves out one of
  the two last elements or has the pair of them (`CellAgrees`, `TableExists` show
  that there is such a table). When both sequences rise, as they do in a validation,
  not even a matching that ignores the order has more pairs: two pairs that cross can
  be exchanged for the last pair and one of the prefixes without leaving the window
  (`SwapNear`, `MostCrossed`).
* `GreedyIsMatching`: what the greedy comparison counts is the size of such a matching,
  which need not be in order.
* `MatchesAreOptimal`: `Spec => []MatchesOptimal`, from both by `Evaluated`: every
  regime is evaluated on cycles and closes in the order of their times.
* `PairsAreOfTheirCycles`: `Spec => []PairsOfTheirCycles`, by `Totals`: the pairs
  shifted by the cycles of earlier regimes are still pairs in order (`Paired`,
  `PairedConcat`), and counting them regime by regime or all together is the same
  (`CountsSum`). The verdict on the targets looks at a median, which is within its
  bound only if half of the pairs are (`MedianHalf`).
* `GroupsAreThePositions`: `Spec => []GroupsArePositions`. While rows are placed, the
  components are positions that can be told apart (`Settled`), unless the grouping was
  found ambiguous (`PlaceSettles`). Two rows exchanged in the export are sorted to the
  same closes (`InOrderMoved`, by counting what comes before each), and placing rows of
  the same closes in the same order makes the same decisions (`Alike`).

`ActivationProofs` (`ActivationAssumption`, `DefaultsAssumption`), for any slots,
symbols, submissions, threads and bounds.

* `ActivationTyped`: `Spec => []TypeOK`.
* `StoresSubmitted`: `Spec => []StoredAsSubmitted`, by `GoodOK`: without a torn
  commit the table, the copy in memory and every candidate are configurations
  somebody submitted.
* `StatusVetted`: `Spec => []VettedStatus`. While nothing is in doubt, what the
  process serves is what is stored except between a commit and its publication
  (`ServedOK`); a request nobody has overtaken still sees what it started from
  (`UnseenOK`, `AdvanceOK`), so its step is one step of the lifecycle.
* `RunsApproved`: `Spec => []RunningApproved`, by `RunningOK`: while workers live
  no request is under way, and what they run came through the gate.
* `SavesKeepBaskets`: `Spec => SaveKeepsBaskets`, by `CheckedOK`: the symbols a
  save has checked stay clear, because no worker runs to send an order, unless
  one filled between its two reads.

Only model-checked:

* all liveness properties, which are out of TLAPS's reach;
* `EveryBasketCovered` (the notional of an order), `LiveWithinForecast` and
  `ForecastBounds` (the rounding of the ladder): they say of the ladder of the instance
  that it is deep enough and coarse enough, and are false for some constants the code
  accepts.

## 7. Not modelled, and what is left

* HTTP, HTML and JSON formatting, the parsing of environment variables and the
  version hashes: data without state.
* The credential vault: cryptography and file I/O.
* Order, position, event and accounting rows of `persistence.py`, and the reads of
  `api.py` that only show them: no decision is taken from them.
* Readiness looks at the newest 200 alert rows (`persistence.py:199`). The table is
  taken to be shorter: the bound is one query's constant.
* The instrument metadata read from the exchange (`instruments.py` from line 62),
  and conversions in `sizing.py` that no traded path calls.
* Calibration, entry identification, the experiments, the second-level audit,
  historical risk and the candle download: searches and tables over floats that
  keep no state between calls. Two things about them were noticed in passing: the
  first-fit grouping of `group_baskets` (`greensynergy_profile.py`) depends on the
  order of the file, and a candle download with an unaligned start would miss a candle per chunk.
* The composition of `LiveService` with `Portfolio` and `Worker` in one state
  space: each takes from the others only what it names (a refusal, the set of
  recovered executions, what a sync does to alerts), and the product is out of
  TLC's reach.

Next in order of importance: an abstract basket life cycle that `LiveService`
implements, with the refinement proved.
