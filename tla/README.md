# FrogQuant in TLA+

A verification development for the trading engine under `src/cpp`: TLA+ modules translated from the
C++ source, TLC configurations that check them on small instances, and TLAPS proofs of the main safety
properties for every value of the parameters. File references are relative to `src/` of the repository.

- [1. The system](#1-the-system)
- [2. The modules and the code](#2-the-modules-and-the-code)
- [3. What the runs check](#3-what-the-runs-check)
- [4. Fairness](#4-fairness)
- [5. What is proved](#5-what-is-proved)
- [6. Where the code and its documents disagree](#6-where-the-code-and-its-documents-disagree)
- [7. What is not modelled](#7-what-is-not-modelled)
- [8. Plan](#8-plan)

## 1. The system

One process, `engine`, with five threads:

| thread | runs | started and stopped by |
|---|---|---|
| main | `main`, `run_until_stop` | the service manager; SIGINT, SIGTERM or `run_seconds` end it |
| WebSocket | `BinanceWsClient::run`, calling the tick handler | `MarketDataService::start` / `stop` |
| REST poll | the loop of `MarketDataService`, calling the same tick handler | `MarketDataService::start` / `stop` |
| control | `LocalHttpServer`, one connection at a time, calling the API router | `LocalHttpServer::start` / `stop` |
| log worker | `AsyncJsonlLogger::run` | `AsyncJsonlLogger::start` / `stop` |

A Qt client (`qt_client/`) polls and posts over the control API from one process of its own, with one
event loop; its four pages share one `ApiClient` and no data.

| component | state | operations | used by |
|---|---|---|---|
| TradingCore, OMS, RiskEngine (`cpp/src/core`) | order map, next number, last price, position, risk limits | `on_tick`, `submit_manual_order`, `cancel_order`, `update_risk_config` | tick handler (price only), order, cancel and risk handlers |
| Order handlers and cache (`cpp/src/app/control_api_router.cpp`) | `ctx.orders`, a window on the orders | POST order, POST cancel, GET orders | Qt client; calls TradingCore and the exchange |
| BinanceTestnetExecution | none | `place_order`, blocking, 5 s timeout; `cancel_order`, never called | order handler |
| LongGridStrategy | configuration, anchor, rebuild count, levels | `on_price_tick`, `on_buy_filled`, `on_sell_filled`, `update_config`, `snapshot` | tick handler and grid handlers, under `grid_mu` |
| Tick handler (`runtime_loop.cpp`) | counters of `/health` | price to TradingCore, then the grid if enabled, intents to the events list | both market threads |
| Events list, order cache | `events`, `orders`, under `state_mu` | `push_event`, the GET handlers | market threads, control thread |
| Saved state (`app_support.cpp`) | `runtime_state_path`: flag and three limits | `save_runtime_state`, `load_runtime_state` | risk and enable handlers; start |
| AsyncJsonlLogger | lock-free queue, `running_`, stream | `try_log`, `start`, `stop`, worker | TradingCore (every tick, order, cancel) |
| Thread lifecycle | three `running_` flags, `g_stop` | `start`, `stop`, loops, reconnect | main |
| `/health` | tick count, time of the last tick | one read | the timer that runs `deploy/healthcheck.sh`, client |
| Qt client pages (`qt_client/src`) | the strategy form, the dashboard's banner, the logs tables, the requests under way | timers, buttons, `responseReady` and `requestMetric` handlers | the user |
| configuration, bootstrap (`app_support.cpp`, `bootstrap.cpp`) | config file, environment, `AppConfig` | `load_config`, `env_*`, `bootstrap` | start |
| credentials | `credentials_path`, the keys in `exec_cfg` | POST `/credentials/update`, GET `/credentials/status` | start, client |
| JSON scanning | none | field extraction | handlers |

What is hard to test here, and what makes each part correct:

- **Order core.** The risk check adds to a position that nothing ever reduces, under limits that change
  between orders. Correct when every order is decided and explained, numbers are used once, accepted buys
  never exceed equity whatever the order of limits and orders, and the position is the ledger's.
- **Order path.** The decision, the cache and the exchange are updated one after another, the result of
  the call is ignored, and the process may die between any two. Correct when only accepted orders are
  sent, at most once, on their terms, and everything sent, as it is printed, is counted.
- **Strategy.** Fills arrive late, and a rebuild (drift or new configuration) replaces every level in
  between. Correct when levels say what is in the market.
- **Tick handler.** Two market threads and the control thread over two mutexes and an atomic flag read
  outside of them. Correct when the grid and the lists are never used by two at once, the events list
  tells the intents in order, and nobody waits for ever.
- **Saved state.** Truncate, then write, either may fail and the process may die; the limits exist twice
  in memory. Correct when limits are always in range, the copies agree, a restart invents nothing.
- **Logger.** Concurrent producers, batches, a stop with records queued. Correct when nothing is lost or
  reordered while the file can be written, and stop drains and returns in any case.
- **Lifecycle.** Flags cleared while threads wait for peers. Correct when main joins in the order the
  logger's guarantee needs, reconnects go on, and a signal ends the process.
- **Health.** Two threads store a time while a third reads the clock and then the store, on the only
  control thread, which another request may hold; the clock may be set. Correct when a 200 means a recent
  tick, every alarm has a cause, and lasting trouble is reported.
- **Start.** A hand-written parser, defaults, an environment over them, a credentials file that is
  truncated and then written. Correct when settings are those that file and environment name, live trading
  is never an accident of the format, and nothing mixes the keys of two accounts but an environment
  that has one of the two.
- **Qt client.** Requests have no timeout and no order among them; the engine may die between a request's
  effect and its reply; others change what is on the screen. Correct when the form never shows junk, a
  failed order is not sent again, and form and banner tell the truth in the end.

`PROJECT.json` lists each hazard at its line with the properties that would catch it.

## 2. The modules and the code

```
OrderGate  <== refined by ==  TradingCore  <-- extended by --  OrderApi  <--  OrderProofs

LongGrid  <-- extended by --  GridTrading     (grid and a market that fills)      <--  GridProofs
          <-- extended by --  TickEngine      (grid, threads, mutexes, events)    <--  GridProofs

ConfigFile  <-- extended by --  Startup  <--  ProcessProofs  -->  Lifecycle

RuntimeState  <--  RuntimeStateProofs          Health    <--  HealthProofs
AsyncLogger   <--  AsyncLoggerProofs           QtClient  <--  ClientProofs

FoldLemmas  <-- extended by --  OrderProofs, GridProofs, ProcessProofs, ClientProofs
```

Each `MCx` module gives the constants of `x` for TLC and contains nothing else. Constants are the code's
parameters or named bounds on what TLC explores; a comment beside each says which. Definitions headed
"Mutant" are plausible wrong versions of the definition after them. No specification uses them;
`PROJECT.json` pairs each with the property that fails when it takes that definition's place.

- **OrderGate** is the abstract promise of risk engine and OMS together: the next number, fixed terms,
  decided at once, cancelled only when accepted, accepted only within equity. It has no prices, no limits
  and no reasons.
- **TradingCore** has one action per public method, `submit_manual_order` split by its three reachable
  returns (its fourth, "duplicate order id", needs a number `seq_` has already given out). `orders` is
  `OMS::orders_`, `seq` is `seq_`, and so on, as the comments at VARIABLES say. One call is one action:
  all calls but `on_tick` run on the control thread, and a submission reads the only shared field,
  `last_price_`, once. Money is in whole units and ratios in percent, so `double` comparisons
  are exact; the two configuration sets are kept apart since a start does not validate what it reads
  and POST `/risk/config` does.
- **OrderApi** adds the order and cancel handlers: the reply pushed to the cache with its trim, then, as
  a separate step, the call to the exchange, whose request may arrive or not whatever the handler is told.
  `Fixed` is the rounding of `std::fixed` printing (six decimals of quantity, two of price). A limit price
  may be negative (`LimitPrices`), since the handler checks the quantity only: such an order is valued at
  the last tick, as one without a price is.
  `trim_batch` is fixed at the start to any of `TrimBatches`, which may exceed the cache's size: nothing
  in `main.cpp` ties the two. `Restart` is a crash at any point: memory is lost, `sent`, the exchange's
  side, is not.
- **LongGrid** is `LongGridStrategy` as pure operators, from the grid before a call to the grid after it
  and the intents returned. Prices are cents, ratios thousandths; `round2` is modelled as rounding.
- **GridTrading** drives LongGrid by ticks, fills and configurations. The repository does not execute
  intents, so the market (`working`, `held`) is external: it keeps each intent as an order, fills
  any at any time, and reports the fill by the level's id, the use the strategy document describes.
  `lateFills` is history: the number of fills, bought or sold, of orders older than the last rebuild.
- **TickEngine** takes the tick handler apart at each access to shared state (`pc` steps `check`,
  `lockGrid`, `useGrid`, `lockState`, `push`, `unlockGrid`), and the enable, `grid/config` and
  `grid/runtime` handlers with it. The mutexes are variables that hold their owner. What the handler does
  before, `TradingCore::on_tick` and the counters, is in TradingCore and Health.
- **RuntimeState** has the risk and enable handlers with their saves (open, which truncates; write, which
  may end after any field or inside the first), the ignored result, `Restart` at any step and the load:
  a limit missing from the file keeps its default, a flag cut short reads as false, and each of the three limits comes
  back with the six significant digits it was printed with (`Printed`). Ratios are in units of 10^-9, the limit
  of an order in whole dollars up to 10^9, the top of the client's form.
- **Health** has the store of `last_tick_ms` on both market threads (clock read, then store), the route's
  two reads, the control thread that may be busy with somebody else, a bind that fails, another process
  (`other`) that may have the port and then answers in the engine's place, the end of the
  process, a system clock that is set, and the timer with curl's timeout of 3 s. Moments are kept as ages,
  capped where no comparison can tell them apart, so that time is unbounded and the states are
  not. The unsigned subtraction is taken modulo `Wrap`. `since` is history, the true age of the latest tick.
- **ConfigFile** is the config parser and the overrides as functions of a list of lines: sections opened
  by any line without a value, keys with and without indentation, a later line over an earlier one, and
  one setting for each way of reading (boolean, number, text). The parser is a function of the lines read
  so far. `Word` is the reference: what a file in the
  form of `config/engine.yaml` says, read by a person.
- **Startup** adds the start (`bootstrap` and `main`'s refusal with code 2, tried again by
  `Restart=always`), the credentials handlers and the write in two steps, open with truncation and write,
  either of which may fail or be cut off. A key is the account it belongs to and whether it is whole.
- **AsyncLogger** has producers, worker and main. The vendored lock-free queue is external: a sequence
  with an atomic push and pop. `buffer` is what the stream holds between flushes. Any write may fail;
  nobody looks at the stream, which from then on ignores what it is given: the records go to `lost`.
- **Lifecycle** has main's sequence, the three loops with their phases (connect, read, handle, sleep,
  close), `running_` flags, `g_stop` and the deadline. Peers and clients are external: a wait for
  one may end well, fail, or never end.
- **QtClient** follows one page per behaviour: the timers of the dashboard, strategy and logs pages, the
  risk form, the order button, and `ApiClient`'s requests as a set (`asked`, then `answered`, a failed one
  with code 0) from which any may be served, refused or delivered next. The engine is reduced to what the
  pages see of it: the code of `/health`, the limits in force and the orders taken; it may die between
  an effect and its reply, and starts again with limits that have been in force. Ratios are in units of
  10^-8, the decimals the form allows. `Parsed` is the path of a number through Qt's JSON and
  `json_get_number`, `Shown` that of a ratio through the reply, which has six decimals, into the form.
  `/health` is answered with 200 or 503; Health has when. The launch has two outcomes since the strategy page
  calls `setValidator` through pointers it has not initialized yet.

## 3. What the runs check

Sizes are those TLC reports on two workers.

| run | module, cfg | checks | states |
|---|---|---|---|
| trading_core | MCTradingCore | `TypeOK`, `SettledOrders`, `NoLeverage`, `PositionLedger`, `OverLimitFreezes`, `ImplementsGate` | 85,770 |
| order_api | MCOrderApi | `GatedExchange`, `ExposureCovered`, `CacheWindow` | 881,760 |
| grid_trading | MCGridTrading | `LevelsMirrorMarket`, `EdgeNeverBought`, `ExitsMatchHoldings` | 143,294 |
| tick_engine | MCTickEngine | `EngineTypeOK`, `LateIntents`, `IntentsInOrder`, `HandlersFinish` | 90,199 |
| runtime_state | MCRuntimeState | `StateTypeOK`, `CopiesAgree`, `SavedStateCurrent`, `NothingInvented` | 27,764 |
| async_logger | MCAsyncLogger | `NothingLostOrReordered`, `AllWrittenAtExit`, `RecordsReachFile`, `StopReturns` | 44,522 |
| lifecycle | MCLifecycle | `JoinedInOrder`, `OneLateTick`, `FeedsGoOn`, `ShutdownReturns` | 6,448 |
| qt_client | MCQtClient | `ClientTypeOK`, `FormNeverJunk`, `OrdersConfirmed`, `FormConverges`, `BannerClears` | 159,488 |
| health | MCHealth | `HealthyMeansRecent`, `AlarmsExplained`, `TroubleReported` | 101,388 |
| startup | MCStartup | `ConfigHonoured`, `LiveOnlyIfNamed`, `KeysOfOneAccount`, `StatusForetellsStart` | 805,125 |
| order_limit, client_applied | MCOrderApi with MCOrderLimit.cfg, MCQtClient with MCClientApplied.cfg | one documented statement each, found violated (section 6) | |

Bounds, and why they are enough to show the interesting cases:

- *trading_core*: limit prices of 0, 1, 2 and -1; equity 10, notionals 2 and 4, three orders, start limits 3 at 80% and later ones of
  4 at 40% or 100%. An order can break the single-order limit, the position limit, or neither; two large
  buys put the position over a lowered limit; a stop ratio of 0 (a start does not refuse it) rejects
  everything. Three orders give one accepted, one refused or unpriced and one after a change of limits,
  in any order. The proofs of section 5 remove these bounds.
- *order_api*: notionals of 3 with equity 6, so a third buy is refused; a cache of two, so that the third
  order trims it; limit prices of 0 (none), of a tick and of -1; a quantity of 3 in units of 2, so that printing
  adds to it; one crash, after at most one
  order (`CrashBy`), which leaves two numbers to be used again. A batch of two trims to the newest order,
  one of three, above the cache's size, to nothing.
- *grid_trading*: grids of 2 (sanitized from 0), 3 and 4 levels around 100, the last with twice the
  quantity, prices inside the threshold, at the band's edges and beyond; three rebuilds and three working orders. So a level's order can outlive
  its grid, and every kind of late fill happens.
- *tick_engine*: both market threads at a price that buys a level of every grid, an events list of two
  entries, and two posted configurations, so that the list overflows with intents and client notes mixed and
  grids change under a tick that waits for the mutex. Ticks and requests go on for ever, so that
  starvation can show.
- *runtime_state*: three requests, two restarts; a full update, one with limits of seven and of nine digits,
  one of a single field, and one out of range. A second restart reads a file that a first, partial save left.
- *async_logger*: two producers of three records, batches of two: a batch fills up, ends early, or finds
  nothing, and a write fails at any record or flush. *lifecycle* is finite as it stands and
  starts with and without a `run_seconds`: with one every run ends, which would make reconnecting and
  polling hold for that reason alone.
- *health*: a threshold of 4, checks that wait for 3, pauses of 2 within a handler and clock changes of 1:
  every sum the comparisons can tell apart occurs, and `Wrap` is far above them, as 2^64 is. What the
  threshold is measured in does not matter; the time between two checks is not bounded.
- *startup*: all files of up to three lines out of headers, items and four kinds of line that are neither,
  files of two sections with one item each, and on two of the files every environment; one whole update
  before the start and one after, or two after it, cut off anywhere. A key can be repeated, split
  from its section, or swallowed by another.
- *qt_client*: two requests of each route under way, so that an old reply overtakes or follows a new one;
  three inputs (an edit, an apply and a change made elsewhere, in any order); tables of two rows, so that
  the third is trimmed; ratios of 0.00001 and 0.00002005, the first read as 1.0, the second read as 2.005 and
  refused, and rounded in a reply, beside the form's default of 0.8. What users do elsewhere is explored for the strategy page only: the
  other pages do not ask for it.

Deadlock is checked wherever the system cannot stop. It is switched off where the engine ends by itself (async_logger,
and lifecycle, when main is done) and where the bounds on requests and restarts end the
behaviour (runtime_state; qt_client, where the client may also have crashed).

No symmetry is used: market threads run different prices, and several of the runs check liveness.

## 4. Fairness

- A thread that can take a step takes it (weak fairness per thread): the operating system schedules all
  of them, and none spins at another's expense.
- In TickEngine the handlers are strongly fair: a thread that is again and again able to go on goes on.
  It matters only at the two mutexes: `std::mutex` promises no order, but the holders
  release it within a few instructions, and the market threads return to a network wait or a sleep
  between ticks; a thread that always finds the mutex taken again would have to be unlucky for ever.
- In Health time passes, the timer fires, and steps that were started go on. Accepting the check's
  connection is strongly fair, since the kernel queues connections in their order; a client that holds the
  control thread may do so for ever.
- Nothing is assumed of peers, clients, signals, ticks and requests: messages and requests need not come,
  a read may never return. `ShutdownReturns` states its premise, that the peers end each wait for them,
  in the formula. `StopReturns` states its own in the same way. A REST
  fetch does end, within curl's timeout of 3 s, and is part of the fair REST thread.
- With `run_seconds > 0` the deadline passes in the end.
- In QtClient the timers fire, a reply that has come is handled, and a request is answered or refused: the
  accept queue is served in order and no client stays silent there (Lifecycle has one that does). Nothing
  is assumed of users, ticks or the engine's starts; `FormConverges` and `BannerClears` are premised on
  an engine that stays up in the end, the second also on one that answers `/health` with 200: ticks alone do
  not ensure that.

## 5. What is proved

Every invariant and every action property of the runs is proved for all values of the constants that their
assumptions admit; only what must happen in the end is left to TLC. Eight modules hold the proofs, FoldLemmas
lemmas only; TLAPS checks each leaf with Z3 or Zenon and the temporal steps with LS4.

| module | theorem | statement |
|---|---|---|
| OrderProofs | `TypeCorrect` | `CoreSpec => []TypeOK` |
| | `SettledCorrect` | `CoreSpec => []SettledOrders` |
| | `LeverageCorrect` | `CoreSpec => []NoLeverage` |
| | `LedgerCorrect` | `CoreSpec => []PositionLedger` |
| | `FreezeCorrect` | `CoreSpec => OverLimitFreezes` |
| | `CoreImplementsGate` | `CoreSpec => ImplementsGate` |
| | `ExchangeGated` | `ApiSpec => []GatedExchange` |
| | `ExposureIsCovered` | `ApiSpec => []ExposureCovered` |
| | `CacheIsWindow` | `ApiSpec => []CacheWindow` |
| GridProofs | `EngineTypeCorrect` | `EngineSpec => []EngineTypeOK` |
| | `LateBounded` | `EngineSpec => []LateIntents` |
| | `IntentsListed` | `EngineSpec => []IntentsInOrder` |
| | `FirstGridMirrored` | `GridSpec => []LevelsMirrorMarket` |
| | `EdgeSpared` | `GridSpec => []EdgeNeverBought` |
| | `ExitsCovered` | `GridSpec => []ExitsMatchHoldings` |
| RuntimeStateProofs | `StateTypeCorrect` | `StateSpec => []StateTypeOK` |
| | `StateCopiesAgree` | `StateSpec => []CopiesAgree` |
| | `SavedIsCurrent` | `StateSpec => []SavedStateCurrent` |
| | `RestartsInventNothing` | `StateSpec => []NothingInvented` |
| AsyncLoggerProofs | `LogKeepsOrder` | `LogSpec => []NothingLostOrReordered` |
| | `LogCompleteAtExit` | `LogSpec => []AllWrittenAtExit` |
| ProcessProofs | `KeysMatch` | `StartSpec => []KeysOfOneAccount` |
| | `StatusTruthful` | `StartSpec => []StatusForetellsStart` |
| | `ConfigIsHonoured` | `StartSpec => []ConfigHonoured` |
| | `LiveIsNamed` | `StartSpec => []LiveOnlyIfNamed` |
| | `ThreadsJoined` | `LifeSpec => []JoinedInOrder` |
| | `LateTickOnce` | `LifeSpec => []OneLateTick` |
| HealthProofs | `HealthyIsRecent` | `HealthSpec => HealthyMeansRecent` |
| | `AlarmsHaveCauses` | `HealthSpec => AlarmsExplained` |
| ClientProofs | `ClientTypeCorrect` | `ClientSpec => []ClientTypeOK` |
| | `FormShowsNoJunk` | `ClientSpec => []FormNeverJunk` |
| | `OrdersTakenOnce` | `ClientSpec => []OrdersConfirmed` |

**Assumptions.** Those of TradingCore are natural numbers, positive quantities (the router refuses
others) and ticks, limit prices that are any integers, and risk limits with a ratio of at most 100. The last is what POST `/risk/config`
enforces; for a start it is an assumption on `config/engine.yaml`, which nothing validates. OrderApi adds
a positive cache size, batches and units (`main.cpp` raises the size to at least 100, the batch to at least 1).
TickEngine assumes finitely many market threads, none of which is the control thread or the
name of a free mutex, positive prices and an events list of at least one entry. GridTrading assumes nothing
of a start's configurations but that they are finitely many, so that there is a largest `order_qty`; those of
the API are in the range POST `/strategy/grid/config` accepts. RuntimeState assumes that
the limits of the configuration are in the range the handler accepts, that a request has at most one
value per field, and that limits in dollars are at most 10^9. AsyncLogger assumes a positive batch. Startup assumes that the files are sequences of lines,
that the environment's keys are among the two,
that `true` is a spelling of true and that no spelling means both; Lifecycle nothing. Health assumes that a
pause within a handler is shorter than curl's wait and that one not longer than the threshold, and that the
64-bit range is far above all of them. QtClient assumes that the form's default and the limits of the start are
limits the engine accepts.

**Sums, and induction over data.** The provers cannot instantiate the library's induction theorems, which
take an operator. FoldLemmas goes without them: a set of numbers in which every element's successor lies
and 0 lies is all of them, by the least number missing (`InductionOnNat`), and so for the subsets of a finite
set by their size (`InductionOnSubsets`). A recursive definition is a `CHOOSE` of a function that satisfies the
recursion; induction shows that there is one, and, where needed, that two of them agree. From this follow how
a sum changes when an element is added, removed or renumbered, and what `IntentsOf` and `Parse` compute for
lists of any length.

**TradingCore.** `TypeOK` is inductive by itself. Its second conjunct, that the OMS holds exactly the
numbers `1..seq`, is what makes a submission's number fresh. This turns `OmsSubmit` into an extension of
the map and `OmsAccept` or `OmsReject` into a change of the new record only, which two lemmas state
once. `SettledOrders` and `NoLeverage` are inductive relative to `TypeOK`: an order leaves `New` in the
call that creates it, and the risk check bounds the position after it by `Equity * ratio / 100`, whatever the
ratio was before. `OverLimitFreezes` follows from the check alone, since a position over the limit
fails it for an order of any size. `PositionLedger` is inductive as well, by `SumFunctionAdd`: an accepted
buy adds one term to the sum, a cancel changes no term. For the refinement, each action maps to one action of
the gate or to a stutter; an accepted submission needs the lemma behind `NoLeverage`.

**OrderApi.** `GatedExchange` is not inductive: it says nothing of the request about to be sent, nor of
requests an earlier run of the process sent under numbers this run gives out again. `ApiInv` adds both: what is
in `placing` agrees with an accepted order and was not sent in this epoch (`PlacingInv`), and epochs in
`sent` never exceed `restarts` (`SentInv`), so a restart leaves the current epoch empty. That a printed
number is within half a unit of the one it prints is arithmetic of its own (`FixedNear`), and so is that one
not above 0 stays so (`FixedNotPositive`). `ExposureCovered` compares what was sent, less half a printed unit, with
what was counted, term by term (`SentWithinChecked`). It is not
inductive either, since a request that is sent adds to one side only: `ExposureInv` counts the order in `placing`
with those already sent, so that the position covers it from the decision on. For the cache,
`CacheInv` says that it is a window of consecutive numbers up to `seq`, with the batch and the cache's
type fixed, and `PushMovesWindow` that a push, trimmed or not, moves the window on by one.

**LongGrid.** Whatever its configuration, once sanitized, and whatever the price, `on_price_tick` returns a grid and at
most one intent, with a level's number, where the nearest of the levels reached exists by `NearestReached`.
TickEngine and GridTrading both rest on this.

**TickEngine.** `EngineTypeOK` ties the holder of each mutex to the step its thread is at. It becomes inductive with
`Carried`: the grid is a grid, and a thread on its way to the events list carries an entry.
`LateIntents` follows from `LateInv`: while a reply's word stands the flag is down, so no thread passes the check,
and intents produced since then plus threads that passed it before never exceed the number of market threads.
`IntentsInOrder` needs `ListInv`: only the market thread that holds the grid has an intent to tell, for `grid_mu` is
released after `push_event` (`OneTells`), so all intents are older ones, those of the list, and that one, in this order
(`ToldInOrder`). A note of the control thread between two intents does not disturb them (`IntentsGrow`), and trimming
the list drops the oldest intent or none (`IntentsShrink`).

**GridTrading.** `TradeInv` relates the grid, the orders of all grids and what is held. Each level in use has an
order of its own generation on its side (`Backed`), so orders of the present grid are never fewer than levels in use;
those beyond are *spare* (`Spare`). A late buy may find its level waiting for a buy of the present grid: the level
goes on to its sell, and its own buy is left without a level. When that one fills, in time, what is held and what is
offered move apart. So `Balanced` bounds the difference twice: as it is, and as it would be once every spare
order was filled. Both are within the largest quantity for each late fill, and what lies between them is, too
(`NearBetween`). Until the first rebuild there is no
late fill, and `Mirrored` is inductive: a level's order is its only one. `EdgeClear` holds since a tick that reaches
the edge rebuilds the grid, idle, before it looks for a level to buy.

**RuntimeState.** The properties hold between steps of a save only by what the save is about to do, so
`StateInv` adds the protocol: while the handler is at `write` the file is not whole and the handler still
holds what memory has; `saved` means a whole file (`SaveProtocol`). All limits in memory and in the file have
been in force (`AllKnown`). Reading back what was printed, printing and reading it again changes nothing more,
by `PrintedTwice`; without it `SavedStateCurrent` would fail at the second restart.

**AsyncLogger.** That file, buffer, lost records and queue concatenate to all that was pushed is inductive with
lemmas on sequences, for a push, for a record's move into the stream, failing or not (`PutTakes`), and for a flush
(`FlushKeeps`). For the exit, `StoppedLast` orders the
shutdown: the flag is cleared after the last producer ended, the worker drains after that, and it is gone
only with queue and buffer empty.

**Startup.** `KeysInv` says of the file that a second key never stands without a whole first one of the same
account, which truncation and writing in order give at every prefix, and that a write which was not cut off leaves two keys or
none; and of the process that each key is the environment's or, if that has none, the file's, whose accounts are
others than the environment's. For the settings, the invariant is
one of the parser, after any number of lines: each key it has is named by a line that has its value (`NamedUpTo`),
and in a file of the expected form the section is that of the last header (`InSection`) and a setting has the value of
the last line that sets it (`KeySet`). So what `Parse` returns is what `Word` says (`WordIs`).

**Lifecycle.** `JoinedInOrder` needs that what is joined stays gone, hence that main starts no thread after
it has joined one (`Phases`). `OneLateTick` needs to know where a thread can be that has handled a tick too many: the
loop leads from there to the check of the flag, which is down, and never back to a handler (`LateOnce`).

**Health.** `HealthInv` compares two ages of the same moment: `last_tick_ms`, as the clock shows it, and `since`, the
truth. A store can be late by a pause, and an older one can follow a newer; the clock can be set back. `TickAges` bounds the
difference by both. `OnePort` says that an engine and another process do not listen both. `ShortSteps` bounds the age of what the route has read, and `Unhindered` says that a check that met
no other request has waited for the route alone, so that one that timed out met one.

**QtClient.** `FormNeverJunk` needs that the limits in each reply under way have been in force (`BodiesInv`), and, as a
start takes any known limits, that all of those are acceptable (`LimitsInv`). `OrdersConfirmed` needs that an
order's request counts until it is taken (`OrdersInv`): orders taken and requests under way together never
exceed those confirmed. `PlacesInv` keeps requests and replies of a route in places of their own.

**Only model-checked.** All liveness, and with it ENABLED, which the provers cannot treat: `HandlersFinish`,
`RecordsReachFile`, `StopReturns`, `FeedsGoOn`, `ShutdownReturns`, `TroubleReported`, `FormConverges` and
`BannerClears`.

## 6. Where the code and its documents disagree

Each of these is a run whose one property states what the document or the code's own message says:

- **order_limit** (`LimitOrdersPriced`): a LIMIT order without a price is valued at the last tick,
  accepted, and sent with price 0.00 (or, if it has a negative one, with that). `place_order` means to refuse it ("limit order requires price"),
  but the handler always passes a price, so the check never fires.
- **client_applied** (`AppliedAsTyped`): Qt writes a ratio of 0.00001 as `1e-05`, `json_get_number` stops
  at the `e`, and the engine answers 200 with a ratio of 1.0 in force. The form's validator lets such a
  ratio through; the document says that an update takes effect.

Seen while modelling and left to the reader, as no property is stated for them:

- A buy that fills after a rebuild meets an idle level, and no take-profit sell follows, which
  `docs/strategy_long_grid_module.md:16` promises of each buy. `ExitsMatchHoldings` says that late fills are the only way.
- A change of limits whose save failed is answered with 200 and undone by the next restart;
  `docs/config_vs_client_mutability.md:35` says that it is persisted.
- An engine that never receives a tick answers `/health` with 200 for ever;
  `docs/server_deployment_long_running.md:70` says 503 when no tick came for longer than the threshold.
  `AlarmsExplained` and `HealthyMeansRecent` have the code's behaviour as an exception each.
- When the port is taken, by a second engine say, the bind fails, main is not told, and the health check gets
  the other process's answer: a 200 of its own hides an engine without a control API.
- A full disk, or any other failed write, silences the log for good: the stream ignores all later records,
  the worker goes on popping them, and `dropped_`, which counts refused pushes, stays 0.
- Keys of two accounts are used together when the environment has one of the two (`bootstrap.cpp:32`).
- A negative `limit_price` is not refused (`control_api_router.cpp:152`): the order is valued at the last tick.
- What is sent may exceed what is counted by half of the sixth decimal of the quantity.
- A fresh engine can answer 503: a tick stamped after the route read the clock makes the unsigned
  difference wrap. A check also fails while a client or the exchange holds the control thread.
- A credentials update on a full disk is answered with 200; `/credentials/status` may then show both keys
  set, the process's own, while the next start in live mode is refused for missing ones, which `Restart=always`
  repeats every two seconds.
- `dry_run: True`, or `true` with a comment after it, reads as false, that is live trading.
- `docs/server_deployment_long_running.md:9` and `docs/config_and_runtime_policy.md:44` name the variable
  `FQ_CONFIG`; the code reads `FQ_CONFIG_PATH` (`bootstrap.cpp:8`).
- `config/engine.yaml.example` is written for `load_app_config`, which nothing calls; `load_config` ignores
  most of its keys.
- An order trim batch above the cache's size empties the cache at each overflow, the order just placed included.
- A client that connects and sends nothing holds the server's `stop()` in `join()`, which
  `docs/change_log.md:101` means to avoid; `ShutdownReturns` has the opposite as its premise.
- The strategy page calls `setValidator` through three uninitialized pointers at every launch
  (`qt_client/src/pages/strategy_page.cpp:44`).
- The strategy page's grid form and its enable box are never filled from the engine, and the risk form
  shows built-in defaults until the first reply, about six seconds: applied before that, they overwrite
  the engine's limits.
- The client's requests have no timeout and none waits for the one before: while the control thread is
  held by a blocking call, the pages add four or five a second.
- Client order ids are `qt_<n>` where `docs/execution_module.md:37` has another prefix, and the numbers
  start over with every process.
- A cancel changes the OMS only: neither the cache behind GET `/orders` nor the exchange learns of it.
- The position counts accepted buys for ever, also cancelled ones, and is empty after a restart.
- The two market threads write the plain `double` `last_price_` without a lock.
- A grid configuration posted by the client is not saved; a failed bind of the control port is not
  reported to main.

## 7. What is not modelled

- Request signing, libcurl, TLS and WebSocket framing: I/O. Their outcomes are in OrderApi and Lifecycle.
- The scanning of JSON fields and of prices in messages: text. What a handler does with a parsed field is
  modelled, and the reading of numbers with an exponent; that the scanner finds a field is not.
- Of the configuration: one setting stands for all that are read alike; quotes around values, and numbers with
  text after them (`std::stoi` reads `60s` as 60), are left out, as are lines with nothing before their colon.
- `core/app_config.cpp`: it has no caller.
- `uptime_sec` and `tick_count`: printed by `/health`, used by nothing in the engine.
- Of the Qt client: the grid and credentials forms, cancels, the layout of tables, languages.
- The benchmark, build files and installation.
- Memory: caches and the queue are abstract sequences. The queue's allocation failure, the only way
  `try_log` can drop a record, is left out. Of a failed write it is left out how much of its records the
  file got.
- Fractions of the order limit in dollars, and such limits above 10^9.

## 8. Plan

Built, in this order: OrderGate and TradingCore with proofs, OrderApi, LongGrid with GridTrading
and TickEngine, RuntimeState, AsyncLogger, Lifecycle, QtClient, Health, ConfigFile with Startup, and the
proofs of all of them: sums and the ledger, the grid and its market, the events list, health, the parser and the client.

Left, the models:

1. Order path and tick threads composed, for the moment of the price an order is valued at
   (`docs/risk_oms_module.md:16`).
2. Lifecycle and AsyncLogger composed: Lifecycle's joins as a refinement of the logger's producers ending.
3. The Qt client against OrderApi: what a user sees of a cancelled order.
4. The scanning of JSON fields, as functions on sequences of a few tokens against a reference definition.

Left, the proofs:

1. That the decision about an order's price is the last tick's, once 1 above is modelled.
2. An abstract specification of the events list, a bounded log of intents, refined by TickEngine.
