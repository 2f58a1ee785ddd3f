# A verification project for TCG-software

TLA+ models of TCG-software: the parts where order matters (the bar loop of the
signal engine, the app-data store and its lock, the editors' autosave, the
background jobs and their pollers, the concurrent fetch of option chains, the
disk cache of results) and the parts where arithmetic over gapped data matters
(held options, portfolios, signals, the intraday straddle, continuous
futures, option series). TLC checks each on small instances; for all the parts where
order matters, for the counters of a signal's conditions and for the caches of the
market data services, TLAPS proves the safety properties for all instances. Paths are
relative to the repository's root.

## 1. The system

TCG-software is a research desktop for systematic trading: a FastAPI backend in
one Python process (`tcg/`), a React single-page frontend (`frontend/`), and a
Tauri shell (`desktop/`) that runs the backend as a sidecar. Market data is
read from two PostgreSQL warehouses (v1 and v2), app data (indicators, signals,
portfolios, baskets) is read and written in another PostgreSQL schema.

| Component | State it keeps | Operations | Talks to | What is hard about it |
|---|---|---|---|---|
| Signal evaluator, `tcg/engine/signal_exec.py` | per evaluation: latches, arms, countdowns, chain candidates, trade ledger | the passes of a bar: start, clear, chain, enter, reset, emit | conditions, hold P&L | passes share latch state within a bar; re-arming is a countdown over bars; chains span bars |
| Conditions, the same file, and operands, `tcg/core/api/_series_fetch.py` | none across calls | fetch, align, compare, count | market data, indicators | counting across gaps, missing operands |
| Signal request, `tcg/core/api/signals.py` | none | parse, resolve baskets, fetch, respond | evaluator, persistence | legacy forms, two warehouses in one request |
| Hold P&L, costs, metrics, cash rate, `tcg/engine/*.py` | none across calls | array functions | signals, portfolios | segments over missing quotes, wipe-outs, two loops that must agree |
| Portfolio computation, `tcg/core/api/portfolio.py` | none | validate, align, compute, log trades | engine, result cache | one calendar from many, trades rebuilt from the curve |
| Disk result cache, `tcg/core/cache.py` | a SQLite table | get, put, peek, clear | portfolio route | a put may follow the clear it should have preceded; results computed from cached results |
| App-data repository, `tcg/persistence/repository.py`, and routes, `tcg/core/api/persistence.py` | table rows: columns and a JSON payload | create, get, update, archive, set_locked, list | PostgreSQL in autocommit | a handler is several statements, handlers interleave |
| Autosave, `frontend/src/hooks/useBackendAutosave.js` | refs: controller, debounce, queued restart, deferred, status | render, timer, saveNow, flush, reset, unmount | the page, the app-data routes | every callback order; aborted and late requests |
| Other request hooks, `useEntityLock.js`, `useAbortableAction.js`, `useAsync.js` | optimistic flag, controller | toggle, run, abort | app-data and compute routes | overlapping toggles |
| Intraday jobs, `tcg/core/api/intraday_backtest.py`, and page, `IntradayBacktestPage.jsx` | `_JOBS`; the page's timer, guard, error count | start, run, progress, prune; click, tick, poll, unmount | each other over HTTP | lost polls, restarts, a bounded store, timers that outlive a page |
| Intraday engine, `tcg/engine/intraday_backtest.py` | none across days | plans, one day's simulation, aggregate | warehouse | bars before and after the asked minute, a preview of what is booked later |
| Option series resolver, `tcg/engine/options/series/stream_resolver.py` | per resolve: the chain index | fetch groups and year chunks, select, hold, price | gate, chain cache, warehouse pool | fan-out of many tasks of many requests through one gate |
| Chain cache and gate, `tcg/core/api/_options_chain_cache.py`, `_options_concurrency.py` | LRU store, row count, flights, semaphore | get_or_fetch | resolver | single flight, expiry and eviction around awaits |
| Coverage cache, `tcg/data/_options_coverage_cache.py` | LRU of spans, flights | get_or_fetch | data service | the same |
| Rolls, maturities, selection, chains, pricing, `tcg/engine/options/*` | none | pure functions | resolver | date rules, picks from chains that are fetched in parts |
| Continuous futures, `tcg/data/_rolling/*` | none | roll dates, clamp, trim, stitch, adjust | data services | boundary dates, contracts without data |
| Market data services and readers, `tcg/data/` | an LRU of answers, a connection pool | prices, continuous, aligned | warehouses | a cache without invalidation over data that grow |
| Application and routes, `tcg/core/app.py`, `tcg/core/api/` | app.state | lifespan, handlers | everything | wiring |
| Desktop shell, `desktop/src-tauri/src/lib.rs`, sidecar | the child process, the restart lock | start, restart, kill, watchdog | backend | restart against exit, a port not yet free |
| Pages, charts, queries, `frontend/src/` | React state | presentation | routes | - |

What makes each correct, in a phrase: the evaluator's ledger, latch and position
tell one story; what is reported (trades, exposure, P&L, costs) adds up to the
account; no number of a bar depends on a later bar; a document is never
overwritten by somebody who had not seen it, and its lock stops everybody but
the lock route; the last edit reaches the backend and never an older one after
it; a page shows the result of the run it started and every run ends; a chain
is fetched once for all who want it, the pool is never exhausted and nobody
waits for ever; a cache serves what the same request would have computed, no
older than it says; a continuous future's returns are those of a contract;
an option leg is the same whichever queries fetched its chains.

## 2. Modules

Processes that interleave:

| Module | Models | State and actions in terms of the code |
|---|---|---|
| `ChainStep` | one step of a THEN-chain (`_sequence_active` and the in-loop copy) | operators only: what drops, advances, completes a candidate `(stage, tau)`; `LiveNext` is the reference that keeps every candidate, from `tests/property/test_temporal_automaton.py` |
| `ChainAutomaton` | `_sequence_active` beside that reference | `ChainBar` is one iteration of the loop under any match, gap and abort |
| `SignalLatch` | the bar loop of `evaluate_signal` | `StartBar`, `ClearPass` (one exit block at a time, in declaration order), `ChainPass`, `EntryPass`, `ResetPass`, `EmitPass` are the passes (a) to (d); the conditions that hold on a bar are chosen freely |
| `PersistenceContract` | what the app-data routes promise | a request begins, and takes effect at one moment or is refused for a reason true of some moment while it ran |
| `AppDataStore` | repository and handlers | one action per SQL statement: `Get`, `Stamp` (`_utcnow`), `Insert`, `Update`, `Archive`, `SetLocked`, and the two statements that explain a zero-row update, `WhyLocked`, `WhyGone`; `Restart` between any two |
| `Autosave` | the hook, with the page and the wire | one action per callback: `Render`, `Select`, `TimerFires` (also `flush`), `SaveNow`, `Unmount`, `Settle`, `SettleLocked` (423); `Stored` is the backend |
| `IntradayJobs` | job store and polling pages | backend: `Post`, `Day`, `EndJob`, `Restart`, `AnswerPoll`; page: `Click`, `Started`, `Tick`, `PollReturns`, `Unmount` |
| `BulkFetch` | Phase B fan-out, gate and chain cache composed | one action per stretch between two awaits: `Start`, `Acquire`, `Lookup`, `Fetched`, `FetchFails`, `Resume`, `Chunk` |
| `PortfolioCache` | the disk cache under the portfolio route | a request is a stack of calls, because a composed portfolio computes its child through the same cache; one action per SQL statement and one for the computation, over a clock; `Clear`, and `Restart` into a later `COMPUTE_VERSION` |

Computations. Each is a set of functions from the request and the data to the
answer, split as the code is; a `...Rules` module drives them: data arrive one
bar (minute, day) at a time, the answer is computed anew on all the bars there
are, and the properties relate answer, data and the previous answer.

| Module | Models |
|---|---|
| `Floats`, `Dates` | float64 as reduced fractions with NaN and infinities (no rounding), and the calendar arithmetic of numpy and datetime |
| `HoldPnl` | `engine/hold_pnl.py`: the account of held option legs, both sizing modes, the delta hedge, the notional replay that costs are charged on |
| `WeightedPortfolio` | `engine/metrics.py`, `costs.py`: returns, the three rebalancing modes, leverage, costs, drawdown, period returns |
| `PortfolioRun` | `core/api/portfolio.py` up to the engine: refusals, alignment, cash, sizing of held legs |
| `PortfolioTrades` | the same file after the engine: roll rows, signal trades, quantities, the response |
| `EngineRules` | composes the four above: `Arrive`, `Prepare`, `Publish` |
| `SignalSeries` | `core/api/_series_fetch.py`: what an input's series is, baskets and held options included |
| `SignalConditions` | the vectorised half of `signal_exec.py`: operands, conditions, counters, chains (with `ChainStep`), block activity |
| `SignalBook` | the sequential half on real firings: the latch loop, positions with cap and lag, P&L (with `HoldPnl`), costs, trades |
| `SignalRequest` | `core/api/signals.py`: parsing with the legacy forms, refusals, the response |
| `SignalRules` | composes the four above: `Arrive`, `Align`, `Run`, `Draw`, `Settle`, `Publish` |
| `StraddleDay` | `engine/intraday_backtest.py`, one day: strike, entries, hedge, triggers, exits, P&L |
| `IntradayRun` | the run around it: request checks, plans of weekdays, contracts, aggregate, warnings |
| `IntradayRules` | composes both: `Accept`, `Refuse`, `Exclude`, `Minute`, `Close`, `Finish` |
| `ContinuousRolling` | `data/_rolling`: `ContinuousSeriesBuilder.build` |
| `MarketData` | the data services of v1 and v2 over it, with their caches, aligned legs, and v2's native series |
| `OptionSeries` | `engine/options/series/stream_resolver.py` over the chain queries of `data/_sql/options.py`: maturities, narrowed chains, picks, and the two-phase hold |
| `MarketRules` | composes these three with warehouses that grow under them: `Load`, `Ask`, `Restart` |

A module `...Proofs` holds the theorems about the module it is named after:
`SignalLatch`, `IntradayJobs`, `BulkFetch`, `PortfolioCache`, of `EngineRules` the account
of a held leg, of `SignalRules` the counters, of `MarketRules` the caches. Those about
`ChainAutomaton` are in `SignalRulesProofs`, those about `AppDataStore` and `Autosave` in
`PersistenceProofs` (the two modules share no state; the hook's definitions carry its
name, as in `HookNext`, so that both can be extended). `MC...` modules hold the instances TLC checks.

`AppDataStore` refines `PersistenceContract` (`ImplementsContract`). `SignalLatch`,
`ChainAutomaton` and `SignalConditions` run the same `ChainStep`; `SignalBook`
and `PortfolioRun` the same `HoldPnl`. `OptionSeries` says what the fetches of
`BulkFetch` bring. `BulkFetch` is the composition of
resolver, gate and cache, `PortfolioCache` of cache and nested requests,
`MarketRules` of caches, readers, the stitcher and the option resolver. Autosave and the store meet
at one request: the store treats it as a `PUT`, Autosave's `Stored` is its
success and `SettleLocked` its 423.

Definitions commented "mutant" are not part of the models. Each is a plausible
slip in the definition that follows it; with it in place the property it is
paired with in `PROJECT.json` fails, so the property depends on that line of
the code.

## 3. Runs

| Run | Instance | What it shows |
|---|---|---|
| `chain_automaton` | chains of two to four stages with windows of 1 to 3, six bars | the engine's one candidate is always one of the reference's, so it never fires spuriously; with two stages both fire together |
| `signal_latch` | two entries, two exits, bound and unbound, counts 1 and 2, four bars; and a gated two-stage chain with a bound and an unbound exit, five bars | ledger, latch and trades tell one story; a bound block acts again only after its reset has fired its count; what `reset_on_actual_exit` keeps, and what a close takes |
| `app_data_store` | one document of each kind in turn, two requests, four stamps | no lost update, lock only by its route, columns and payload agree, the contract is implemented |
| `autosave` | five user acts | one save at a time, nothing forgotten while the page is there, a truthful status, no stale write; promises are kept and everything comes to rest |
| `intraday_jobs` | one page, three jobs, a store for two, two days, a restart, lost answers | what is shown is of the run on show; eviction is oldest first and only to make room; runs and timers end |
| `bulk_fetch` | four expirations, two of them reached through year chunks, three keys, a gate of two, two rows of cache | one flight per key, no orphaned waiter, exact row count, a spare connection, every fetch ends |
| `portfolio_cache` | two clients, three requests, a plain and a composed portfolio, two bodies of different warehouses with one dump, two entries, two releases, six ticks | what is served was computed for the same meaning by the same release, but for those two bodies, a bypass reaches every level, and staleness is bounded |
| `engine_rules` | four held legs and twenty-five portfolios over all markets of three or four bars | segments telescope, costs follow the account, wipe-outs reconcile, the trade log adds up to the curve, the curve to its total, the past stands |
| `signal_rules` | signals with counters, chains, held options, costs, caps and lags, baskets and indicators over up to six days with gaps | conditions count what they say, exposure is that of the trades, the book adds up, the past stands |
| `signal_rules_sources` (violation) | one symbol from both warehouses | one input is priced on the other's warehouse |
| `intraday_rules` | six requests, up to five minutes of quotes, trades or nothing | the trigger's preview is what is booked, what has fired stands; exits follow entries, day and report add up |
| `market_rules` | three contracts expiring within days, monthly and weekly contracts of one month, the two services over a cache of two, options around a third Friday and from month end to month end | the contract of the asked rank is held, adjusted returns are real or flat over a roll, an option leg is what its whole chains would give, new days leave the past alone, a cache serves the asked series |

### Bounds, and why they are enough

* `ChainAutomaton`: `GridBars` 6 exceeds the sum of the windows of every chain, so
  that candidates complete, expire, are overwritten and aborted.
  The proofs lift the bound.
* `SignalLatch`: four bars are two full open-close-reset cycles for a block
  with count 1 and one for count 2. Two exits are needed for one to find its
  target already closed by the other.
* `AppDataStore`: every race is between one writer and the rest; four stamps let
  one client write twice between any two statements of the other. Clients are
  interchangeable (symmetry; no liveness in that run). The proofs lift the bounds.
* `Autosave`: five acts (`MaxEvents`) give a save in flight, one queued, a newer
  edit armed, and a selection or unmount anywhere among them.
* `IntradayJobs`: `MaxJobs` 3 over `Cap` 2 makes the store evict and overfill, with
  jobs of other pages created by `Post` on its own; `MaxErrors` 2 stands for
  `MAX_CONSECUTIVE_POLL_ERRORS`, `Days` for the trading days. One restart is allowed.
* `BulkFetch`: two chunks over a gate of two can fill it while both fall back;
  rows 1, 2 and 4 over a cap of 2 give a fit, an eviction and an entry that is
  over the cap alone. Whether an entry has expired is free at each lookup.
* `PortfolioCache`: `TTL` 1 and `MaxNow` 6 leave room for a child put at the end of
  its parent's compute, and expired entries on both levels; `MaxRun` bounds how
  long one request computes, `MaxAsks` how many are made. Clients are symmetric. The bodies
  are of both warehouses, and two of them share a dump (section 5).
* `EngineRules`: a segment needs an open, a gap, a quote and a roll: four bars.
  Prices are 0, 1 and 2 or missing, so a wipe-out, a recovery from a gap and a
  flat bar are all reached; the four days straddle a year, a month and a week. Cash legs are
  compound and simple; `DayCount` 2 stands for the 252 trading days of a year, so that the daily
  root of the rates of an instance is a fraction; one rate of -100% is refused. Each of the two
  re-fetches of a continuous leg (costs, trade log) fails always or never.
* `SignalRules`: five or six days fill every window and count (2 or 3) and leave
  a day for the reset and one for the effect. Each request puts a few mechanisms
  together because the state is the whole history.
* `IntradayRules`: entry, two minutes of monitoring, exit and one minute of
  tolerance; the clock change of March 2025 lies between two of the days.
* `MarketRules`: each contract may trade, be NULL or be missing on any day; five
  days see two expirations, a rank of 2 and an offset of 2. A cache of two is
  exceeded by three different answers; the proofs lift that bound. The options have an instrument listed
  twice, two that tie, and days without prices, greeks, an expiration or the
  underlying; `PushdownK` and `MaxExpsPerSubchunk` of 1 make every tie an
  overflow and every full chunk a chunk of its own (the code has 8 and 24). A failed chunk falls
  back to its expirations one by one, and one of these may fail as well.

### Fairness

Safety runs need none. `Autosave`: an armed timer fires and a request settles
(`fetch` resolves or rejects). `IntradayJobs`: intervals tick, requests are
answered or fail, a day's queries are under a statement timeout so a job's
task goes on to its end; nothing is assumed of clicks, unmounts or restarts.
`BulkFetch`: the event loop runs ready tasks, queries and pool waits have
timeouts, and `asyncio.Semaphore` serves its waiters in order. All of it is
weak fairness of one actor at a time.

### Where the models stop

* Numbers are exact: rounding, overflow and denormals of float64 are left out;
  logarithmic returns, which have no exact values, too.
* Two stamps of `_utcnow` are never equal. With equal microseconds the
  compare-and-set on `updated_at` would let a lost update through.
* A statement is atomic, as one autocommitted `UPDATE` of one row is.
* An aborted save belongs to the document the user left; coming back to that
  document while it is still under way is not modelled. A save whose promise
  was rejected is not stored afterwards. The pages' comparison with the last
  loaded payload is not modelled: every edit counts.
* Cancelling a task that waits on a shared future would cancel the future for
  all. Nothing in the code cancels request tasks but a shutdown; it is left out.
* Job ids are distinct (`secrets.token_hex(8)`).
* User code (indicators) is a fixed function of its series; the Black model of
  the intraday engine is a small monotone table; the CME calendar is a constant.
* `SignalLatch` and `SignalBook` give the exits of a signal distinct ids (section 5).
* A continuous leg's re-fetches fail, or not, for the whole life of a portfolio: one that fails
  now and then changes costs between two runs of one request, which `CurveStands` would not allow.
* Parts of the models carry no property of their own, since they only pass data on: the listing
  of documents (`Listed`), the native series and the settlements of the market data.
* In `OptionSeries` a query of a kind, or of one expiration, fails always or never; rows of a day come
  expiration by expiration (the code: in the order the chunks were met), which
  only decides ties; crypto premiums are in dollars already. Why a day has no
  value (`error_codes`), premiums priced by the Black model (`bs_mid`), the reference
  future of a roll and a reader without the chunked queries are left out.

## 4. Proofs

Every safety invariant and action property of the interleaving modules is a
theorem, for all values of the constants their assumptions allow, and of the
computations the account of a held leg, the meaning of the counters and what the market
data caches serve. Each module has an inductive
invariant of its own (`StoreInv`, `HookInv`, `JobsInv`, `LatchInv`, `CacheInv`,
`FlightInv`, `HeldInv`, `CachesAreOwn`, and `EvaluationOk`), made of named parts that were first checked by TLC as invariants; what
the property itself does not say, and a step needs, is said below.

`SignalRulesProofs`, of `ChainAutomaton`, for all chains, windows, markets and bar counts:
`ChainTyped`, `NeverFiresSpuriously`, `TwoStagesExact`. The invariant is that the
engine's candidate is a member of the reference's set (`CandidateIsLive`):
both apply the same `Progress` to it, and where the engine overwrites its
candidate by a new head, the reference adds that head. A completion is then a
completion of a member of the set. For two stages it is strengthened by
`LatestStart`: live candidates the engine dropped are older starts, whose
windows contain a completion only if the kept one's does.

`SignalLatchProofs`, for all signals (any entries, exits, resets, counts and
windows) and any number of bars: `LedgerAgrees`, `RearmWaitsForFires`,
`ClosesDropCandidates`. The properties speak of bars, the passes of a bar run one
after the other, so the parts of `LatchInv` say what the passes so far have
already told of the present bar (`Until`).

* `LedgerInv`: opens and closes lie before the bar, or on it once their pass has
  run. A close and a re-open of one bar keep their order by it.
* `ArmInv`: for every bar on which a bound block acted, the fires counted since
  plus what its countdown still owes are at least its count. That a block acts
  only while armed then leaves no debt; that arming takes effect from the next
  bar is why a fire on the bar of the second action does not count.
* `ChainInv`: during the clear pass a candidate may reach back across closes of
  this very bar only, which `ChainPass` then drops.

`PersistenceProofs`, of `AppDataStore`, for all sets of clients, documents, texts, categories and
any number of stamps: `Typed`, `ColumnsAgree`, `NoLostUpdate`,
`LockBelongsToLockRoute`, `StoreImplementsContract`. They rest on `StoreInv`,
proved inductive action by action (`StoreInvariant`), the conjunction of

* `TypeOK` and `ProjectionsAgree`;
* `FreshStamps`: a stamp not yet written occurs nowhere else, which is what makes
  `updated_at` a version;
* `SeenOrTouched`: past its `SELECT`, a `PUT` holds the current row, or the row was
  written since and the stamps differ, so `Update` matches only in the first
  case (`touched` is a history variable for "written since");
* `RefusalGrounds`: a request on the way to a 423, 409 or 404 has a ground for
  it, though it may be another than the one it reports.

The refinement maps a document's content to its category column and payload
without the lock, and the pending requests to the contract's `busy`. Every
statement that writes maps to the contract's effect, the last statement of a
refusal to `Refuse`, whose grounds are `RefusalGrounds`, and the rest stutter.

`PersistenceProofs`, of `Autosave`, for any number of user acts: `HookKeepsWord`, `NoWriteIsStale`,
and `PromisesAreKept`, the safety half of `EverythingSettles`. `HookInv` adds
`WireFits`, that of the requests on the wire only the hook's own is not aborted and it
carries what was last sent, and `VersionsOrdered`, that store, sent, ref and edits
grow in this order and no promise waits for a save of an older version. With
both, a late answer cannot be stored over a newer one: it is aborted, or it is
the newest there is.

`IntradayJobsProofs`, for any pages, jobs, days, store size and poll limit:
`ShownResultIsOfThisRun` and `EvictionOnlyForRoom`. `JobsInv` is about mounted pages:
a page waits for one thing at a time (`OneRunPerPage`: the start of its last
click, or the one poll of its timer), and all it waits for is about the job of
that click (`AllAboutMine`); a poll of an earlier run would need a timer or a
guard that the click's conditions exclude. Eviction keeps the order of ages, and
a proof about `Pruned` counts how many ended jobs it takes.

`BulkFetchProofs`, for all groups, chunks, keys, caches and pools:
`SingleFlight` (`OneFlightPerKey`), `NoOrphan` (`WaitersHaveLeader`),
`SpareConnection` (`ReserveKept`) and `RowCountIsTrue` (`RowsAccounted`). The first
two rest on `FlightInv`: with the
shapes of the variables it says that the gate's queue holds queued tasks, each
once, and that the store holds no key twice. Both are needed: a task queued
twice could enter the gate while it fetches, and `_put` would drop only one copy
of a key. What an eviction, an append or a drop does to such a store are lemmas
of their own. A flight that ends is the only one of its key, so the waiters it
wakes are all there are. `SpareConnection` adds `GateKept`: the tasks inside the
gate are counted only when one enters, and whoever uses a connection is inside.
`RowCountIsTrue` is about a sum over the store, a fold: that the sum of a set and a
new key is the sum and the key's rows is proved by induction on the number of
keys (`SumIsAdditive`).

`PortfolioCacheProofs`, for any clients, portfolios, lifetime, capacity and
releases: `ServedFresh` and `ServedMatches`. `CacheInv` follows a value from the
data it was read from to the row and on to whoever is served it: how old it may be in a row
(`RowsAreYoung`) and in each phase of a call (`CallIsYoung`), which for a composed portfolio
adds the child's lifetime to its own. The two lifetimes and three computations
of `StalenessBounded` are the sum along that path. `OwnValues` says the same of meanings:
what a row or a call holds is a result of its body, or of the one other body with its
dump (`IsOf`), which passes from a child to the portfolio composed of it. `OneDump` is
the reason: of two bodies with one dump, where both read one warehouse a result of
the one is a result of the other, and where they do not neither is `ToldApart`.
That the exception is no wider than it must be is `OverriddenDefaultsCollide`.

`EngineRulesProofs`, for any held legs, with or without a hedge, any series of bars and
any quotes missing from it: `SegmentsTelescope`, `WipeOutsReconcile`, `CostsAreOfTheTrades`
and `AccountNeverChanges` (`AccountStands`, the first half of `PastStands`), all that `engine_rules` checks
of a held leg. `HeldInv` (`AnswersAreAccounts`) ties the state machine to the computation:
what is published is the account of exactly the bars that arrived. The rest is about that
account, a recursive function of the bars, in this order:

* Arithmetic. A number is a fraction in lowest terms, and the properties are equations
  between such fractions. That `Gcd` is Euclid's algorithm, and what it returns a combination
  of its arguments (`GcdIsGcd`), makes equal fractions the same pair (`Same`); so a sum or a
  product may be computed with any denominators (`IsAdd`, `IsMul`, `IsDiv`), and the laws
  needed (`Distribute`, `Telescope`, `Ruined`, `ShareOf`) are identities of integers.
* `AccountSound`. Each bar of the account is in numbers, and what is held was sized at
  a finite price above 0, and at a reference future the code accepts (`WellSized`). Without it
  a quantity might divide by 0 and an equity be NaN.
* `StepAddsUp` and `EquityReconciles`: a step's scale times its P&L is the move of the equity, in
  a ruinous step too, where the scale is -1 over the net; the moves add up by induction.
* `Segment`: from a sizing on, the position stays as it was sized (`StillHeld`), and the equity is
  ahead of that of the sizing by the position times the move to the last finite quote.
  Steps without a quote keep both sides; the first quote after a gap books the gap.
* `ReplayFollows`: replay and account open alike (`MirrorsNext`); the account could refuse to
  open only at an equity of 0, that is when it is wiped.
* `TurnoverCounts` and `FractionsAgree`: what a bar is charged for is the size times its sides.
* `AccountsAgree`: the account of a leg that goes on is that of the shorter leg as far as
  that goes, since a step reads its own two bars only.

`HeldSetups` says what a held leg is: its sizes are finite (the request models refuse others,
`tcg/core/api/_models.py:119`, `:238`, `:251`), its multipliers and quotes may be missing.
`NoneIsNoNumber` keeps Python's None apart from the floats.

`MarketRulesProofs`, for any listings, loads, requests and size of a cache:
`CachesHoldTheirOwn` and `ServedIsItsOwn` (`ServedIsOwn`). The inductive invariant
is `CachesAreOwn`: a cache is within its bound, has no key twice, and each of its
entries is what its warehouse would have answered to the key after some number of
days since the process began. It is a statement about every entry because eviction
and use move them: that `move_to_end` (a `RemoveAt` and an `Append`) and an eviction
keep each entry once is `CacheUsed` and `CachePut`. A load adds
days behind those an entry speaks of (`StillGiven`), a restart empties the caches with
the days it forgets. Aligned legs go through the cache one by one, each possibly evicting
what the one before put there; by induction over the legs (`LegByLeg`) each is still
the warehouse's own, and so is their join. TLC found `CachesAreOwn` true on the instance of
`market_rules` before it was proved. `AsksAssumption` says what a request is,
`NoneAssumption` that the absent value is not the name of a fault.

`SignalRulesProofs`, for any requests, markets and number of days: `CountersMean`
(`CountersMeanTheirWords`). Each counter has a lemma that says what its recursion
or its prefix sums compute, for every array of truth values:

* `ConsecutiveMeans` and `WindowedMeans`: differences of prefix sums count the
  true bars between (`TallyBetween`);
* `SinceResetMeans`: the running count is the remainder, by the asked count, of
  the crossings since the last reset, for every array of resets, hence for the one the engine
  uses (`EntryWipe`): the bound reset and, for a targeted entry that is not gated, any exit
  that aims at it. The reset of the code to 0 on reaching it,
  and on a reset before the bar's own crossing, are what keep it so;
* `HysteresisMeans`: the episode is armed if and only if an excursion is pending,
  begun on a bar that did not fire and answered by none since (`Pending`).

That such a recursion has a solution at all is proved first (`PathExists`). The
state machine enters by `EvaluationOk`: an answer is given only for a parsed
request, whose conditions have the operands of their operator and counts of at
least 1 (`ConditionsAreParsed`), on a finite calendar (`AlignedOnBars`); a count of 0
would be true of runs that hold no bar. A run counts no bar on which an operand is
missing because no comparison holds on NaN (`LevelNeedsOperands`). `RequestsAssumption`
is what the dataclasses' types say of a condition.

Constants' assumptions (`ChainsAssumption`, `CategoriesAssumption`,
`SignalsAssumption`, `TasksAssumption` and so on) are evaluated by the runs.

Induction. The library's induction theorems take an operator as a parameter and
cannot be used; where induction is needed it goes through the least element of
a set of naturals (`HasLeast` of `BulkFetchProofs`, `BarInduction` of
`SignalRulesProofs`, `LegByLeg` of `MarketRulesProofs`, `NatIsAll` of `EngineRulesProofs`, from the well-foundedness of `<`): the least counterexample is
not there.

Only model-checked:

* liveness (`EveryFetchEnds`, `NothingWaitsForEver`, the second half of
  `EverythingSettles`): fairness and ENABLED are out of the prover's reach;
* the other computations (the portfolios of `EngineRules`: `TradeLogIsTrue`, `CurveIsSound`,
  `CurveStands`; `SignalRules` but for the counters; `IntradayRules`; `MarketRules` but for the
  caches). They are written with `SelectSeq`, `SortSeq`, `SetToSeq` and folds over sequences,
  of which the provers know nothing: they are built in, or defined by recursion on
  operators, and have no axioms.

## 5. Where code and text disagree

* `signal_rules_sources`: `_instrument_identity` (`tcg/engine/signal_exec.py:187`)
  keys the fetched prices without the data source, so two inputs on one symbol
  of different warehouses share the first one's series; `tcg/types/signal.py:55`
  says the fetcher resolves the source per instrument.

Met on the way. A property allows for each of the first six, and says so, on an instance in
which it happens:

* The dump that is hashed into the portfolio's cache key leaves a leg's
  `data_source` out when it is unset or v1 (`tcg/core/api/_models.py:111`). Unset means the source of
  the body, and v1 wins over the body's default (`tcg/core/api/common.py:34`; a v1 leg under a v2
  body is tested in `tests/unit/test_v2_preconditions.py:138`), so under a body of v2 the two are
  different portfolios with one key, and the second asked for is served the first one's
  result, against "two runs differing only in source are two different results"
  (`tcg/core/api/portfolio.py:866`). `ServedMatchesRequest` promises the warehouse unless both are
  in use (`ToldApart`). The frontend names no source for the body and only v2 for a leg.
* Trades are priced by the name of their input (`portfolio.py:3114`, `:3171`), and of legs that share a
  name, as on one symbol of two warehouses, the first one's price stands for all. Line 3134 says the price is the
  input's own close, 3065 that such a conflict would surface. `SizedByItsName` promises the own
  price where the legs agree on it, the first one's where they do not.
* An exit that aims at an entry wipes its since-reset counts (`signal_exec.py:1178`), while
  `tcg/types/signal.py:525` says that the bound reset does and that, without one, the count never
  resets. `CountersMeanTheirWords` counts from what the code wipes by (`EntryWipe`).
* A cap whose lower bound is positive lifts a flat bar to that bound (`signal_exec.py:2178`); the comment
  above it and `tests/engine/test_signal_exec_cap_and_since_reset.py:176` say it does not.
  `ExposureIsOfTheTrades` has the lifted exposure.
* The gap of a roll is looked for on a day of both *trimmed* contracts (`tcg/data/_rolling/adjustment.py:87`).
  Where trimming took one's row of the last common day, closes of two days are mixed though both
  contracts traded on one, and the jump stays that lines 63 and 136 exclude: the
  adjusted series is flat over the roll whatever they did, which `ReturnsAreReal` states.
* `tcg/data/_rolling/stitcher.py:122` calls the clamp a no-op for an offset of 0. For a rank above 1 the
  boundary is the front's expiration (`calendar.py:283`), which may lie before the incoming
  contract is listed: its predecessor is then cut there and days with quotes are lost.
  `FuturesStand` is about n-th nearest series that the clamp would leave as they are (`Unclamped`).
* Exit conditions are stored by block id (`signal_exec.py:1802`), while duplicate
  exit ids are allowed (`:1482`) and a firing exit is documented to clear every
  latched target on the same bar: of two exits with one id the last stands for both.
* A zero-row archive is explained by a later `SELECT` (`tcg/persistence/repository.py:463`);
  after an unlock in between the answer is 404 for a document that exists.
* `useBackendAutosave.js:323` drops a queued save on unmount, against rule 3 of its header.
* `IntradayBacktestPage.jsx:461` starts a timer after an await without asking
  whether the page is still mounted; the timer ends with the job.
* A composed portfolio's result may be up to two lifetimes old, its own and its child's.
* The comments at `signal_exec.py:1436`, `:2147` and `:2470` state that the inputs' P&L adds up to
  the equity's move without naming the costs; with them it does (`BookAddsUp`).
* A windowed crossing count may be true on a bar whose operand is missing
  (`signal_exec.py:695`).
* The nearest date of a gap is found by distance between YYYYMMDD integers
  (`tcg/data/_rolling/adjustment.py:19`), so the last day of a month is far from
  the first of the next.
* Where fewer contracts than the rank are left, the last one listed is held on.
* An expiration is fetched on all days of its chunk that lie between its own
  first and last (`tcg/data/_sql/options.py:764`), and the pick of a day does not ask for
  the day's expiration. Where one that is quoted on and off makes the nearest
  expiration change there and back, a contract of another expiration may be
  picked, which the fallback to single expirations never does; `LegsAreExact` leaves
  such days out of the former. `stream_resolver.py:2049` says that each expiration is
  restricted to its own window and selection unchanged.
* The best deltas of a chain are sought among its greeks (`_sql/options.py:887`), so on a
  day with prices and no greeks they are none and a held leg opens a day later;
  when a tie elsewhere in the year makes the query fall back to the whole chain,
  the leg opens on that day, finds nothing to pick and is lost until the next roll.
  "Byte-identical" (`:1001`) it is not; `PastStands` leaves it out.
* A leg held from month end to month end does not roll at the end of its first
  month (`stream_resolver.py:1684`); with an offset of a few days the contract of that
  month is then held, expired, through the next.
* A failing probe for a late open is not caught (`stream_resolver.py:2295`), as the fetches
  beside it are, and fails the whole leg.
* END_OF_MONTH's contract of a month may change as its data arrive; `PastStands`
  of `MarketRules` therefore leaves this strategy out.
* `DefaultMarketDataService` never invalidates its LRU: `ServedIsOwn` allows any
  state of the warehouse since the process began.
* The intraday open anchor (`engine/intraday_backtest.py:479`) may use a bar up to five
  minutes after the open; `n_skipped` counts excluded days; of several
  `max_underlying_move` conditions only the first counts.
* An entry whose input is not declared is skipped in silence.
* `update_indicator` explains its 404 by a document deleted in the gap
  (`tcg/core/api/persistence.py:904`), though rows are never removed; the coverage
  cache promises that every waiter resolves to the same tuple
  (`tcg/data/_options_coverage_cache.py:195`), which a cancelled waiter would break.

## 6. Not modelled

* Indicator execution: a sandboxed interpreter of user code.
* Option chains, selections and rolls of single days (`selector.py`, `chain.py`,
  `roller.py`), pricing kernels and computed greeks. The models of portfolios and
  signals take the stream of a leg as their input, not from `OptionSeries`.
* The coverage cache: the chain cache's algorithm, with one row per entry.
* The entity lock toggle and the other request hooks: one request, no queue.
* Statistics (Sharpe, volatility and so on), range and coverage helpers,
  listings and facets of the data routes: stateless, or rounded numbers only.
* Application wiring, desktop shell, pages and charts, sharing script.

## 7. Plan

Done, in this order: `ChainStep`, `ChainAutomaton`, `SignalLatch`; `PersistenceContract`,
`AppDataStore`; `Autosave`; `IntradayJobs`; `BulkFetch`; their first proofs; then
`PortfolioCache`; `Floats` to `EngineRules`; `SignalSeries` to `SignalRules`;
`StraddleDay` to `IntradayRules`; `ContinuousRolling` to `MarketRules`; `OptionSeries`;
the safety properties of `SignalLatch`, `Autosave`, `IntradayJobs`, `PortfolioCache` and
the row count of `BulkFetch` proved; the counters of `SignalConditions` proved; the
caches of `MarketRules` proved; the account of a held leg (`HoldPnl`) proved.

Next, modules: the coverage cache beside the gate; `useEntityLock` over the
store's lock route, then Autosave over `AppDataStore` as one composition.

Next, theorems: the laws of the computations that do not go through
`SelectSeq` or a `RECURSIVE` operator, next the THEN-chains of `SignalConditions` by
the theorem of `ChainAutomaton`, and the exposure of `SignalBook`, whose held inputs
run the account proved here; lemmas about the calendar of `Dates`.
