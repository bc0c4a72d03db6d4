# AlphaEngine: a verification project

TLA+ models of the parts of AlphaEngine that decide, hold and remember money and of the
parts that carry them to a trader's screen: the pre-trade risk gateway, what it writes
down, what a restarted gateway may claim to know; and, in the web desk, the provider
registry, the shared operations ledger, the reading of the desk, the live order book, the
way of an order, and the data work queue. TLC checks the models on small instances; TLAPS
proves every safety property of all nine, and that the gateway and the work queue implement
their abstract specifications, for every value of their constants that satisfies the module's
named assumption (and, for the session ledger, the hypothesis section 6 states).

All paths below are relative to `src/Part2_Infrastructure/` unless they start with
`src/`. `risk_proxy/` stands for `modules/risk_proxy/`, `audit/` for `modules/audit/`.

## 1. The system

AlphaEngine is a paper-trading desk for quantitative research. A Python FastAPI process
(the *gateway*) holds the position book and decides orders; a web desk (Next.js: route
handlers on several server instances, React in the browser), a Telegram bot and research
services call it. Deployment runs exactly one risk gateway per data directory
(`modules/single_writer.py`).

The gateway is one asyncio event loop. Its mutable state is plain Python objects, changed
under one `asyncio.Lock` whose critical sections contain no `await`. A critical section is
therefore atomic, and so is any stretch of a handler between two awaits. What interleaves
is what lies between them: an audit write in a worker thread, the gap inside a replace,
the reading of the drawdown after a fill.

The web tier is JavaScript on both sides: one thread per instance and per page, so what
runs between two awaits is a step, and what interleaves is answers, timers, pushes, clicks
and, between instances, everything. Instances share nothing but the gateway.

| Component | State | Operations | Hard part |
|---|---|---|---|
| Risk gateway (`risk_proxy/decision.py`, `working_orders.py`, `working_control.py`, `kill_switch.py`, `monitor.py`, `accounting.py`) | resting book, positions, marks, kill switch, symbol halts, reduce-only override, session date, drawdown baseline | submit, cancel, replace, sweep, kill/halt, release, override, reset, session roll, monitor tick | exposure promised by resting orders; a halt racing suspended handlers; who rolls the session; a roll that cannot be persisted |
| Session ledger (`risk_proxy/rehydrate.py`, `audit/boundaries.py`, `audit/writers.py`) | order rows, `book_reset` and `session_rollover` rows | record, replay, restore, refuse | crashes between memory and store; ties of timestamps; what a reset and a roll each end |
| Audit trail (`risk_proxy/deferred_audit.py`, `gateway.py`, `audit/store.py`) | deferred queue, drains in flight, stored rows | queue, drain, record, stop | drains of several handlers at once; cancellation in the middle of one; a resume that overtakes the halt's drain |
| Provider registry (`web/lib/providers/`, `web/lib/operator.ts`) | breaker records, learned licences, quota ledger, answer cache, simulated outages | dispatch along a chain, probe, reset, outage | dispatches that check and charge one ledger while others wait; who may close a circuit |
| Shared operations ledger (`web/lib/observability/ops-ledger.ts`, `web/lib/ops-sync.ts`, `modules/web_telemetry.py`) | queued batch, overlay and counters per instance; the gateway's merge | spend, reset, set and clear outages, push, merge, install, restore | pushes that fail after more was queued; lost replies; a gateway that forgets |
| Desk reads (`web/lib/use-book.ts`, `use-cockpit-feed.ts`, `polling.ts`, `use-gateway-connection.ts`, `use-desk-stream.ts`, `desk-source.ts`, `modules/api/risk.py`) | loops, shared requests, source machines, the pushed stream | tick, ask, settle, supersede, subscribe, push, rotate | answers that end out of order; loops stopped or hidden in a tick; a stream that goes quiet |
| Live order book (`web/lib/livebook-socket.ts`, `venue-liveness.ts`, `livebook.ts`) | one supervised socket per venue, ladder, backoff, liveness marks | open, retry, receive, publish, restart | lost deltas, hung handshakes, flapping, silence nobody observed |
| Order path (`web/components/execution/OrderTicket.tsx`, `web/app/api/gateway/orders/`, `web/lib/gateway.ts`, `web/components/portfolio/WorkingOrders.tsx`) | the burst, decisions and doubt on screen, the list, busy flags | submit, cancel, amend, poll | deadlines that race decisions; bursts that fail in the middle; an amendment half done |
| Data work queue (`web/lib/use-data-work-queue.ts`, `data-work-queue.ts`, `modules/work_items.py`, `data_ops_store.py`) | versioned rows, minted ids; boards and held writes | create, move, delete, hold, replay, load | compare-and-swap between processes; placeholder ids; replays |
| Fill pricing (`risk_proxy/execution.py`, `positions.py`) | average price, fees, realized P&L | taker and maker fills | floating point |
| Native decision core (`native/decision_core/`, `risk_proxy/native_core.py`) | mirror of the positions | synchronise, decide | a missed synchronisation |
| Market data (`modules/tca_engine/`) | an L2 book per venue and symbol, feed states | snapshot, delta, reconnect, synthetic fallback | sequence gaps, staleness |
| Job queue (`modules/jobs.py`, `celery_tasks.py`) | job records, a thread pool or Celery | submit, retry, poll, shutdown | retries, records that never end |
| Worker pool (`modules/backend_runtime.py`) | capacity permits, counters | admit, run, time out, cancel | a deadline while the thread runs |
| Latest-state feed (`modules/latest_state_stream.py`) | topics, consumers, size-one queues | subscribe, produce, consume, leave | last one out against first one in |
| Schedulers, data quality, on-call | schedules, runs, incidents | fire, record, escalate | duplicate or missed runs |
| Supabase mirror (`modules/supabase_mirror.py`) | bounded queue | enqueue, post with retries, stop | at-least-once, drops |
| Telegram bot (`modules/telegram/`) | sessions, link tokens, confirmations | command, link, confirm | single use |
| Web sessions and preferences, workspace state | tokens, saved settings, URL state | sign in, save, merge | last writer |
| Research retrieval, coherence recorder, numerics, research engines, presentation, deployment | – | – | I/O, ranking, floating point, rendering |

How they meet. The order path calls the risk gateway's endpoints and polls its working
book; the desk reads poll the same gateway and are woken by its event stream; the audit
trail is what the gateway's handlers queue, and the session ledger what its rows and
boundaries say after a restart. The provider registry spends a quota and obeys outages
that the operations ledger carries between instances. The work queue has its own table.

The properties that make the modelled components correct are in sections 3 and 4; the full
list of what is hard to test, each at its line, is `hazards` in `PROJECT.json`.

## 2. Plan

Most important behaviour first: what the desk may trade, then what it remembers, then what
it records, then what a trader sees of it and asks of it, then the services around it.

Done:

1. `RiskGateway` with its abstract specification `ExposureDesk`.
2. `SessionLedger`.
3. `AuditTrail`.
4. `OrderEntry`, `DeskReads`, `LiveBook`: the desk in the browser.
5. `ProviderDispatch` and `OpsSync`, which carries its spends and outages.
6. `WorkItems`, both halves of the work queue, with its abstract specification
   `VersionedTable`.
7. Theorems about each of them, in the module of its name with `Proofs`; those about
   `LiveBook` and `DeskReads` share `BrowserProofs`.

Each component module has an `MC` module of its name with the instances of its runs.

Left:

- Modules: `WorkerPool` (permits, deadlines, cancellation), `LatestState` (topics and
  producers), `JobQueue` (retries, Celery polling, shutdown), `PositionMirror` (native core
  synchronisation), `FeedBook` (delta gaps, reconnect, synthetic fallback), `MirrorQueue`
  (Supabase delivery against an abstract at-least-once sink), `ClientIds` (the idempotency
  window across reset and restart), the web sessions and preferences.
- Abstract specifications: an account credited once per fill, implemented by
  `SessionLedger`; a log written at most once per row, implemented by `AuditTrail`.
- Theorems: the refinements of the abstract specifications above.

## 3. The modules

### 3.1 RiskGateway

One action per critical section. A handler that suspends is two actions, with what it
remembers across the await in a variable of its own.

| Variable | Code |
|---|---|
| `outcome` | the status of each order's decision; `NEW` before its id is drawn |
| `working` | `self.working`, `WorkingOrderState` records |
| `held`, `mark` | `positions[s].quantity` in lots, `mark(s)` |
| `killActive`, `halted`, `override` | `KillSwitch`, the reduce-only override |
| `budget` | where `daily_drawdown_pct()` stands: under the reduce-only threshold, between it and the limit, at the limit |
| `today`, `session` | the UTC date, `session_date` |
| `auditUp` | whether a strict audit write would succeed |
| `settling`, `sweepSettling` | submits and a sweep that have drained and not yet read the drawdown |
| `replacing` | replaces between the cancel and the resubmission |

| Action | Handler |
|---|---|
| `Submit` → `Enter` → `Refuse`, `Take`, `Lapse`, `Rest` | `submit`'s locked section, the due session roll included |
| `Settle`, `SettleSweep` | the breaker at the end of `submit` and `sweep_working_orders` |
| `Sweep` | `sweep_working_orders`: roll, pull under reduce-only, fill |
| `CancelWorking` | `cancel_working` |
| `ReplaceBegin`, `ReplaceFinish`, `ReplaceAborts` | `replace_working` before and after its drain |
| `TriggerKill`, `HaltSymbol`, `ReleaseKill`, `ResumeSymbol`, `SetReduceOnly`, `ResetBook` | the operator endpoints |
| `MonitorTick` (`Roll`, `Breaker`) | `_monitor_loop` |
| `MarketMoves`, `Midnight`, `AuditChanges` | the environment |

Abstractions. Quantities are whole lots and a side's resting quantity is the cardinality
of its lots, which is the sum the code computes and lets the proofs use the finite-set
library. A limit price is reduced to whether the touch crosses it, which the model leaves
free. Gates that read only the order (duplicate id, rate, whitelist, price, band,
slippage, a limit order's own notional) may refuse anything at any time: `Refuse` has no
guard. P&L is not computed: any step that moves money may move `budget` anywhere. A taker
fill may differ from its order by up to `MaxFillDrift` lots, because the order is converted
to notional at the reference price and back at the routed price. The sweep's own DAY
expiry is covered by the roll that precedes it. The opening mark of `Init` stands for a
start on a clean day; a restart is the subject of `SessionLedger`.

`ExposureDesk` is the promise with no orders, handlers or sessions: per symbol a position
and the lots committed on each side. A desk commits or trades only where it is not stopped
and within its cap, and only committed lots fill later. `RiskGateway!RefinesDesk`
substitutes the resting quantities for the commitments and shows every gateway step to be
a desk step or a stutter.

### 3.2 SessionLedger

The store's rows and the account in memory, with crashes and restarts between any two
steps. An account is the set of fills in this session's realized P&L (`book`) and the set
banked by closed sessions (`banked`), so counting a fill twice or losing it is visible,
which sums of money would hide. `overnight` and `marked` say whether equity and the
baseline hold the opening mark of carried positions. `Roll` writes the rollover and moves
memory in one step: a crash in between is a crash after it, since memory dies anyway, and
a failed write moves nothing. Rows of fills are written later (`WriteRow`), may fail
(`DropRow`) and are lost in a crash. `Restorable` is the store's refusal to order ties.

Midnight may fall between the two readings a submit takes, and a sweep may nudge a stamp past
it: such a fill lies on another day than the session that counted it, and the history
variable `astray` has it, so that `ReplayIsBook` and `CountedOnce` can except that one fill
and speak of all others in the same behaviour (section 5). The constant `CoarseClock` says
whether two handlers may read the same microsecond, or a reading still behind a stamp a sweep
nudged forward. The code allows it, it is rare, and it breaks `AlwaysBootable` (section 5); the
run excludes it so that every other hazard is checked alone.

### 3.3 AuditTrail

The deferred queue (`queue`), one drain per handler (`batch`, `doing`), the store (`stored`,
how often each row was written, and `dropped`), the kill switch with its two events and the
graceful stop. A handler queues and takes the whole queue without suspending, then writes
one row per worker thread call. Requests, the sweep, the monitor and `stop` each drain on
their own; `told` is the last event of the switch that the trail holds, and `missed` says
that a later one met a failing store: `record_risk_event` is called in place and `_exec`
swallows and counts the failure (`Record`), as it does for a drain's rows (`dropped`).
`MonitorRolls` queues and does not drain. `Stop` cancels the loops: the row in a thread
finishes, the rest of its batch is gone. Failed rolls are not repeated here: `RiskGateway`
has them.

### 3.4 ProviderDispatch

One process's registry. A dispatch suspends only while it waits for a provider, so the walk
from one provider's answer to the next provider's call is one step.

| Variable | Code |
|---|---|
| `outage` | the operator's simulated outages (`observability/outages.ts`) |
| `breaker` | `BreakerState` per provider; `cooled` is the cooldown having passed |
| `licence`, `used`, `cache` | learned refusals (`licence.ts`), the quota window's count (`quota.ts`), cached answers by capability and pin |
| `req` | each dispatch: asking a provider, served, missing or unserved, and its notes of the chain |
| `incident` | a trip without a closure, as `remediation.ts` pairs the events |
| `base`, `spent`, `streak` | history: what the count was last set to, and the calls begun since by priority; bad answers in a row |

| Action | Handler |
|---|---|
| `Begin` → `Dispatch` → `Walk` | `dispatch`: cache, then the gates of each provider in rank order, up to the first call, which is charged |
| `Settle` → `Serve`, `Charge` | the answer: success is recorded and cached; a failure or a fatal contract breach feeds the breaker, a refusal the licence, "no data" and 429 nothing; then the walk goes on |
| `ProbeProvider`, `SimulateOutage`, `ClearOutage`, `ResetBreaker`, `ResetQuota` | `operator.ts` |
| `CooldownElapses`, `BreakerExpires`, `LicenceExpires`, `CacheLoses`, `WindowRolls` | times to live, evictions, purges, the quota window |
| `HydrateQuota` | `hydrateQuotaLedger`: a sync replaces the count by the gateway's total, whatever that is (`OpsSync` says where it comes from) |

`RouteState` and `ActiveProvider` are the console's drawing of the chain (`status.ts`),
compared with `SkipReason`, what a dispatch would do. Payloads, contracts and adapters are
one of the answers of the constant `Answers`; the retries inside one call (`httpJson`) are
part of the call.

### 3.5 OpsSync

Several instances, one provider and one quota window. `pend` is what an instance has queued,
`flight` the batch it pushed and the reply on its way, `count` its own quota counter, `held`
its outage registry, `overlay` the merged view it shows, `total` and `gout` the gateway's
side. `made`, `credited`, `last` and `acting` are history.

| Action | Code |
|---|---|
| `Poll`, and the sync inside every command (`SyncOrJoin`) | `syncSharedOpsState`: drain the queue into a push, or join the push in flight |
| `GatewaySyncs` | `WebOpsState.sync`: merge resets, spends, sets, then clears; answer the merged view |
| `Install` | `applySharedOpsState`, `hydrateQuotaLedger`: the merged view replaces overlay and count; a window it does not name is left alone |
| `PushFails` | the push is lost before or after the merge; `restore` puts the batch back under what was queued since |
| `GatewayRestarts` | the merged state is memory |
| `Spend`, `SimulateOutage`, `ClearOutage`, `ResetQuota`, `OutageExpires` | dispatches and the operator |

### 3.6 DeskReads

The book hook and the execution cockpit on one page. A *surface* has a polling loop
(`on`, `timer`, `tick`), the refresh nobody has superseded (`latest`), one a tick still
waits for (`old`), and the source machine (`machine`) that decides what is shown. The
requests (`probe`) are shared: a refresh joins what is in flight. `source`, `pushed`,
`store` and `loop` are the page's event stream, from the browser's `EventSource` over the proxy to
the gateway's numbered pushes.

| Action | Code |
|---|---|
| `TimerFires`, `Press`, `Signal`, `Choose` | the loop's `fire`, Retry and Refresh, a push that moved the number, Live against the generated desk |
| `GatewayReads`, `BookArrives`, `BookTimesOut`, `AuditArrives` | `probeGateway` with its deadline, or a connection that breaks, before the headers; a settled request ends every refresh that has all it asked for |
| `StartLoop`, `StopLoop` | the effects of `usePolling` and `useStreamedRefresh`, the last subscriber closing the stream |
| `StreamTick`, `StreamOpens`, `StreamRefused`, `StreamDrops`, `StreamRotates`, `GatewayPushes` | `use-desk-stream.ts`, the proxy route, `stream_desk` |
| `GatewayChanges`, `HealthChanges`, `PageHides`, `PageReturns` | the world |

Timers fire at any time: how long a loop backs off is left out, that it goes on is not.

### 3.7 LiveBook

One venue of either kind: whole books, or a snapshot and numbered deltas. The code runs each
handler to its end, so handlers are functions from a connection record to a connection
record (`Retried`, `Opened`, `Upgraded`, `Received`, `Restarted`), and an action applies one
of them. `conn` holds the supervisor's closure, the ladder and the venue's liveness marks;
`shown` is what the hook last published. A socket has one of two slots and its successor the
other, so that a handler left on a discarded socket would show (`OneWayForward` counts the
attached ones); one that was discarded brings nothing more, since its handlers are detached
and `onmessage` compares the socket (`livebook-socket.ts:258`). `FrameLost` may lose any
frame, a malformed one included (`:308`); a socket that lost one before it had a book is
`bare`. Milliseconds are not counted: a deadline that expires is a step, and one that should
not race is an event that the bound counts. `bare`, `heard` and `books` are history.

### 3.8 OrderEntry

The ticket, the order route, the gateway boundary, the gateway as its handlers promise
(`GatewayDecides`, `GatewayActs`; `RiskGateway` models its gates) and the working-orders
panel. `hop` is where the request the ticket waits for is, `inbound` how many copies of an
order are still on their way to the gateway: a ticket or a route may have given up on one
that then arrives. `Traced` says whether orders carry client ids, which they do only when the
ticket has an experiment.

| Action | Code |
|---|---|
| `Press`, `DecisionArrives`, `FailureArrives`, `ConnectionBreaks`, `BrowserTimesOut` | `OrderTicket.submit`: a burst, one request after another; anything but a good status ends it |
| `VerdictUnread` | a good status whose body breaks off: collected as an empty decision (`blank`), and the burst goes on |
| `RequestLost`, `RouteForwards`, `TransportFails`, `RouteTimesOut` | `orders/route.ts` and `callGateway`: a write is not sent again |
| `GatewayDecides`, `OrderLeaves` | the gateway takes or rejects; the market takes what rests |
| `Click`, `GatewayActs`, `ActReturns` | cancel and amend: two steps at the gateway, the answer, the reload |
| `ActFails`, `ActReturnsBlind` | the answer or the request is lost, or the request never ends, for it has no deadline (`hung`); a good status whose body cannot be read (`blind`) clears the error |
| `Poll`, `GatewayLists`, `ListSettles` | the panel's list, which a reload may join; a list that fails keeps the rows, one whose body is lost empties them |

### 3.9 WorkItems

Both halves of the work queue. A row is its version, the edit whose content it has and the
edit that created it.

| Variable | Code |
|---|---|
| `rows`, `minted` | the table; the highest number handed out (`data_work_item_ids`) |
| `items`, `held`, `load` | per browser: the board, the held writes (`heldRef`), the load under way |
| `wire`, `running`, `replies` | requests no process has taken, handlers between two calls to the store, answers no browser has read |
| `edits`, `applied`, `told`, `misread` | history: what readers meant, what the table took, what a reader was told did not happen by an answer that could be read, and by one that could not |

| Action | Code |
|---|---|
| `SubmitNewItem`, `Move`, `Remove` | `DataWorkBoard`: the screen changes first, then `mutate` sends |
| `EditElsewhere` | readers whose boards are not followed |
| `Take`, then `Add`, `Swap`, `Reread`, `Delete` | `work_items.py`: read, decide, write with the version in the filter, read again |
| `StoreFails`, `Lost`, `Refuse`, `TimeOut` | the store, the route, authorisation, the 6-second deadline, whose request may still arrive |
| `BodyBreaks` | an answer loses its body behind its headers, on the way to the route or to the browser; with a good status the browser takes it for a rejection (`Rejected`) |
| `MutateAnswered` | reconcile, roll back or hold |
| `LoadRead`, `LoadArrives`, `ReplaySend`, `ReplayAnswered`, `Show` | `loadOnce`: the list, the replay of held writes one by one, the board that results |

The initial board is stale: a row it shows has been deleted and its number may not be
minted again. A browser has one load out at a time. Identical abandoned requests merge in
`wire`, which is a set. That `heldRef` follows the state only after a render is not modelled.

`VersionedTable` is the promise with no browsers, processes or calls: numbered cells, the
numbers that ever had a row (`given`), what has been written with the version it quoted
(`written`) and the edits that were refused. A create takes a number never given, an update
quotes the version it replaces, only an edit never written is refused, and then it never is
written. `WorkItems!RefinesTable` substitutes the table's rows for the cells, the applied
writes for `written` and `told` for `refused`: the read that decides, the write and the read
that answers are one step of the table or none, in every try and every replay. What the
table does not promise, because the code does not, is that an edit nobody answered is
written once: its replay quotes a later version, or makes another cell.

## 4. Runs that pass

| Run | Bounds | Properties and what they show |
|---|---|---|
| `exposure` | 1 symbol, 3 orders of 1–2 lots, marks 1–2, drift 1, cap 3, ceiling 2, no midnight | `ConcentrationHolds` for every later fill of what rests; `ReplaceNeverDoubles`; `HaltedDeskRestsNothing` |
| `behaviour` | 1 symbol, 2 orders of 1–2 lots, marks 1–2, drift 1, 1 midnight | `RefinesDesk`; `TerminalOnce`; `NothingOutlivesItsSession`; `BreachEventuallyHalts`, `StaleOrdersLeave` |
| `ledger` | 3 fills, 8 readings over 3 days, at most 2 fills a sweep, `CoarseClock` false | `ReplayIsBook`: replay equals what was recorded, and `CountedOnce`, each but for a fill itself stamped across midnight; `CarryIsDurable`; `AlwaysBootable`: no tie is ever stored |
| `audit_trail` | 2 orders, 2 requests, 1 trip | `RowsAccounted`: every row in exactly one place, one outcome per order; `HaltIsTold`: no halt unrecorded but by a failed write of its own row; `QueueIsDrained` |
| `providers` | a metered provider that answers in every way and a keyless one that has the data or not, 1 capability, 1 pin, 2 dispatches, threshold 2, allowance 2, reserve 1, totals to 2 | `AllowanceHolds`; `AnswersAreTrusted`; `BadAnswersTrip`; `GraphIsTheWalk` |
| `ops_sync` | 2 instances, 1 spend each, 2 commands, 1 lost push | `SpendsAccounted`; `NewestIsQueued`: nothing overtaken but a clear of all beside a newer set; `SnapshotReflects`; `FleetConverges` |
| `desk_reads` | book hook and cockpit, streak 2, 1 change of the book, 1 event | `LoopsStayAlive`; `NeverBackwards`; `DeskCatchesUp`; `StreamReturns` |
| `live_book` | both kinds of venue, numbers to 5, promotion 2, backoff 3, 4 events | `OneWayForward`; `PricedBookIsWhole`: no holes but a snapshot that socket lost; `BackoffSurvivesFlapping`; `VenueComesBack` |
| `order_entry` | 2 presses, bursts of 1 or 2, 2 cancels or amendments, 3 clicks together, 1 event, no client ids | `AcceptedOnce`; `DoubtIsShown` and `LossIsSaid`, but for a good answer whose body is lost; `PanelCatchesUp`, but for the row of a request that never ends |
| `work_items` | 1 followed reader and the others, 2 gateway processes, 2 edits, 1 fault, 5 ids | `RefinesTable`; `OneWinner`; `LandsWhereAimed`; `RefusedMeansUnsaved`: but for a good answer whose body is lost; `QueueSettles` |

Why the bounds suffice. The concentration argument is about two orders on one side and a
third that arrives, is replaced or fills: three orders, and two lots so that a partial book
differs from the whole one. One midnight with a handler suspended across it is the session
hazard; three days in the ledger let a restart miss a boundary altogether. Two fills make a
tie, the third lies on the other side of a reset or a roll. Two requests and three
background drains interleave pairwise. Two dispatches meet in one allowance of two, with a
chain that has somewhere to go on to and a threshold that one failure does not reach. Two
instances are one that acts and one that only hears of it. An *event* is a fault or a
gesture of the reader that the code does not make by itself; one of them at every point of
the read, submit and list protocols is what those handlers guard against, and the live book,
whose hazards are sequences of faults, has four. Two edits race for a row, or the second
lands on what the first left behind, and one fault between any two calls makes a hold, a
late answer or a half-done handler. The proofs do not need the bounds where they exist.

Symmetry is declared for order ids and symbols (`exposure`), fills (`ledger`) and dispatches
(`providers`), which no definition tells apart; runs with liveness properties declare none.

Bounds named in the models: `Orders`, `MaxQty`, `LastDay`, `MaxFillDrift`; `Fills`,
`LastTime`, `SweepMax`; `MaxHalts`; `MaxStreak`, `Limit`, `MaxTotal`; `MaxSpends`,
`MaxCommands`, `MaxLosses`; `MaxChanges`, `MaxDisturbances`; `LastNumber`, `MaxBackoff`,
`MaxEvents`; `MaxPresses`, `MaxBurst`, `MaxActs`, `MaxClicks`; `MaxEdits`, `MaxFaults`,
`LastId`.

The deadlock check is off where the system really may stop: the ledger's clock ends, the
trail's process stops, and a page of a deployment without a gateway falls silent
(`desk_reads`).

Fairness, and why the code justifies it:

- `RiskGateway!FairSpec`: weak fairness of `MonitorTick` alone. The monitor task runs for
  the life of the process and each tick's body is guarded against every error. Nothing is
  assumed of clients, operators, the sweep or the market.
- `AuditTrail!FairSpec`: the sweep, whose loop is guarded the same way, and each drain's
  writes, since a worker thread finishes.
- `OpsSync!FairSpec`: the console polls, and a push is answered or times out.
- `DeskReads!PageFairSpec`: requests settle within their deadline (`probeGateway`), timers fire
  while the page is looked at, effects run, and the stream's handshake ends, in its deadline
  if nothing else.
- `LiveBook!FairSpec`: frames arrive, upgrades end, the supervisor's timers fire and a venue
  that has books sends them. Nothing is assumed of the stability timer.
- `OrderEntry!FairSpec`: handlers run, the ticket's deadline fires, the gateway answers, the
  panel polls. An action's answer comes back unless its request hangs, which nothing ends.
- `WorkItems!FairSpec`: while a handler can go on, a free process can take a request or an
  answer can be read, one of these happens (one weak fairness of `Working`: nothing is said
  of which); a load under way goes on; and the poll of an open tab keeps loading, which is
  strong fairness because edits keep interrupting it.

## 5. Runs that fail: where the code and its words disagree

| Run | Property | What happens |
|---|---|---|
| `gross_resting` | `GrossCapHolds` | resting orders of other symbols are not in the gross projection |
| `order_retry` | `RetryIsSafe` | the retry the ticket calls safe carries another client id, so the gateway cannot know it |

Both are quoted with their lines under `findings` in `PROJECT.json`. What modelling showed
besides, without a run of its own:

Gateway.

- Two resting closes, each no larger than the holding, flip a position under reduce-only
  together: the check of `decision.py` sees the holding, not the closes that rest.
- `submit` discards the distinct stamp it asks for; with a clock that repeats a reading two
  fills tie and the next restart refuses (`CoarseClock = TRUE` breaks `AlwaysBootable`).
  The constant is false in the run so that every other hazard is checked alone.
- A fill whose submit rolls the session before midnight and reads `decided_at` after it
  (`decision.py:264`), or that a sweep nudges past midnight, lies in the wrong session's rows:
  that session banks it, a restart on the next day replays it as the new session's, and it
  counts twice; a reset after midnight may leave it standing. It is the only fill that does
  (`astray` in `ReplayIsBook` and `CountedOnce`).
- A graceful stop (`gateway.py:185`) loses rows the monitor's roll has queued and rows of a
  cancelled drain. A resume during the halt's drain is recorded before the halt; the trail
  then ends in "engaged" although the switch is off. The other way round needs a store that
  failed the last switch row: `_exec` logs and counts it (`store.py:231-234`) and the halt
  goes on unrecorded (`HaltIsTold` has that as its only exception).
- A stream's numbers start again on every connection (`modules/api/risk.py:210`), so a
  client that comes back cannot tell what it missed, as `:190-194` says it can.

Web desk.

- A probe by search deletes the wildcard cache key and then asks under the pinned one, so a
  cached answer can satisfy it (`web/lib/operator.ts:272` against `:247-250`). A half-open
  circuit lets every dispatch through, not "exactly one request" (`breaker.ts:50`); a late
  success of an old call deletes an open record; a circuit that ran out may still be shown
  as an open incident. The quota is charged once for up to three tries (`http-json.ts:63`),
  and a sync may lower the count below what this instance has begun: what it has not merged
  yet, or what a gateway that restarted forgot, is missing (`quota.ts:116-121` calls that
  convergence). The allowance holds from the count the sync left, not over the vendor's
  window.
- A queued clear "must not cancel a newer set" (`ops-ledger.ts:185-191`), but a clear of all
  outages does, since only the provider's own clear is taken out of the batch and the gateway
  applies sets before clears (`web_telemetry.py:220-230`); a clear on one instance never
  removes another's own record; a push whose reply is lost is credited twice; an action that joins a
  sync already in flight answers with the older view (`system/actions/route.ts:70-73`).
- A superseded refresh ends its tick well and so resets the loop's backoff
  (`use-book.ts:162`). A deployment whose gateway was absent when the page opened the stream
  gets no stream until the subscribers change.
- The gap check is off while the sequence is zero (`livebook-socket.ts:298`). When the snapshot
  was lost or malformed, the first delta is applied to an empty ladder and prices orders,
  against "never trust a holed book" (`:299`). `PricedBookIsWhole` excepts a socket that lost a
  frame before it had a book; of every other socket a whole book is demanded.
- A good status whose body cannot be read is taken for an answer in four places. The ticket
  collects an empty decision, goes on with the burst and shows the order as rejected although
  the gateway may have accepted it (`OrderTicket.tsx:189-198`, `OrderVerdict.tsx:132`). The
  working-orders panel clears its error, so a replacement that was refused looks like a quiet
  success (`WorkingOrders.tsx:161-186`, against its own comment at 167-172), and its list may come
  back empty until the next poll. The work queue rolls back and says "was not saved" of an edit
  the table took (`data-work-queue.ts:165`, `:200`, `data-work-delete.ts:33`).
  `probeGateway` calls it `ok` with an empty payload (`use-gateway-connection.ts:108`), from
  which the desk's render throws (`app/dashboard/page.tsx:100`) and the page gives way to
  `app/error.tsx`: the model of the desk's reads stops short of a page that is gone. The first three
  are modelled and are named exceptions of `DoubtIsShown`, `LossIsSaid` and
  `RefusedMeansUnsaved`.
- The panel's requests have no deadline (`WorkingOrders.tsx:153`): one that hangs keeps its
  row disabled until another row's action takes the flag. Nor has the work queue's answer
  once its headers are in: `withDeadline` clears its timer then
  (`data-work-queue.ts:92-100`).
- `parseOrder` in `orders/route.ts` drops `time_in_force`. A reply lost after the gateway
  took the order is shown as "did not reach the gateway". One busy flag and one error serve
  every row of the working-orders panel: a second row's success wipes the first's refusal.
- "Nothing here is lost silently" (`use-data-work-queue.ts:25`): a hold added while a replay
  runs is dropped by `setHeld(stillHeld)` (`QueueSettles` counts it as having left); holds
  answered with a conflict, a refusal or a missing row go without a notice; a held create is
  posted again after a lost reply and makes a second row; a placeholder id may be another
  reader's row, so that moving the placeholder moves that row; a rollback may restore a row
  that was never confirmed. A delete between the write and the read of
  `work_items.py:204-206` and `243-244` ends in a 500.

## 6. Proofs

`RiskGatewayProofs` proves, from `BoundsAssumption` alone and for every set of symbols and
orders (infinite ones included):

- `TypeCorrect`: `Spec => []TypeOK`. The book's finiteness is part of `TypeOK`; all
  counting rests on it.
- `HaltIsComplete` (`HaltedDeskRestsNothing`), `SessionsAreClean`
  (`NothingOutlivesItsSession`): inductive with `TypeOK`.
- `CeilingHolds` (`WorkingBookBounded`): inductive with `TypeOK`, by cardinality of the book.
- `ConcentrationIsInvariant`: `ConcentrationHolds`, inductive with `TypeOK`.

The concentration proof. For one symbol let `h` be the position and `b`, `f` the lots
resting to buy and sell. The larger of `|h + b|` and `|h - f|` is within a limit exactly
when `h + b` and `f - h` are (`WorstIsTheEnds`), and a set of orders fills some `x <= b`
and `y <= f` of them, which keeps both ends where they were or nearer (`PartQty`,
`ConcentrationSweeps`). A new resting order moves one end only, the one its gate bounds
(`ConcentrationRests`); the other end does not move, so no symmetric argument is needed. A
taker moves both, its gate bounds both, and its drift is the slack of the statement
(`ConcentrationTakes`). Everything else thins the book (`ConcentrationThins`). The cap in
dollars becomes a cap in lots through the lowest mark (`CapInLots`, `GateInLots`): the gate
holds at the mark of the day it was checked, the invariant at every later one.

The same module continues with the life of an order and the refinement:

- `BookAgrees`: `BookMatchesOutcomes`, inductive with `TypeOK`.
- `OutcomesAreFinal`: the action property `TerminalOnce`, from `BookAgrees`.
- `ReplacesNeverDouble`: `ReplaceNeverDoubles`, inductive with the two before: the original
  stays cancelled because outcomes are final, and a second replace of it would need it
  resting.
- `HaltedPositionsAreSafe`: the action property `HaltedPositionsStand`, from
  `HaltIsComplete`: the sweep moves a position only through what rests, and nothing does.

Every handler that takes orders off the book (roll, kill, halt, cancel, replace, sweep,
reset) is one case of `Retires`, which keeps book and outcomes in agreement once and for
all (`RetiresKeeps`); a sweep is three of them in a row. What is left is the order that
enters (`EnterKeeps`). A side's quantity is a cardinality, so the lemmas on it
(`LotsFinite`, `QtyWith`, `QtyWithout`) come from `FiniteSetTheorems` instead of an
induction on a sum.

- `GatewayImplementsDesk`: the refinement `RefinesDesk`. A step that changes what is halted
  leaves every position and either halts more while the book thins or halts less and leaves
  the book (`ControlStep`), which is the desk's stop or resume. Of the others a book that
  thins withdraws (`ThinsWithdraws`), an order that rests commits, a taker trades, and a
  sweep fills in every symbol at once only lots that were committed (`SweepSettles`).
  `ConcentrationHolds` and `HaltedDeskRestsNothing` supply the desk's guards.

`TypeOK`, `WorkingBookBounded`, `BookMatchesOutcomes` and `HaltedPositionsStand` are proved and
not listed by a run: the listed properties rest on the first three, and a desk that acts only
where it is not stopped is part of `RefinesDesk`.

`SessionLedgerProofs` assumes `~CoarseClock` throughout, because the code needs it. From it
(no two handlers read the same microsecond, no reading falls behind a nudged stamp) follow
`GatewayAlwaysBoots` (`AlwaysBootable`) and `CarryAlwaysDurable` (`CarryIsDurable`); the
invariant is `StoreInv`: rollovers name the day they are stamped with and there is one a day
(`Dated`), rows never tie with each other or with a reset (`Untied`), and the carry in
memory is the one a restart would read (`CarryKept`). `ReplayAlwaysIsBook` (`ReplayIsBook`)
and `FillsCountOnce` (`CountedOnce`) have the same hypothesis, and hold however handlers
straddle midnight: their invariant `LedgerInv` adds that a fill has one row or was lost
(`OneRow`) and, of every fill not `astray`, that the live session's book is exactly what its
day's rows after the last reset say (`Booked`), and that what a reset wiped no later restart
can read (`WipedGone`). Without the hypothesis two rows may tie and `AlwaysBootable` is
false (section 5); TLC has the counterexample.

`AuditTrailProofs` proves, for every finite set of orders and requests and any number of
trips, `RowsAreAccounted` (`RowsAccounted`) and `HaltsAreTold` (`HaltIsTold`). `RowsAccounted`
says of a row how many places it has; the invariant says it of the places: queue, batches,
store and dropped share no row and none holds one twice (`Apart`), and together they hold
exactly what the orders have produced (`Complete`; only at most that once the stop has given
rows up). Rows a handler queues are new because an order has its outcome only once it is off
the book (`Retiring`). So a drain is one lemma (`Drained`) and a write at once another
(`Settling`). `RetireMany` is what `RetireAll` lists, through the bijection behind
`SetToSeq`.

`OrderEntryProofs` proves `OrdersAreAcceptedOnce` (`AcceptedOnce`), `DoubtIsAlwaysShown`
(`DoubtIsShown`) and `LossIsAlwaysSaid` (`LossIsSaid`). An order has one request on its way
or one acceptance, never both, and neither before the ticket has reached it (`OnceOk`); so a
late copy can only be the acceptance itself. What the gateway has of the burst is on screen,
or was collected blank, but for the order the ticket waits for (`ShownOk`), and whatever has
rested is recognisable for ever (`RestedBy`), so that what an amendment pulled does not come
back (`GoneOk`).

`ProviderDispatchProofs` proves `NoAllowanceOverspent` (`AllowanceHolds`),
`TrustedAnswersOnly` (`AnswersAreTrusted`), `BadAnswersAlwaysTrip` (`BadAnswersTrip`) and
`GraphAlwaysIsTheWalk` (`GraphIsTheWalk`), from `RegistryInvariant`: the counter is what it
was last set to and the calls begun since, by priority (`LedgerOk`), and the breaker's count
is the streak, with an open circuit at the threshold and an incident for it (`CircuitOk`).
Every action that touches a provider ends in the same walk along the chain, which is one
lemma (`WalkStep`). That the first clear rank exists is well-founded induction on the
library's order of the naturals (`MinIs`).

`OpsSyncProofs` proves, for every set of instances and every bound, `LedgerIsGood` and from
it `NoSpendIsLost` (`SpendsAccounted`), `OvertakenIsDropped` (`NewestIsQueued`) and the
action property `SnapshotsReflect` (`SnapshotReflects`). The properties are not inductive:
what a failed push will restore is in the flight, so the invariant says of an instance, in
three parts, that its spends are in the queue, the flight or the gateway's credit
(`SpendsOk`), that neither queue nor flight holds an overtaken command unless a later one in
the queue will drop it, or it is a clear of all with the newer set beside it (`NewestOk`),
and that a flight started by a command carries it (`ActingOk`). Instances touch nothing of
each other's (`OthersKeep`), so each action is proved for the one instance that takes it.

`BrowserProofs` proves, for every numbering, promotion threshold and backoff,
`LiveInvariant` and from it `OneWayForwardAlways` (`OneWayForward`), `PricedBookAlwaysWhole`
(`PricedBookIsWhole`) and the action property `FlappingKeepsBackoff`
(`BackoffSurvivesFlapping`). Handlers are functions from a connection to a connection, so
the proof is that each takes a sound one to a sound one (`Sound`: a discarded socket is
silent, the current one has its deadline and, once it has brought a book, the ladder is that
book, and whole unless the socket is `bare`) and never lets the liveness mark run ahead of
the books the venue has sent (`Earned`).

The second half of `BrowserProofs` is about the desk's reads, for any number of surfaces and
of changes of the book and any streak: `LoopsAlwaysStayAlive` (`LoopsStayAlive`) and the
action property `BooksNeverGoBackwards` (`NeverBackwards`), from `PageIsCoherent`. Neither
property is inductive. A surface does not go back because what it shows is no newer than the
book its refresh waits to hand on (a cockpit waits for the audit feeds with the book in its
hands), that no newer than the answer on its way, and that no newer than the gateway's
(`OrderOk`, `ProbeOk`): requests are shared, so there is one answer on its way and no older
one behind it. A loop lives because its tick waits for a refresh, and a refresh waits for
nothing that is not asked (`LoopsOk`); a superseded refresh keeps what its tick waits for. The
stream's half needs that the connection belongs to the loop and the loop to somebody who
subscribes (`StreamOk`: the first to join finds no connection, the last to leave closes it),
and that a connection numbers each version of the book at most once (`PushedOk`). One lemma
says what a settled request does to every surface at once (`SettleKeeps`), one what asking
does (`AskKeeps`).

`WorkItemsProofs` proves, for every number of readers, processes, edits, faults and ids,
from `SizesAssumption` (which also keeps the name of a direct write, "mutate", apart from
the loads'), `QueueIsGood` and from it `SwapsHaveOneWinner` (`OneWinner`) and
`EditsLandWhereAimed` (`LandsWhereAimed`). The invariant has three parts: the table's (every
write the table took is of an edit made, a move it took quoted a version below the row's,
and no two moves of a row took the same version), the gateway's (what handlers, requests and
answers carry was aimed at ids minted before) and the desk's (so do boards, holds and
loads). What a row's creator is may only grow (`Origins`), so everything aimed at a row
keeps meaning it; `PartsStand` is the frame lemma for the steps that leave a part alone, and
every write to the table is one case of `WriteKeepsTable`.

`RefusedIsUnsaved` (`RefusedMeansUnsaved`) is proved there too, with an invariant of its own.
A request, a running handler and an unread answer are the three forms of one token, and a
sender whose request is live has one token out (`OneAsk`). A first try is therefore alone in
knowing its edit until it is answered (`FirstTries`), and once its answer says no, nothing is
left that could write the edit: no token, no hold, no load still replaying it (`Ended`).
That is why the code may roll the screen back on a refusal and must hold on a silence. Of an
edit told refused by a good answer without a body the theorem says the opposite: the table
had taken it.
`Counted` is what the shape bounds.

`QueueImplementsTable` is the refinement `RefinesTable`, from both invariants. Only `Add`,
`Swap` and `Delete` write (`StepWrites`), and each is one step of the table: a number being
added is its handler's own and nothing was written under it (`AddCreates`, from `RunningOk`);
a swap that matches replaces the version its request carries (`SwapUpdates`); a delete finds
its row (`DeleteDeletes`). None of them writes for an edit that was refused, since a refused
edit has no token left (`HandlersMayWrite`, from `Ended`). What was written keeps the version
it quoted whatever is asked later (`ClaimsStand`), and a notice that an edit failed finds it
unwritten.

Only model-checked: every liveness property (outside the prover's reach, as is `ENABLED`):
`BreachEventuallyHalts`, `StaleOrdersLeave`, `QueueIsDrained`, `FleetConverges`, `DeskCatchesUp`,
`StreamReturns`, `VenueComesBack`, `PanelCatchesUp`, `QueueSettles`; and the two
disagreements of section 5, which are counterexamples and need no proof.

## 7. Not modelled

Listed per component in `PROJECT.json`. In short:

- Money and floating point (prices, fees, percentages, the native core's arithmetic, the
  numerical libraries and research engines), SQL and the store's own locking, HTTP,
  authentication, rendering, deployment.
- Services of the plan that are left (section 2): the worker pool's permits, whose deadline
  fires while the thread still runs; the job queue's retries and shutdown; the latest-state
  topics; the native position mirror; the feeds' own books and supervision; the Supabase
  mirror's queue; the window of known client ids across a reset or a restart. Their hazards
  are known, and no property here speaks of them. Neither does any of two arithmetic corners
  of the gateway: a non-positive start-of-day equity (`accounting.py:54`) and the counter of
  accepted orders, raised both when an order rests and when it fills
  (`working_control.py:74`).
- In the modelled web components: latency samples, contract findings and the quarantine;
  the merge of several venues and the numbers in a book; equity history; field parsing; the
  order and filters of the work board, its source pill and its streak; how long anything
  backs off.
