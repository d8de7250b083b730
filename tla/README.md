# TLA+ verification of tpt-erp-rust

The repository is a toolkit of Rust crates for event-sourced business software
(`crates/tpt-erp-*`) and a set of reference applications built on it
(`examples/*`). Its core logic is the state the applications keep under
concurrent callers: stock that must not be sold twice, books that must balance,
an event log that must survive a crash, requests that must stay with their
tenant. This directory models that logic in TLA+, checks it with TLC on small
instances and proves part of it with TLAPS for every instance.

## 1. Inventory

| Component | State it keeps | Operations | What is hard | What makes it correct | Module |
|---|---|---|---|---|---|
| OMS reservation engine (`examples/oms/src/reservation.rs`) | per-shard states and events under one lock, the expiry index under another, a session cache | `receive`, `return_stock`, `reserve`, `reserve_or_backorder`, `confirm`, `release`, `sweep_expired`, `fulfill_backorders` | each call is several critical sections and awaits; sweeps run inside other calls; the cache may fail | no unit is promised twice; the log replays to the live state; holds live as promised; calls return | `Reservation` |
| OMS checkout, saga, returns | holds, bills and refunds of an order | `checkout`, `run`, `fulfill_backorders`, `refund`, RMA transitions | a step fails after others succeeded; compensation is itself partial; holds lapse, books close in between | nothing promised twice but where calls cross, no hold left behind by a compensated call, an RMA restocks once, bills match what was committed | `OrderSaga` |
| Ledger crate: stores | in-memory log with versions, its mirror in Postgres, a failure counter | `append`, `append_versioned`, `append_async`, `load`, `stream` | acknowledged before mirrored; crash and reload | what is acknowledged is durable or counted | `DurableStore` |
| Ledger crate: outbox | rows staged, rows sent | `stage`, `fetch_pending`, `mark_delivered`, `run_once`, `run_forever` | redelivery, head of line, two relays | every row delivered, first deliveries in order | `Outbox` |
| Ledger crate: double entry, projections, anomalies; API server | one journal per tenant, a projection, a detector | post, balances, balances in the past, anomalies | a copy folded outside the lock; one-pass statistics | the fold never fails, tenants apart, the past stands | `Accounts`, `LedgerApi` |
| GL journal and close (`journal.rs`, `close.rs`) | shards of accounts with logs and balances, a balance cache, period states | `post`, `post_guarded`, `rebuild`, closing entries, soft close, close, reopen | several shard locks per entry; a cache filled after unlock; close racing posts | debits equal credits, nothing half posted, closed periods reject | `Journal` |
| GL FX, tax, consolidation, reporting | rate tables, rows of entities | `revalue`, `compute`, `consolidate`, `eliminate` | a run over many accounts that stops half way | a rerun continues, refunds cancel charges, eliminations balance | `Revaluation`, `Consolidation` |
| WMS inventory | balances, lots, serials, pallets over one log per item | receive, move, pick, transfer, pallet moves, counts, rebuild | validate, await, append | stock conserved, lots cover the balance, serials resolve | `Inventory` |
| WMS picker paths, TMS routes and fences | none | serpentine, nearest neighbour, 2-opt, point in polygon | heuristics with boundary cases | every stop once, refinement never longer | `Routes` |
| POS | register, points, offline queue, central store | `ring_sale`, `return_sale`, `exchange`, `record_offline`, `sync_to` | every await is a window for another clerk | points are covered, splits exact, captured sales recorded and centrally booked once | `PointOfSale` |
| TMS hours of service | status, duty log | log interval, violations, escalations | two computations of the same clock | they agree; a breach stands until a rest | `HoursOfService` |
| WMS and TMS ingest | buffer, counters | poll, flush, publish | batches at their limit, the bus failing | events leave once, in batches within the limit | `Ingest` |
| TMS dispatch and the plugin runtime and registry | keys, signed plugins, running module, bill | `register_publisher`, `publish`, `fetch`, `load`, `swap_module`, `run` | key rotation, swap, fuel, epoch ticks | only trusted code in the registry, runs that came back billed once, runs end | `PluginHost` |
| MES work in progress, rework, MRP, machines | unit status, rework count, counters | `advance`, `record_defect`, `inspect`, `enter_rework`, `explode`, samples | long legal sequences; a parallel walk | what an inspection finds critical never ships, `enter_rework` is bounded | `ShopFloor` |
| Message bus | per-topic subscribers with bounded channels; NATS consumers | `publish`, `subscribe`, acknowledge | full and closed channels, redelivery | nothing missed while subscribed, everything handled some time | `Bus`, `DurableBus` |
| Caches (memory and Redis) | sessions with expiry, tenant index, views | `create`, `get`, `touch`, `delete`, `delete_for_tenant`, `put`, `invalidate` | several commands per call over Redis; key expiry | an ended session stays ended, invalidation keeps to its scope | `SessionCache`, `RedisCache` |
| Tenant isolation and authentication | request context, pooled connections | the four middlewares, `TenantDb`, `with_rls` | a dropped request leaves a transaction open on a pooled connection | rows stay with the tenant the database layer took; the token decides where no layer reads the headers after it | `TenantScope` |
| Entity repositories and the generated API | a table | create, replace, delete, list with filters and pages | pages that shift under a reader | answers true, only valid data stored | `EntityApi` |
| Order flow over the bus | handlers' state | `run_flow_on` | handlers that take the first message whoever sent it | a flow alone reports its own order and returns | `Flow` |
| Primitives: money | none | `Money::allocate`, weighted split | rounding | the parts add up | `Money` |
| Macros' parsing, audit fields, CLI, observability, front ends, demos, deployment | none that outlives a call | code generation, rendering | - | - | none |

The applications call one another in process: the saga calls the reservation
engine and the journal; POS and WMS call the ledger's event store; the ingest
workers publish on the bus; the flow example chains OMS, WMS, TMS and GL through
bus topics. Callers are Tokio tasks on a multi-threaded runtime, so two calls
interleave wherever no lock is held.

`PROJECT.json` lists under `hazards` what can go wrong in this code and no test
would easily reach, at its line, with the property that watches it, or why none
does.

## 2. Plan

The order puts first what loses goods or money silently.

1. `SkuState`, `Reservation`, `StockPool`: the reservation engine and its
   abstract specification. **Done, proved** (sections 3 and 8).
2. `DurableStore`, `Outbox`, `AtLeastOnce`, `LedgerDelivery`: event store,
   outbox, relays, and the composition. **Done, proved** (sections 4 and 8).
3. `Accounts`, `Journal`, `Revaluation`, `Consolidation`, `LedgerApi`: the books.
   **Done, model-checked and proved** (sections 5 and 8).
4. `Inventory`, `Routes`, `HoursOfService`, `Money`, `PointOfSale`, `OrderSaga`:
   trade. **Done, model-checked; all but `Routes` proved** (sections 6 and 8).
5. `SessionCache`, `RedisCache`, `TenantScope`, `EntityApi`, `Ingest`,
   `ShopFloor`, `Bus`, `DurableBus`, `Flow`, `PluginHost`: the platform.
   **Done, model-checked; `TenantScope`, `SessionCache`, `RedisCache` and
   `EntityApi` proved** (sections 7 and 8).
6. Left: proofs about `Routes` and `DurableBus`'s redelivery; the composition of
   `OrderSaga` with `Reservation` itself instead of with the engine's critical
   sections restated.

Modules that carry theorems use no recursive operator; parameters are
constants with named assumptions; each operation, or each critical section of
it, is one action; invariants are conjunctions of named parts.

The modules of 3 to 5 describe independent components, so three runs check
them: `books`, `trade` and `platform`. Each starts by choosing a `part`, which is
the component that runs; the others stay in their initial states. A run's
state count is the sum, never the product, of its parts', and every property
is checked over every part. No fair action of any part is enabled in that
part's initial state, so the fairness of the parts that stay asks nothing.
`stores` and `outboxes` choose between two instances of one module in the same
way (`kind`).

Every property these runs name is a conjunction of two to eight named
statements about one component; the statements are defined and explained,
one by one, in the component's module. The tables of sections 5 to 7 list them.

## 3. The reservation engine

### Modules

- `SkuState` is the data: one SKU's state, the changes the engine makes to it,
  the events, and `Project`, the fold step of `ReservationProjection`. A map
  from hold ids to quantities is a function into `Nat` with 0 for "no entry";
  quantities asked for are positive.
- `Reservation` is the engine. `live` is `Shard::states`; `replayed` is what
  folding the shard's event store gives; `expiresAt`, `expiryIndex`,
  `cachedHold` and `cachedOnHand` are the four places that know about a hold's
  deadline or a SKU's total; `pc` and `loc` are the callers. One action is one
  critical section or one cache call, in the code's order:

| Code | Actions |
|---|---|
| `receive`, `return_stock` | `Receive` / `ReturnStock`, `ReadOnHand`, `PutOnHand` |
| `sweep_expired` (also the head of the two reserve calls) | `StartSweep`, `Scan` per shard, `CheckCandidate` per hold (`is_expired`), `Evict` or `EvictNothing`, `Unindex`, `Uncache`, `SweepDone` |
| `reserve` | sweep, then `Alloc` or `InsufficientStock`, `IndexHold`, `MirrorHold` |
| `reserve_or_backorder` | sweep, then `Peek`, `Place`, `Short`, `IndexHold`, `MirrorHold` |
| `fulfill_backorders` | `StartFulfill`, then `Pick` and `Fill` per backorder, `NothingToPick` |
| `confirm`, `release` | `Confirm` / `Release`, `Unindex`, `Uncache` |
| the clock | `Tick` |

- `StockPool` is what the engine promises: units are free, promised to a hold,
  or shipped; an identity is promised units once. `Reservation` implements it
  (`PoolRefinement`) under `free <- Available`, `promised <- holds`,
  `shipped <- committed`, `used <- issued`.
- `MCReservation` adds the symmetry sets; its `.cfg` files are the runs.
- `ReservationProof` holds the proofs.

### Abstractions

- A SKU stands for its shard. Shard locks are taken one at a time, so two SKUs
  sharing a lock only removes interleavings.
- The event log appears as the state its replay gives. A separate sequence
  would add nothing the properties tell apart.
- The deadline of a hold (`SkuState::expires_at`, reservation.rs:101) is kept beside
  that state, as `expiresAt`. The projection does not restore it (675-705), and no
  call reads it: sweeps ask the cache or the expiry index. `ReplayMatchesLive`
  compares the quantities and the ids.
- Bus publications, released job handles and logging are left out: no state of
  the engine depends on them.
- `confirm` or `release` of an unknown hold returns an error and changes
  nothing, so it is a stutter. Callers confirm or release only holds returned
  to some call.
- `as u32` on an `i64` is kept, as truncation modulo `WordSize`, 2^32 in the
  program and 16 in the runs: larger than any quantity in them, so a negative
  availability wraps to more than anything asked for, as it does in Rust.
- A cache call that fails has no effect on the cache. `is_expired` reads a
  failed lookup as a miss, which is modelled.

### Bounds

`Hold` bounds the identities drawn. A call that could run out of them does not
begin (`InFlight`, `Draws`), so no call is cut short by the bound. `MaxStock`
bounds receipts, `MaxTime` the clock, `Qty` and `Ttl` the arguments. Two
callers are enough for each window between two critical sections to be entered
by another call; quantities 1 and 2 with at most 3 units give requests that
fit, exceed, and fit only together with an expiry; a clock of 2 with lifetimes
of 1 gives holds that are live, due and overdue. `CHECK_DEADLOCK FALSE` appears
only in the runs in which the identities can run out with nothing left to do
(`serial` and the runs that expect a violation).

### Runs

| Run | Question | Result |
|---|---|---|
| `concurrent` | two callers, no cache, all calls but the backorder ones: no overselling, log equals state, due holds cleared, refinement of the stock pool | holds |
| `serial` | one caller, two SKUs, a working cache, every call: placed holds live as long as promised, the expiry index matches them | holds |
| `liveness` | two callers, a cache whose every call may fail: every call returns | holds |
| `oversell` | two concurrent `reserve_or_backorder` calls: the test of availability and the hold are under two locks | `NoOversell` violated |
| `replay_drift` | the event that fills a backorder names the hold where the replay looks for the backorder | `ReplayMatchesLive` violated |

`SweepKeepsPromise`, the stronger promise that a sweep takes no hold before its
time, is false in three ways:

- a hold is in the shard before it is in the expiry index, and a hold with no
  index entry counts as expired: a concurrent sweep releases it at once
  (`MCReservation_fresh_hold_swept.cfg` finds it);
- a hold that fills a backorder is never entered in the index: the next sweep
  releases it;
- a cache error counts as a miss: a sweep during an outage releases live holds.

`PlacedKeepsPromise`, which `serial` checks, is what is left of the promise:
holds that reserve calls placed, one caller, a cache that works.

### Fairness

`FairSpec` asserts weak fairness of `Step(p)` for each caller: Tokio polls a
call that has begun until it returns, and every lock is released after a
bounded critical section. No call is ever obliged to begin, and the clock need
not advance. `CallsReturn` then says a sweep terminates although others keep
placing holds: it works on a snapshot.

## 4. The ledger crate

### Modules

- `DurableStore` is `PostgresEventStore` over `InMemoryEventStore`. `log`,
  `version` and `failures` are a process's memory, `db` the `events` table with
  its primary key (aggregate, sequence). `&mut self` runs one call at a time
  per store, so a node is in at most one call (`pc`, `cur`); an append is
  `AppendEvent` or `AppendVersioned` (the in-memory half, `PushEvent`), then
  `MirrorOk` or `MirrorError` (the write), then, for `append_async` with an
  outbox, `Staged`. `Start` is `new`, `create_table`, `load`; `Reload` is
  `load` on a store in use; `Crash` may fall between the two halves. `Client`s
  read a stream and later append on the version they read, perhaps at another
  process or after a restart.
- `Outbox` is the outbox table and its relays: `StageNow` in memory, `DrawId`
  and `CommitRow`/`AbortRow` in Postgres (a sequence number is drawn before
  the row is visible); `Fetch`, `Publish`, `Mark` and their error forms are
  `OutboxRelay::run_once`, repeated by `run_forever`.
- `AtLeastOnce` is what the outbox promises: accepted rows are sent, first
  deliveries in id order, and settled only after they are sent. `Outbox`
  implements it (`ChannelRefinement`) with the in-memory table.
- `LedgerDelivery` composes the two: `append_async` stages its event after its
  mirror write, by another statement.
- `MCDurableStore` and `MCOutbox` instantiate their component twice, once by
  EXTENDS and once by INSTANCE (`Own`, `Pg`), and run one of the two;
  `MCLedgerDelivery` adds symmetry sets. `DurableStoreProof` holds the proofs
  of the store, alone and with an outbox attached, `OutboxProof` those of the outbox.

### Abstractions

- The synchronous and asynchronous forms of an operation take the same steps
  and are one action, save where they differ: only `append_async` stages.
- A write that reports an error, or that is under way when the process dies,
  may have reached the table or not. The same holds for a publication and for
  a mark.
- `ORDER BY sequence` does not order rows of different aggregates with the same
  number: `Load` takes any order the query allows.
- A relay's batch is the set of ids it has yet to deal with, worked from the
  smallest up, as `fetch_pending` orders them.
- Event payloads, correlation data and JSON are left out.
- `Poison` messages stand for rows the bus refuses every time (a payload over
  the broker's limit). The runs have none: see the counterexamples below.

### Bounds

An event is appended and a message staged at most once, so `Ev` and `Msg` bound
the histories; `MaxLog` bounds how much `Reload` duplicates (0 switches it
off), `MaxCrash` the crashes, `MaxId` the sequence numbers. Three events are
enough for a gap, a renumbering and an append that builds on it; two crashes
for a crash during the recovery from a crash; batches of two with three or four
rows for a pass to leave rows behind and to fail in its middle. Deadlock is off
where the ids run out: an outbox with nothing pending has nothing left to do.
`stores`, where clients can always read again, checks it.

### Runs

| Run | Question | Result |
|---|---|---|
| `stores`, shared table | two processes, a crash, failed writes, hydration of a store in use: numbers without gaps (`Contiguous`), accepted versioned appends in the table (`VersionedDurable`), every event of `append` that is only in memory is counted (`FailuresCounted`) | holds |
| `stores`, own table | one process, two crashes, no failed write: what was answered is in the table (`AnsweredSurvives`), memory and table agree (`TableIsMirror`), guarded appends extend what was read (`ExtendsWhatWasRead`) | holds |
| `outboxes`, memory | two relays that die, a bus that fails: first deliveries in id order, refinement of the channel, every row is delivered some time | holds |
| `outboxes`, Postgres | concurrent inserts, one relay, every failure: every committed row is delivered some time (`CommittedIsDelivered`), a marked row is never sent again (`NoRowTwice`) | holds |
| `delivery_crashes` | store and outbox, crashes, a bus that fails, no failed statement: staged events are in the table, only a crash leaves one unstaged, what `append_async` handed back is delivered | holds |

What the code does not promise, although one might think so:

- after a failed write leaves a gap, `load` numbers the later events
  differently, and an expected version may then match although the stream is
  another one;
- `load` on a store in use appends every row again under new numbers;
- a versioned append whose write fails stays in memory and is counted nowhere;
- hydration interleaves aggregates by sequence, not in the order of appends;
- with Postgres ids become visible in another order than they are drawn, and
  are delivered in it (`Outbox_late_commit.cfg`: `FirstSendInOrder` violated);
- a row the bus refuses ends every pass before the rows behind it;
- a crash between mirror write and staging: the relay never sees the event
  (`MCLedgerDelivery_staged_crash.cfg`);
- `append` with an outbox attached stages nothing, and `append_async` stages an
  event although its mirror write has failed.

### Fairness

`run_forever` starts pass after pass: weak fairness of `Fetch`. An outage of
the bus or of the table ends: `Publish` and `Mark` are strongly fair, since a
failing call takes the relay back to sleep and disables them in between. In
`LedgerDelivery` an append that has begun is polled to its end and a process
that is down is started again (weak fairness); no append is obliged to begin.

## 5. The books (run `books`)

### Modules

- `Accounts` holds the functions of double entry and of the statements:
  `Validates` and `BalancedEntries` (double_entry.rs), kinds and normal sides
  (coa.rs), `TrialBalance`, `NetIncome`, `SheetBalanced` (reporting.rs),
  `ClosingEntries` (close.rs).
- `Journal` is `JournalEngine` with `CloseWorkflow` over it. `post_sync` is
  `StartPost`, then `LockNext` per account in account order, `CheckPeriod`,
  `AppendLegs`, which appends entry by entry (`WithLegs`, `WithEntries`) up to the
  one its version guard refuses, then `WriteBalance` per account once the locks are
  dropped. A put may fail without a word, and an unguarded post may end without any
  (`post_transaction_sync`). A rebuild copies shard by shard (`ReadShard`), a
  statement reads account by account (`StartStatement`, `ReadAccount`,
  `EndStatement`) while others post. The period goes through `SoftClose`,
  `BeginReconcile`, `Close`, `Lock`, with `PostClosing` in between. Shard locks are
  non-reentrant; `shardOf`, the hash of an account, is one of `ShardMaps`, chosen at
  the start.
- `Revaluation` is the rate table, `revalue` account by account, each posting
  possibly refused, and the tax table with `compute`.
- `Consolidation` reads the books of entities, lists or derives elimination
  pairs and eliminates them one by one.
- `LedgerApi` is the server: every post under the mutex of its tenant, a read
  that copies the log under it and folds afterwards, the projection at an
  earlier position, and the streaming detector in exact sums.

### Properties

| Property | Statements |
|---|---|
| `LedgerHolds` | `JTypeOK`; `BalancesMatchLog`: a balance is the fold of its log at every step; `WholeUnlessRepeated`: a transaction is in the log with all of its legs or none, but for a guarded one that names an account twice; `ClosedRejectsLater`: a post that begins after its period was closed leaves no leg; `QuietCacheFresh`: the cached balance is the balance once nobody writes it, save for an account two writers were under way for (`raced`) or whose last balance was not put (`missed`); `ClosingAlwaysPosts`: the closing entries balance although the accounts are read at different moments; `StatementsBalance`: a statement or report balances unless a post changed an account before it was read and one after it was (`torn`); `NoLockCycle`: posters do not wait on one another in a circle as long as accounts have shards of their own |
| `GroupBalances` | elimination keeps the group's trial balance balanced, takes no more than both sides have, and derived pairs settle what they pair |
| `ConversionsSettle` | however often `revalue` stops half way and is run again, each balance is booked from its first book rate to its present one exactly once; lines and their refunds owe no tax together; recording a rate changes no answer for an earlier date |
| `ServerTellsTruth` | the fold of a server's log never fails (it would panic), tenants see their own entries, a point in the past gives the same balances for ever, findings equal those of the two-pass definition |

`NoLockCycle` has the hypothesis because the hash does not: `lock_cycle` checks
`NoDeadlock` without it, and TLC finds at once a post that waits for itself. The
other limits of the statements are the code's too: a guarded post that names an
account twice stops half way, since its first leg moves the version its second
leg expects (against journal.rs:10-12); a post may be appended to a period that
was closed after its check; `begin_reconcile` takes a closed period back to
reconciling; of two Due-To rows for one counterparty only the last is paired;
the projector is not idempotent, so a replay over a filled projection doubles it;
the detector counts each transaction's value on both sides. Of the cache: posts of
`post_transaction_sync` never reach it (journal.rs:242-258) and a put that fails is
ignored (356), so a quiet cache may be stale until the account's next put. Of the
reports: trial balance and sheet take one lock per account (reporting.rs:219-296), so
one that a post crosses does not balance; a rebuild takes one lock per shard, and a
post over two shards crosses it just so, although "the reports can never drift from
the ledger" (reporting.rs:299).

### Bounds

Four accounts in four shards or two of them in one, two posters, two transactions,
one period, one rebuild or statement. The journal runs while the period stays open,
with the reader beside both transactions or, once a put has failed or was skipped, in
the place of one (part `journal`), and with a period that moves, where the cache misses
nothing (part `periods`): a repeated account, an entry that does not balance, posts
that overlap in one account only, a post that crosses a statement, and a close
between the check and the append of a post. Six rows of two entities, with two rows
for one counterparty and one for an entity without books. Two foreign accounts of
opposite kind under three rates and two dates. Two tenants and one reader, four
posts: enough samples (three) for an outlier. `CHECK_DEADLOCK FALSE`: the parts end
when their bounded input is used up, and `NoLockCycle` states the deadlock that
matters.

## 6. Trade (run `trade`)

### Modules

- `Inventory` is `InventoryEngine`. A `job` is a call at a place between two locks
  or awaits; `ApplyVersioned`, `AppendReceipt`, `PickLocked`, `TransferOut` and
  `TransferIn`, `ApplyVariance` are the critical sections of the shard, `Register`,
  `Unregister` and `Relocate` those of the serial registry, `InsertPallet`,
  `ReduceLine` and `EndMove` those of the pallets, `AfterWrite` the cache write and
  the reorder signal after unlock, either of which may get lost. `CopyShard` and
  `PutRebuilt` are a rebuild, whose puts may get lost as well.
- `Routes` has the serpentine, nearest-neighbour and batch routes over a grid, the
  tour with its 2-opt passes over an arbitrary symmetric table of distances, and
  fence crossings by ray casting over integer polygons.
- `HoursOfService` runs `HosClock` and `HosLog` side by side.
- `Money` has `Allocate` and the weighted split. `PointOfSale` uses it: a clerk's
  `till` is a call between two awaits; the loyalty engine, the pricing plugin's
  host, the offline queue and the central store are the shared state, `Syncer`s
  run `sync_to` concurrently.
- `OrderSaga` is `checkout`, `run` with every step that can fail, `compensate`,
  `fulfill_backorders`, `refund` and the RMA graph. A line is read, held and put on
  backorder under three locks of the engine (`ReadStock`, `HoldLine`,
  `BackorderRest`), a backorder picked and promoted under two (`Promote`, `Fill`);
  `ReserveFails` is the early return from the lines. `Deliver`, `Lapse` and
  `CloseBooks` are what the engine and the ledger do in between.
- `TradeProof` holds the proofs about the last three and about `HoursOfService`,
  `InventoryProof` those about `Inventory`; `FoldLemmas` what they rest on.

### Properties

| Property | Statements |
|---|---|
| `StockAccounted` | no bin below zero; units are neither made nor lost; lots account for the balance, and the replay of their events for the lots; serials resolve to the lot that holds them; the cached quantity and the reorder signal settle |
| `RoutesSound` | the serpentine turns at every aisle it visits and visits all bins once; 2-opt returns a tour no longer than its seed; entries and exits alternate and tell where the vehicle is |
| `HoursStand` | clock and log agree; a breach stands until a rest of its kind; a successful round of escalations told all of them |
| `SalesAccounted` | points are covered by what was earned; shares of a refund add up and follow the tenders; a captured sale is logged, and what is logged is pending or synchronised; the central store has it once |
| `OrdersAccounted` | nothing promised twice of a ware no two calls crossed at; a compensated run leaves no hold and takes back its own billing only; a run bills what it commits; goods come back once |

History variables name the windows in which the code does less than one would
wish, so that the statements hold outside them and are checked to do so:
`torn` (a pick over several lots that fails after the first), `bulk` (a bin moved
by `apply`, which knows no lots), `unannounced` (the source of a transfer, for which
`after_write` is not called), `unsent` (a put or a replenishment job that
`after_write` could not deliver, inventory.rs:461-479, or a put of a rebuild, 1036-1045:
the read model lags until the next one, and "can never silently drift",
inventory.rs:1016-1017, holds of the movements' replay only),
`overlapped` (serials are checked before an await and
registered after it), `dropped` (a sale captured although its redemption
failed never reaches the log), `overtaken` (a sale recorded while `sync_to` runs is
cleared unsynchronised, sync.rs:142-169), `crossed` (a call held of a ware between
another call's reading and its hold, reservation.rs:234-255: the oversell of section
3, in which both may ship). Others seen while modelling, and not
stated as properties: a receipt that names a serial twice is accepted, though
"duplicates are rejected" (inventory.rs:488), since the check is against the
registry only; an expired lot picked empty is revived by the replay; a
receipt into an existing lot overwrites its expiry; a lot without expiry is
picked first, not last (inventory.rs:1084-1085); a pallet pick takes from any lot
and reduces the line even if it fails; full refunds of one sale may be repeated;
a backorder is promoted by another order's `fulfill_backorders` and billed there
at price 0; backorders survive the compensation of their order; an RMA is marked
refunded before the posting that may fail; a line that fails with
an error (saga.rs:125-128, a sweep or an event that cannot be written) ends the run
without compensation, and the holds of the lines before it stay until they lapse; an
oversold pool reads as huge (`as u32` in reservation.rs:238, a `u64` in the promotion
host), so it is reserved from and discounted as plenty; the seven and eight day
cycles count from the last interval, not from the present (hos.rs:3-5).

### Bounds

Two pickers, two bins, two lots, one serial, four calls, or two where a delivery of
`after_write` gets lost, one at a time; two clerks, one customer, two syncers, three
calls and one sale kind while synchronisation is under way; two orders of two wares
with two deliveries and one lapse, at most five runs, deliveries, lapses, failing
lines and returns altogether, or three and the end of the period: enough for a
second run of an order that was billed already to be compensated; four intervals of
half an hour, eight hours or thirty-five hours, so that either rest, the break and
the driving and duty limits are crossed from both sides; four stops and all
symmetric tables over three lengths; four picks over seven bins. Pickers and bins
are symmetric. The parts end with their input, hence `CHECK_DEADLOCK FALSE`.

## 7. The platform (run `platform`)

### Modules

- `SessionCache`: each call holds the one mutex, so it is one step, but it reads
  the clock before it has the mutex: `when` may lie behind other calls.
  `RedisCache`: each command is one step, may fail, and other calls come in
  between; keys expire at the server in whole seconds. `invalidate_model` takes a
  page with SCAN and deletes it with DELs, each a command of its own; a DEL that
  fails passes in silence.
- `TenantScope`: a request passes `ContextLayer`, `AuthLayer`, and one of the two
  database layers (`Acquire`, `Begin`, `SetTenant`, `Statement`, `Respond`; or the
  same per call of `with_rls`). Which tenant that layer takes is `LayerTenant`:
  `tenant_db_middleware` has the context, in which the token's tenant may stand by
  then, `tenant_rls_middleware` resolves the raw headers once more and puts what it
  finds over the context (web.rs:178-193). `txn` is what Postgres has open on a
  connection; it outlives the request that opened it if that request is dropped
  (`Abandon`).
- `EntityApi`: what the derive macros generate for an entity, over both
  repositories, with a client walking pages while others write.
- `Ingest`: both pipelines. `ShopFloor`: a unit, the parallel explosion of a bill
  of materials, a machine. `Bus`: publish as copy, one send per channel, prune.
  `DurableBus`: the JetStream consumer. `Flow`: handlers, two callers, strangers.
  `PluginHost`: registry, host, runs with fuel and epochs, bill.

`PlatformProof` holds the proofs about the caches, the tenant layers and the API.

JetStream, Redis, Postgres, sqlx, tokio's channel and wasmtime are modelled as far
as the code relies on them; `map` marks those definitions external.

### Properties

| Property | Statements |
|---|---|
| `TenantsConfined` | rows stay with the tenant that their writer's database layer took, and with that of a verified token where the layer did not take another from the headers; a request route that did not answer with success leaves no rows; free connections are clean; principal and context are the token's, but for a context `tenant_rls_middleware` replaced. The second and third but for what abandoned requests leave |
| `CacheKeepsApart` | a session is listed with its own tenant only; an ended session never revives; an invalidation takes its own entries |
| `RemoteCacheHolds` | no read returns a session past its deadline; `invalidate_model` leaves nothing cached before it; a purge that no call overlaps is complete |
| `ApiTruthful` | an id is stored exactly when it was created once more than deleted; only entities that the generated checks accept are stored, those of optional fields included; a client that reads a list in pages until it has as many rows as the page says there are has each matching row once and in order, unless a row it had passed was touched; a storefront's records never change |
| `EventsReachBus` | each event leaves once, in order, in a bounded batch; `published` is what the bus took while it refused none; the pipeline ends with its source, the last batch given to the bus |
| `FloorSound` | what an inspection finds critical does not ship; `enter_rework` spends at most its budget, and its count is exact unless `advance` went past it; the explosion is independent of thread order; OEE follows the samples; the rework loop ends |
| `BusDelivers` | a live subscription misses nothing and stays registered; a publish returns as long as live readers read |
| `HandledOrPending` | a message stays pending until handled, and is handled some time |
| `FlowsComplete` | a flow alone on its bus reports its own order; every flow returns unless an unreadable id killed a handler |
| `PluginsContained` | only trusted code in the registry; a bill never above the runs, and exact where none was cut short; scores see the current demand; every run ends |

Limits of the code that the statements leave open: `touch` does not move a
session's deadline in memory, and over Redis can resurrect a session deleted
meanwhile; an id of an expired session stays in its tenant's list; a session
whose `create` fails half way belongs to no tenant; the next user of a
connection may commit rows of a request that went away, or find its failed
transaction; a success is answered although COMMIT failed; `PUT` stores under the
path's id whatever id the body has; pages shift under a reader; two flows on
one bus report each other's orders; a handler that panics on an unreadable id
leaves its caller waiting. Those that contradict a sentence of the repository are in
section 9.

### Fairness

Each obligation is the scheduling of something that has begun, never of a new
call: a pipeline whose buffer is due publishes (`IFairness`), a unit in the
rework loop is inspected (`MFairness`), a publish goes on to its next channel and a
live subscriber reads (`BFairness`), the consumer fetches and its handler and
acknowledgement complete (`DFairness`), a flow's handlers run (`FlFairness`), a
running guest gets the processor or is trapped (`PhFairness`). All are weak: Tokio
polls what is ready, and the epoch ticker is a thread. The bus's readers are the
one assumption about callers, and `PublishReturns` is false without it: a full
channel blocks the publisher.

### Bounds

Two requests over one connection, so that one always inherits what the other left;
tokens right, expired, of another key and absent, headers in two spellings, and a
header that names another tenant than the token, behind either database layer; two
sessions of one tenant and three views of two; three entities and six bodies in
four requests, pages of three asked for and of two given (the limit), so that a
second page follows a change; batches of none, one and two over five frames; eight
floor steps (three reworks and a bypass), with findings of each disposition,
recorded or inspected; five bill nodes with a part on two paths; capacity one with
two senders and two subscribers; three stored messages and two crashes; two flows on
one bus or two; two keys, three pieces of code and five registry edits.

## 8. What is proved

### Reservation engine

The theorems are about arbitrary finite sets of holds, and arbitrary SKUs,
callers, quantities, lifetimes and bounds, from `HoldFinite` (in `SkuState`)
and `ConstantsAssumption` (in `Reservation`).

- `TypeCorrect`: `Spec => []TypeOK`. `TypeOK` is inductive because it includes
  `LocalsOK`: at each place of a call, the locals assigned so far have the
  values the rest of the call relies on (for instance, a caller at `index` has
  a hold). Without it a step could use a local that was never assigned.
- `ReplayNeverDrifts`: if `fulfill_backorders` is not among the calls,
  `Spec => []ReplayMatchesLive`. Each critical section changes the state by
  the same amount as its event changes the replay (lemmas about `SkuState`);
  the inductive invariant is `TypeOK` and the equality.
- `NeverOversells`: if neither of the two backorder calls is used,
  `Spec => []NoOversell`. The inductive invariant adds that availability is
  non-negative and that an identity not yet issued holds nothing, without
  which placing a hold could overwrite another one.
- `EngineIsStockPool`: under the same hypothesis, `Spec => PoolRefinement`.
  Each step is a step of the pool or a stutter.

- `DueHoldsLeaveFirst`: without a cache (`WithCache = FALSE`), for any number of
  callers and with every call, `Spec => []DueHoldsCleared`. The inductive `DueInv`
  adds to `TypeOK` that the records of a hold never contradict one another
  (`RecordsAgree`), that a hold once due stays due (`DueStays`), and that a due
  hold which is still active is ahead of every sweep that has to clear it
  (`DueAhead`): still to be scanned, among the candidates, or in hand.
- `IndexIsExact`: with one caller, a cache or none, `Spec => []IndexMatchesHolds`.
  `IndexInv` adds `IndexFollows`: which of hold and entry may be ahead of the
  other, at which place of which call.
- `PromisesAreKept`: with one caller and a cache that works, `Spec =>
  PlacedKeepsPromise`. `PromiseInv` adds to `IndexInv` that a lifetime reaches
  from now to its deadline, that the cached entry lasts as long as the deadline,
  and that what a sweep has in hand to evict is due (`VictimIsDue`).

The hypotheses are necessary: `replay_drift` and `oversell` are the
counterexamples without them, section 3 has those to the promise of a hold with
several callers or a cache that fails, and a cache entry, written some time after
its hold was placed and for the whole lifetime, makes a due hold look alive.

The argument has four layers: the first part of `ReservationProof` shows how
`Held` and `Available` change when one entry of a map changes (cardinality of the
numbered units); its second part is type correctness action by action; the rest
reduces every action to one of a few effects on the pool
(`StepEffect`) for the first invariants, and to one of sixteen shapes of a
step on the records of a hold (`Acts`, `StepShape`) for the last three, and
proves each invariant over the effects or shapes.

### Ledger crate

The theorems are about arbitrary sets of processes, clients, aggregates,
events, stagers, relays and messages and arbitrary bounds, from
`StoreConstants` and `OutboxConstants`, which only give the flags and bounds
their types.

- `StoreType` and `StoreContiguous`: `Spec => []TypeOK`, `Spec =>
  []Contiguous`. `StoreInv`, their conjunction, is inductive. The core is
  `JoinOK`: numbering a sequence of rows behind a well-numbered log gives a
  well-numbered log, which covers an append (one row) and a hydration (all of
  the table). It rests on counting lemmas about concatenation, by a bijection
  between the positions of the appended part before and after.
- `VersionedIsDurable`: `Spec => []VersionedDurable`, with crashes, failures
  and several writers. The strengthening `StagesAsync` says that only
  `append_async` reaches the outbox step, so a versioned append is answered
  only by the step that writes its row; the table never loses a row.
- `AnsweredIsDurable` and `MemoryIsTable`: `Spec => []ReturnedDurable` and
  `Spec => []MirrorExact` under `Undisturbed` (one process over the table, no
  write that fails, no second `load()` into a memory in use), for any number of
  aggregates, events, clients and crashes. `stores` checks the same two on an
  instance (`AnsweredSurvives`, `TableIsMirror`). The strengthening `ExactInv`
  says that the table has each aggregate's numbers 1 to k with none missing
  (`Complete`) and that memory differs from it by the row under way at most
  (`Agrees`). `LoadExact` is the core: ordering a table without gaps by number
  and numbering it afresh restores every row, because each row's number counts
  the rows of its aggregate up to it (`OrderedCounts`, again by a bijection).
- `FailuresAreCounted`: `Spec => []FailuresCounted`, with any number of processes
  that crash and whose writes fail. `FailureInv` adds that an event is appended
  once (`UsedOnce`), that no other process has in memory what has yet to reach
  the table (`OwnEvent`), and counts, at every place of a call, also the event
  under way (`Counted`).
- `NeverWritesBlind`: under `Undisturbed`, `Spec => NoBlindWrite`. `ViewInv` adds to
  `ExactInv` that what a client read is what the table has of that stream up to
  the version it read (`ViewsHold`), also after the process it read from is gone.
- `DeliveryIsStore`: `DSpec => Spec`: with an outbox attached the store is still the
  store, so all of the above holds of the composition. `DeliveryIsOutbox`: if
  writes can fail, `DSpec => OB!Spec`: the composition is an outbox with the
  processes as its stagers (one that dies while staging is an insert that
  fails, hence the hypothesis).
- `NothingStagedIsLost`: under `Undisturbed`, `DSpec => []StagedIsDurable`. The
  hypothesis is necessary: a failed write is staged all the same, and so is one
  that meets another process's number in the table. `StagedUnlessCrashed`: if
  all appends are `append_async` through an outbox and no write fails, for any
  number of processes, `DSpec => []StagedBarCrash` (`BarCrash`: what is in the
  table is staged or in hand).
- `OutboxType`: `Spec => []TypeOK`.
- `MarkedWasSent`: `Spec => []DeliveredWasSent`. `SendInv` adds that relays
  and the bus know only ids of rows and that a relay about to mark has sent
  the row it will mark (`SentFirst`).
- `FirstSendsKeepOrder` and `OutboxIsChannel`: with the in-memory outbox,
  `Spec => []FirstSendInOrder` and `Spec => ChannelRefinement`. `OrderInv` adds
  that ids grow as rows appear and that a batch leaves out no row it would have
  to send first (`BatchLow`), which is what keeps two relays with overlapping
  batches from overtaking one another. The hypothesis is necessary:
  `Outbox_late_commit.cfg` is the counterexample with Postgres.
- `OneRelayNeverResends`: with one relay, in memory or in Postgres, `Spec =>
  NoResend`. `ResendInv` adds that an id names one row, seen or still to be seen,
  and that what is left of a pass is still pending (`BatchPending`), which a
  second relay would break.

### General ledger

`LedgerStands`: `JSpec => []LedgerHolds`, all eight statements of it, for any finite
set of accounts numbered by naturals, any chart over it, any hash of the accounts to
shards, any number of posters and transactions, and any entries with integer
amounts, from `AccountsAssumption` and `JournalAssumption` (the retained earnings
account is in the chart). The inductive invariant `BooksInv` adds to what
`LedgerHolds` says:

- `PostSound`: a post under way has its transaction in the history, no leg in any log
  yet, and from `append` on it was begun before its period was closed. A period never
  reopens for posts (`closedIn`), so a post begun after the close fails its check;
- `LocksSound`: a shard is locked by a post, for an account before all those it has
  still to lock. Of posters that wait for one another, the one that wants the
  greatest account would wait for one that wants a greater (`NoCycle`). Where two
  accounts share a shard the argument ends: that is `lock_cycle`;
- in `HistorySound`, that the chart is in debit by nothing (`Sum(Net(balances), Chart)
  = 0`) as long as every transaction is whole and on the chart. Both statements follow
  from this one sum (`Statements`);
- `CarriesFresh`: what a poster carries to the cache is the balance, or the account has
  been raced on. `QuietCacheFresh` is not inductive without it;
- `ReaderSound`: what a reader has, with the balances it has still to read as they are
  now (`AtOnce`), is in debit by nothing unless a post crossed it. A post that touches
  only what is read, or only what is not, moves that sum by nothing or not at all.

The append is the hard step. `Posted` says what the loop has done after k entries, in
four parts: balances follow logs, other accounts and other transactions are
untouched, and the transaction has k legs. It goes from entry to entry
(`PostedNext`), and `Posting` has it for the whole list by the least k at which it
would fail. A guarded post that is refused half way names an account twice by the
pigeonhole (`AppendedIs`, `NamedTwice`). Closing entries balance whichever balances
were read (`ClosingBalances`): what zeroes the temporary accounts is put against the
retained earnings. Sums over accounts are in `FoldLemmas` (below).

`GroupStands`: `CSpec => []GroupBalances`, all of it, for any finite set of rows, any
chart and tags, any balances and any list of pairs, from `ConsolidationAssumption`
(rows are pairs of integers, their accounts have a kind). What there is to prove is
about one call; `GroupInv` only says that the result is the fold of the list over the
trial balance, and of which list. `EliminatedChain` puts the fold as a chain of
turns, one per pair, and `TurnKeeps` gives what holds after each of them, from there to
the end by the least turn at which it would fail:

- a turn takes the same amount from the debits of one row and the credits of
  another, which are different rows as an asset is not a liability, so the
  difference of the two totals stays (`DebitsAdd`, `CreditsAdd`);
- an overlap only shrinks (`OverlapShrinks`) and that of the pair at hand is
  gone after its turn, so at the end no pair of the list has one;
- derived pairs are a sorted listing of a finite set, which lists each of its
  elements because it exists (`SortedExists` in `FoldLemmas`); a Due-To row that is the
  only one to offset its Due-From is the last one too.

### Ledger server

`ServerTruthful`: `LaSpec => []ServerTellsTruth`, for any tenants and readers, any
number of posts and reads, and any bodies, threshold and minimum of samples, from
`LedgerApiAssumption` (finitely many accounts; a body is a sequence of entries; the
threshold squared and the minimum are natural numbers). The inductive invariant
`LaIInv` says what an append never disturbs:

- `OwnLog`: a tenant's log holds its own transactions, each validated, with ids
  below the number of posts and none twice;
- `Noted`: what was noted at an append is the replay of the log up to there;
- `Holds`: the copy that a request took outside the mutex is a beginning of the
  log, and stays one while others post (`UpToStays`);
- `Stands`: an answer is the replay of a beginning of its tenant's log.

That a replay never fails is `ReplayIsLevel`: a validated transaction moves the
sum over the accounts by nothing (`AppliedMoves`), so that sum is zero
after each. `DetectorFinds` is about one log and the hardest of these: the chain of
detectors a log goes through (`Knows`) carries the count, the sum and the sum of
squares of the values so far, from which `ScaledSpread` and `ScaledOrder` recover
the comparison a second pass makes with the mean of the values before each; and
the first copy of a transaction is the one it names (`CopyOf`).

### Rates, revaluation and tax

`ConversionsStand`: `RSpec => ConversionsSettle`, all of it, for any rates, dates, keys
and bases, any finite set of foreign accounts, and any number of rates recorded and
revaluations begun, from `RevaluationAssumption` (rates and dates are naturals, balances
integers). The inductive invariant `RInv` is the types with the telescoping sum itself:

- a turn of `revalue` moves the revaluation account by what it adds to one term of
  the sum over accounts, because the account's book rate moves in the same step
  (`Sum` lemmas in `FoldLemmas`); a turn that is refused moves neither, so it does
  not matter where a run stops or at which rate the next one begins;
- rounding halves away from zero is odd (the tax of `-base` is minus the tax of
  `base`), so four lines, two and their refunds, add up to nothing in every
  jurisdiction; with rounding to the upper neighbour they would not;
- the total is the sum over jurisdictions since each line adds to exactly one;
- a rate of a later date is not among those known at an earlier one, and of the
  rates known there the latest stays the latest. The statement compares the table
  before and after any step, so it needs the types only.

### Caches

`CacheIsKeptApart`: `ScSpec => CacheKeepsApart` for any tenants, lifetimes and
views, calls with a late clock included. `ScInv` is the types and
`ListedWithItsTenant`; that an ended session never revives is proved of each
step.

`RemoteCacheIsSound`: `RcSpec => RemoteCacheHolds` for any number of calls under way,
every command of which may fail. `RcInv` adds:

- `Placed`: a session the server holds is in its tenant's set, an orphan, or in
  the hands of a call about to add or delete it;
- `Purging`: what a purge has dealt with is gone or an orphan, and a purge that
  is alone knows the whole set;
- `Lonely`: a call that believes itself alone is;
- `ScansOwe`: what was cached before a scan began and is still there, the scan
  has yet to see or has on its page.

### Generated API

`ApiIsTruthful`: `ApiSpec => ApiTruthful`, for any bodies, filters and page sizes, any
number of requests, and any answers lost on their way, from `ApiAssumption` (ids are
naturals, which stand for any ordered type; a limit is at least one). `ApiInv` has the
counts and the validity of what is stored; `WalkInv` is for the client that reads a
list: as long as it is undisturbed, it has read a whole number of pages, and what it
has is the ids of the first rows of the list as it is now (`ReadInOrder`).

- A request that disturbs nobody changes rows behind the last one read at most, so
  the rows read still come first (`ChangeKeepsWalk`). A row with the id of the
  last one read counts as read: it might be listed before it.
- A page goes on where the client is, since rows that come first in an order are how
  any listing of the set begins (`ListingBegins`), and with the last page the client
  has all of the list (`PageKeepsWalk`). With an entity under an id that is not its
  own (`Misfiled`), which `PUT` allows, ids are not what rows are stored under.

### Tenant layers

`TenantsAreConfined`: `TnSpec => []TenantsConfined`, for every number of requests
and connections and every set of headers and tokens, from `TenantAssumption`
(`Nothing` is not a connection). The inductive invariant `TnInv` adds to
`TenantsConfined`, whose tenant is what the layer took and not always what the token
says (web.rs:178-193):

- `Holding`: a request holds a connection exactly between the pool and its
  answer, and no two hold the same one;
- `Scoped`: in its handler an open transaction has the request's own scope,
  which is what row-level security relies on and what `SetTenant` restores
  whatever the connection's last user left;
- `Opened`: a transaction on a connection is that of the request using it, or of
  one that has gone;
- `WrittenInContext`: a row's tenant is the one its writer's database layer took, which
  is settled for good;
- `Accountable`: the writer of an uncommitted row still holds that connection or
  has gone. Without it, `OnlyAnsweredWrites` would not survive a COMMIT by the
  connection's next user.

One lemma per handler or layer proves that the step keeps it.

### Orders

`OrdersStay`: `SgSpec => OrdersAccounted`, for any set of orders and wares, any carts,
deliveries of any size, and any number of lapses. `SagaAssumption` gives carts
and deliveries their types: quantities and deliveries are natural numbers
(`u32` in the code), prices integers. `SagaInv` adds to `NothingPromisedTwice`, which
is about wares at which no two calls have crossed:

- `HoldsSound`: an id names one hold, and the next id is new;
- `CallSound`: what a call was paid is the value of what it won; a hold with an id
  the call won is as it was won; a compensation has still to release every hold
  of its that is left, so that none is left when it ends;
- `ReturnSound`: a return is of a shipped order, which no call works on, and what
  is back in stock is what was shipped or nothing;
- `Readers`: what a call has read and is about to hold is still sellable, unless
  another call stood or held there meanwhile. Reading establishes it (`ReadSound`,
  `PickSound`), other steps take no units of the ware without crossing (`StockTaken`),
  and so the hold fits (`TakeSound`).

Units are counted by cardinality (`UnitCount` numbers the units of each hold), so
that one hold more or less is one lemma (`UnitsAdd`). One lemma per step of the
saga, per return and per event outside proves that it keeps `SagaInv`, over what
the step does to the call (`CallUpdates`) and to the holds (`HoldAdded`,
`HoldsDropped`).

### Amounts

`AllocateIsExact`: `SplitExactly`, for every amount and all ratios that are natural
numbers with a positive sum. Parts cut to the minor unit leave over less than one
unit a part (`LeftoverIs`); the sort by what was cut off is a total order, in
which as many parts come before fewer than L others as L says (`RanksCount`), so
each unit left over goes to one part (`AllocateSplits`). A part from which nothing
was cut off never gets one, as the parts from which something was cut are at least
as many as the units (`ExactPartsWait`), which is why no part is a whole unit off.

### Warehouse

`StockStands`: `WSpec => [](WTypeOK /\ StockConserved /\ LotsCoverOnHand /\ LotsReplay
/\ StockCacheFresh)`, and `StockAccountedHolds`: `WSpec => []StockAccounted` under
`SerialsNamedOnce`. Both are for any finite sets of pickers and bins, any lots, serials,
receipts, signed movements, pallets and counts, and any interleaving, from
`InventoryAssumption`: a receipt has a quantity, and a serial for each unit or none, which
`receive_lot` checks; a pick is of at least one unit. `SerialsNamedOnce` (no receipt names
a serial twice) is needed, as `receive_lot` does not check that: of a serial that is in
a lot twice, the first pick would have the registry forget both. `SerialsResolve` is the
only statement that rests on it.

The inductive invariant `StockInv` says what the stores owe to the calls under way:

- `Sound`: what a job carries fits the step it is at;
- `Conserved`: the movements reported are the sum over the bins and over what
  transfers hold between their two halves;
- `LotsStand`: the replay of a bin's events holds, lot by lot, what its ledger holds,
  and the ledger's units are the balance;
- `Clear`: on a bin on which no calls overlapped, a read model that is behind has a
  writer that is about to announce the balance, or its last delivery got lost
  (`unsent`), and the part that a rebuild has copied is still so. Without the first
  `StockCacheFresh` is not inductive, without the second a rebuild would put back an
  old balance;
- `Registered`: at a moment the registry differs from the ledgers by the serials of the one
  call under way: received and not yet registered, drawn and not yet forgotten, or
  between two bins, already registered at the second.

A lemma per action proves that it keeps `StockInv`; the actions are reduced to a few
shapes (`OpeningSound`, `GoingSound`, `AnnouncingSound`, `StirringSound`, `TornSound`). What
they rest on is the arithmetic of a ledger: every step of a receipt or a draw changes
one lot (`HoldsNow`), so a plan of draws is a chain of such steps (`DrawsTake`). A plan asks
no lot for more than it has (`PlanIs`): `ByExpiry` lists each fresh lot once, because a
listing in that order exists (`ExpiryOrder`). Dropping the exhausted lots changes no
lot's units or serials (`PrunedIs`), which is why the replay, which keeps them, agrees.

### Register

`SalesStand`: `PosSpec => []SalesAccounted`, all five statements, for any clerks,
customers and runs of `sync_to`, with or without a plugin, and any baskets, tenders,
redemptions and returns, from `PosAssumption`: quantities and points are natural
numbers (`u32`, and a checked redemption), a tender may be negative, prices and
taxes are taken not to be, which the code leaves to its callers. The inductive
invariant `PosInv` adds:

- `SalesSettle`: what is applied to a sale is not negative and comes to its total
  (`AppliedSettles`). From that and `AllocateSplits` follows all that is said of a
  refund, with the two-part split of `compute_refund` in `ShareOfTwo`: less than
  half of the goods never returns more than half of what was charged but for one
  minor unit, and all of them return the very tenders (`SplitIsItself`);
- `Identified`: a transaction id belongs to one call, and in the log to one event,
  which tells the amount of the sale it names. Without it, the central store's
  deduplication by id might drop an event that it does not have;
- `Delivered`: what a running `sync_to` is about to clear is in its batch, at the
  central store, or in `overtaken`, and what is copied is in the log.

### Hours of service, and folds

`ClockStands`: `HSpec => HoursStand`, for any lengths and gaps, negative gaps
(overlapping intervals) included, and any number of intervals: what `HosClock`
accumulates is what `HosLog` recomputes, a breach stands until its rest, and a
round that succeeded told all. `HoursInv` is the types, the agreement, and that a
round under way has told or has yet to publish every violation.

The log's totals are folds, and what a fold computes is not given by its
definition but by induction. `FoldLemmas` does that induction for any fold
over a sequence, by the least position at which it would fail (`Least`, from the
library's well-foundedness of `<`): the function that the fold is defined by
exists (`UnfoldingExists`), and its value is the last of a chain of intermediate
results (`FoldRule`). A lemma about one fold (`TotalChain`) then shows that its
body is the step of such a chain; `TotalAppend` and `TailGrows` say what one more
interval adds to a total and to a window. `Sum` is the sum of an integer function over
a finite set, shown to exist by adding one element at a time (`SumExists`);
`SumChanged`, `SumOfParts` and `SumDifference` are what the statements of the ledger
need, and `GatheredIsSum` ties it to the community modules' `MapThenSumSet`.
`LastExists` and `SortedExists` do the same induction over a finite set in a total
order: it has a last element, and a listing, of which `ListingBegins` says how it
begins.

## 9. Findings

`PROJECT.json` lists under `findings` the three runs that expect a violation, each
with the sentence of the documentation that the code contradicts: `oversell`
(reservation.rs:234), `replay_drift` (reservation.rs:356) and `lock_cycle`
(journal.rs:276).

Further sentences of the repository that the code does not keep. The models have the
code's behaviour; the properties are stated so as not to ask for it:

- "tenant selection is gated behind a verified credential rather than a spoofable
  header" (auth.rs:10-14): `tenant_rls_middleware` behind the token's layer puts the
  tenant of the headers over the token's, and `with_rls` binds it (web.rs:178-193,
  db.rs:146-149);
- "Number of events published to the bus" (WMS ingest.rs:70-71, TMS ingest.rs:62-63):
  `published` counts refused batches as well;
- "The number of rework cycles is bounded" (wip.rs:9-11) and `rework_count`, "Number of
  times this unit has entered the `Reworking` state" (wip.rs:75): `advance` goes there
  without either;
- "`Critical` → scrap" (defects.rs:197): `record_defect` takes a critical finding in any
  state without a disposition, and `finish` ships the unit afterwards (wip.rs:98-101, 125);
- "Number of plugin `run` invocations attributed to the tenant" (billing.rs:17) and a
  meter "consulted on every plugin call" (25-26, runtime.rs:88): a run that traps or
  cannot be instantiated returns before the metering (runtime.rs:315-322);
- the cached balances and quantities, which lag behind a put that failed
  (journal.rs:356, inventory.rs:470-479) or was never made (journal.rs:242-258);
- reports that "can never drift from the ledger" (reporting.rs:299), while a rebuild
  reads shard by shard.

Three `.cfg` files that are not listed as runs reproduce the counterexamples
quoted in sections 3 and 4: `MCReservation_fresh_hold_swept.cfg`,
`MCLedgerDelivery_staged_crash.cfg` and `Outbox_late_commit.cfg`.

## 10. What is only model-checked

Safety: of trade, `RoutesSound`; of the platform, the safety statements within
`EventsReachBus`, `FloorSound`, `BusDelivers`, `HandledOrPending`, `FlowsComplete`
and `PluginsContained`. `AnsweredSurvives`, `TableIsMirror` and `ExtendsWhatWasRead`
of `stores` are the proved `ReturnedDurable`, `MirrorExact` and `NoBlindWrite` at
the second instance of the run, and `NoRowTwice` of `outboxes` is the proved
`NoResend` at its second.

Liveness is out of the prover's reach: `CallsReturn`, `AllDelivered`,
`CommittedIsDelivered`, `ReturnedIsDelivered` and the last statements of the six
composite properties just named. So is what a recursive function computes for
every input; of folds, section 8 says how far the proofs reach.

## 11. What is not modelled

Components with status `not_modelled` or `partly` in `PROJECT.json`, each with its
reason: the command line tool (one-shot file and HTTP operations), audit fields
(two timestamps the client sends), the parsing half of the macros, observability,
front ends, demonstrations and deployment have no state that outlives a call.
Of the catalogue and promotions only prices, fallbacks and authorization matter to
an order; of reporting, not the layout and comparatives; of defects, not the
statistics; of the primitives, not the formats. Haversine distances, angles and
decimal digits are replaced by integers with the same comparisons. Signatures
are equalities of keys. Data races do not occur: the code has no `unsafe`.
