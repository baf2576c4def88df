# Northwatch: TLA+ models and proofs

Northwatch is a Go service in front of an OVN deployment. It mirrors the
Northbound (NB) and Southbound (SB) OVSDB databases into client caches, answers
read requests from them, streams their changes to WebSocket clients, records
history in SQLite, raises alerts, and (optionally) writes to NB through a
two-phase preview/apply workflow. This directory models the parts that keep
state and run concurrently, checks them with TLC on small instances, and proves
with TLAPS, for every value of the constants, the safety of nearly all of them: every
invariant and every action property that a passing run checks is a theorem, except
the answers of the impact analysis and of the search, and the simulator.
`PROJECT.json` lists components, runs, mutants, the map from definitions to source
lines, findings, hazards and theorems.

## 1. Inventory

Paths are below `src/internal/` unless they start with `src/`.

| component | state | operations | interacts with |
|---|---|---|---|
| write engine (`write/engine.go`, `plan_cache.go`, `audit.go`) | plan cache, engine mutex, HMAC secret, audit table | Preview, DryRun, Apply, CancelPlan, Rollback, Cleanup | NB client cache and server, history snapshots, other OVSDB clients |
| write validation (`write/validate.go`, `registry.go`) | none; reads the readiness flag and the caches | shape, database, fields, references | Preview and Apply |
| rate limiter (`write/rate_limit.go`) | tokens, refill time | allow | asked first by Preview, DryRun, Apply, Rollback |
| failover (`write/failover.go`) | marks in `external_ids` | Failover, Evacuate, Restore build operation lists | Preview |
| snapshot sessions (`snapshotsession/manager.go`) | loaded, loading, pending drains, liveSuspended | Load, Unload, reconcileLive, Close, drain timers | cluster registry and proxy, OVN clients |
| snapshot files (`snapshot/`) | file, in-memory servers, sockets | Capture, BuildFromRows, Load, Serve, Close | sessions, offline mode |
| OVN clients (`ovsdb/client.go`) | caches, monitor cookies, suspended flag | Connect, SuspendMonitors, ResumeMonitors, Ready, Close | everything that reads |
| chassis pool (`ovsdb/pool.go`) | a supervisor and a connection per chassis | Add, supervise, Close | OVS views |
| alert engine (`alert/engine.go`, `silence.go`) | active alerts, silences, disabled rules | evaluate (ticker), AddSilence, RemoveSilence, SetRuleEnabled | caches, event hub, webhooks, session pause |
| alert rules, webhooks (`alert/rules.go`, `webhook.go`) | last flow count, last active chassis per group | Check, Notify | SB cache, endpoints |
| event hub (`events/`, `api/handler/ws.go`) | subscribers, their filters and buffered channels | Publish, Subscribe, Unsubscribe, AddFilter, RemoveFilter | cache callbacks publish; WebSocket, history, flow-diff and propagation consume |
| history (`history/`) | SQLite snapshots and events, batch in memory | TakeSnapshot, TakeSnapshotIfChanged, event persistence, pruning, import, export, diff | hub, caches, session pause |
| flow diff, propagation (`flowdiff/`, `telemetry/propagation_*.go`) | ring buffers, current generation, acknowledgements | seed, handle events, record, prune, query | hub |
| caches with a TTL (`enrich/cache.go`, `api/handler/trace_store.go`, `inventory`, `gateway`, `api/handler/ovs.go`) | bounded or single entries with a time | Get, Set, evict, single flight | providers, handlers |
| analyses (`correlate`, `ovscorrelate`, `debug`, `impact`, `gateway`, `router`, `search`, `inventory`, `ovshealth`) | none | functions of cached rows | handlers |
| HTTP layer (`api/`, `telemetry/middleware.go`) | throttle entries per address, counters | authenticate, recover, count, shut down | every handler |
| start-up (`src/cmd/northwatch/main.go`) | what runs, deferred stops | run, buildCluster, shutdown | everything |
| simulator (`ovnsim/`, `src/cmd/ovnsim`) | rows of the lab, VIFs on chassis | seed, run, bind, unbind, clean | NB database, OVS on the chassis |
| views, configuration parsing, OpenAPI, generated models, UI | none | - | - |

Hard behaviours: two goroutines over one plan; state read before an unlock and
used after it (readiness flag, pause checks, plan fetched and then deleted,
throttle checked and then counted); several tables read one after the other
while they change; SuspendMonitors failing half-way; a start that fails after
half of the parts run; a timer racing a shutdown; select choosing between a
cancelled context and a ready channel; full buffers; acknowledgements that
overtake what they acknowledge; restarts between a commit and its audit entry.
`hazards` in `PROJECT.json` lists each at its line.

What makes the parts correct, in one line each: a plan is committed at most once,
changes only what its reviewer saw and what the server's garbage collection makes of
that, and its outcome is recorded truthfully (write engine); a request is not refused
for a row that is there (validation); a drained gateway can be restored (failover); a
route leads to an open cluster, servers neither leak nor are closed twice, and the
live monitors follow the sessions (sessions); a snapshot is whole, retention deletes
only automatic ones (history); a standing alert is paged once and never resolved
(alerts); publishers never wait, order is kept, and accepted events are accounted for
exactly once (hub, history); any span of time admits a bounded number of writes
(limiter); nothing is served that is older than its TTL and the call that fetched it
(caches); a latency is measured from the generation's own timestamp, unless the event
of the one before was dropped (propagation); a verdict follows from the rows, and an
answer that is cut says so (analyses); what was started is stopped, users before what
they use (start-up).

## 2. Modules

| module | models | state in the code |
|---|---|---|
| `PlanLifecycle` | abstract: what the write workflow promises about one plan | - |
| `WriteEngine` | `write/engine.go`, `plan_cache.go`; external: the OVSDB server with its references and garbage collection, the client library's cache, other writers | `cached`/`plan` = `PlanCache.plans` and the plans' contents, `mu` = `Engine.mu`, `pc`/`job` = request goroutines, `snaps` = history snapshots, `audit` = audit table, `db`/`cache`/`link` = server, client cache, connection |
| `WriteEngineProofs`, `SnapshotSessionProofs`, `EventHubProofs`, `AlertEngineProofs`, `HistoryStoreProofs` | theorems about the module of the same name | - |
| `Stores`, `Lifecycle`, `Analyses` | compositions: what the bounded stores, the parts of the process and the analyses and multi-step readers promise together | `topic`, `in` = the analysis that is asked and what its caches hold (`Analyses`) |
| `StoresProofs` | theorems about the modules of `Stores`, and about `HAFailover` | - |
| `LifecycleProofs`, `AnalysesProofs` | theorems about the modules of `Lifecycle` and of `Analyses` | - |
| `WriteValidation` | `write/validate.go`, `registry.go`, `validateOps` | `nbRows`/`nbReady` = NB cache and Ready, `target` = server, `authoritative`/`vpc` = locals of validateOps |
| `HAFailover` | `write/failover.go`, `api/handler/failover.go` | `nb`/`cache` = priorities and marks on the server and in the client, `plan` = stored plans |
| `RateLimiter` | `write/rate_limit.go` | `tokens`, `lastRefill` |
| `SnapshotSession` | `snapshotsession/manager.go`, suspend and resume of `ovsdb/client.go` | `loaded`, `loading`, `pending`, `timer`, `liveMu`, `liveSuspended`, `dbMu`, `suspended`, `cache` |
| `SnapshotFile` | `snapshot/snapshot.go`, `fromrows.go` | `dump`/`unread` = a capture in progress, `file`, `open`/`sockDir` = servers of Serve |
| `OVNClients` | `ovsdb/client.go` | monitors requested and loaded per client, suspended flag, Connect's and Resume's locals |
| `OVSPool` | `ovsdb/pool.go` | supervisors, clients, the pool's cancel and WaitGroup |
| `AlertEngine` | `alert/engine.go`, `silence.go` | `active`, `silence`, `disabled`, `ev` = locals of `evaluate` |
| `AlertRules` | stateful rules of `alert/rules.go`, `webhook.go` | `lastCount`/`firstRun`, `lastActive`/`initialized`, `registered`, posts to make |
| `EventHub` | `events/hub.go`, `bridge.go`, `api/handler/ws.go`, the persistence goroutine of `history/collector.go` | `subs`, `chan`, `filters`, `pub` = walks of Publish, `hist` = the goroutine, `stored` |
| `HistoryStore` | `history/snapshot.go`, `diff.go`, `store.go`, the snapshot goroutines of `collector.go` | `snaps`/`rows` = the tables, `job` = a snapshot being taken, an export in progress |
| `BoundedQueue` | abstract: a queue that loses its oldest and its expired entries only | - |
| `RingStore` | `flowdiff/`, `telemetry/propagation_store.go` | `buf`, `start`, `count` |
| `PropagationTracker` | `telemetry/propagation_tracker.go` | `gen`/`nbTs` = currentGen and its timestamp, `last` = chassisLastGen, `nbq`/`sbq` = the subscription's buffer, kept apart by database, `lost` = events it dropped, `log` = records |
| `EnrichCache`, `TraceStore`, `ReportCaches` | `enrich/cache.go`; `api/handler/trace_store.go` and event retention; `inventory`, `ovs.go` health cache, `ovshealth` | entries with their times, lookups and flights in progress |
| `HTTPServer` | `api/auth.go`, `recover.go`, `telemetry/middleware.go`, the chain of `main.go` | `entries` of the throttle, requests |
| `Startup` | `src/cmd/northwatch/main.go`, `api/server.go` | `up` = running parts, `defers`, `stopFuncs`, requests in flight, WebSockets among them |
| `GatewayHealth`, `NextHops`, `ACLAudit`, `PortChecks`, `Correlation`, `Impact`, `Search` | the analyses, as operators of the rows they read | none |
| `StaleEntries` | `debug/stale.go` | position in DetectAll, what was listed, tables in the SB cache |
| `OVNSim` | `ovnsim/`, `src/cmd/ovnsim` | `db` = rows of the lab and of others, `todo` = transactions left of a command |
| `MCWriteEngine`, `MCAlertEngine`, `MCEventHub` | instances of one component | - |
| `MCStores`, `Lifecycle`, `MCAnalyses` | instances of several components that share nothing: a variable `part` (or `topic`) chooses which one a behaviour moves | - |

`WriteEngine` instantiates `PlanLifecycle` with a refinement mapping: a plan's
status is computed from `commits`, the handlers in the locked stages of Apply,
`cached` and `plan`. `RingStore` instantiates `BoundedQueue`: the queue is the
contents of the ring in order, and a step of Add is a put that drops what the
limits allow to drop.

The OVSDB server of `WriteEngine` is a relation between databases. A transaction
that leaves a strong reference to no row is refused (`Referential`). Otherwise
`Collect` keeps the largest set of rows in which every row of a non-root table is
referred to strongly by another one (`Kept`), and takes the weak references to all
other rows away (`Purged`). The columns that refer (`Strong`, `Weak`) and the root
tables (`Roots`) are constants: those of a schema with Logical_Switch,
Logical_Switch_Port and Port_Group in the run. Other clients write through the same
server. Named UUIDs do not occur: buildOVSDBOps (`write/engine.go`) sets none, so
no operation of a plan refers to a row that the plan creates.

A handler is split where another goroutine, the server, another writer or a
crash can intervene. In `WriteEngine`, Apply is ApplyGet, ApplyDelete,
ApplyReady, ApplyValidate, ApplySnapshot(Fails), ApplyCommit or ApplyReject, and
ApplyAudit, all between lock and unlock of `Engine.mu`; CancelPlan is two
critical sections of the plan cache and takes no engine lock. In
`SnapshotSession`, a step is one critical section of `Manager.mu`; `liveMu` and
`OVNDatabases.mu` are explicit because calls are made while they are held. In
`AlertEngine`, evaluate is EvalStart, one RuleCheck per rule, one EnterAlert per
alert, Resolve and Notify. In `EventHub`, Publish is a walk over the subscribers
under the read lock, one Deliver each, and Unsubscribe waits for the walks. In
`HistoryStore`, a snapshot is one ReadSource per table, CompareAuto, Create and
PruneAuto, and an export is two statements. In `OVNSim`, a command is the list of
its transactions, each of which may fail. An analysis is an operator, evaluated
on every input of the instance in one step.

Abstractions. Rows, columns, values, plans, tokens, alerts, silences and events
are small sets. A token is named by the plan it was issued for (HMAC is assumed
unforgeable). Monitor updates of one row coalesce. A handler's reads of several
rows of one table within one step are atomic; reads of several tables are not
where the table order matters (`SnapshotFile`, `StaleEntries`, `AlertRules`,
`HistoryStore`). `generateID` never repeats. The rate limiter uses exact integers
rounded down where the code uses floating point. The alert clock is abstract: a
silence may expire, and a resolved alert pass its TTL, at any time; the caches and
the rings have a clock in ticks. An ACL match is a sequence of atoms joined by
`&&` or `||`, and what an atom means is open (section 3 says what the audit misses
because it does not know either); addresses are compared by a canonical form, not
parsed. A cache that was purged is reloaded table by table. In the
propagation model the CMS is patient: it raises nb_cfg again only after northd has
stamped the generation before (constant `Patient`); a generation that is overtaken
before its timestamp cannot be measured.

Definitions whose name ends in `_Something` and whose comment starts with
"Mutant" are plausible bugs, one per property of a run, as `PROJECT.json` lists them.

## 3. Runs

Passing runs. A property of a run is a conjunction of the named properties of its
modules, so that each module states its own and the run lists few.

| run | bounds | shows |
|---|---|---|
| `write_race` | 2 handlers, 1 plan, 1 row, 1 column, 1 foreign write, 1 fault or crash, 3 snapshots | AtMostOnce, AuditTruth, RecordsHold (CommitRecorded, RollbackBase), CancelIsFinal; the inductive invariant IInv; refinement PlanLifecycleHolds |
| `write_lists` | 1 handler, 3 rows (a switch, the port it holds, a port group with the port as a weak member or not there yet), lists of up to 3 operations that update, delete, overwrite the strong reference, or create with a weak one; 1 foreign write; a snapshot from before the port, so that a rollback plan can be committed; no faults (`write_race` has them) | ApprovedChange for lists, with what the server collects and purges; RequestsEnd and ExpiredPlansLeave under fairness |
| `session` | 2 handlers, 3 snapshots, cap 2, 2 builds, 1 failing monitor call | RoutedIsAlive; BackingsHold (NoLeak, ClosedOnce, WithinCap, CommitUnraced); LiveHolds (UnsuspendedIsWhole, LiveFollowsSessions); RequestsReturn and Drained under fairness |
| `alert` | 1 rule, a real alert and one that purged caches cause, 1 silence, 1 failing check, sessions, fairness | PagesAreRight (PagedOncePerEpisode, SilencedNeverPaged), NoFalseResolve; AlertsFollow (StandingIsPaged, GoneIsResolved) |
| `hub` | clients: 2 publishers of 3 events, 1 client, buffer 2, the persistence goroutine not scheduled; history: 1 publisher of 4 events, buffer 2, batch 2, 1 session, 1 failing insert, the stop | ChannelsHold, ClientsInOrder; EventsHandled (ExactlyOnce, StoredInOrder); HubProgress (PublishersNeverStall, StopReturns) under fairness |
| `stores` | limiter of 2 per 5 ticks; ring of 2; 2 lookups of 3 keys through 2 entries; 2 traces and 2 events; reports of 2 ticks; 3 snapshots of 2 tables, one with 2 rows and one without, a column that may be null, two import files (one lists a row twice, one differs in both rows), 1 upset; 2 failover plans over 2 gateways that share a chassis, 1 foreign write | StoresHold and StoresSteps (SpanBound, RefusedOnlyWhenBusy, RingIsAQueue, QueryIsExact, the age bounds, FreshSurvivesGet, OldestTraceMakesRoom, EventsKeptWhileWanted, NoFalseError); HistoryHolds and HistorySteps (SnapshotsAreWhole, AutosBounded, DiffExplains, ExportWholeOrBare, OperatorsKeepTheirs, NoRepeatedAuto); FailoverHolds and FailoverSteps (DrainRemembers, MovesOneGroup, TargetLeads, DrainIsComplete, SwapExchanges) |
| `lifecycle` | 2 databases of 3 tables, 2 monitor faults, 1 lost connection; 2 chassis with 3 flaps; 2 clusters; 2 requests in flight at the shutdown, one of them a WebSocket; 2 calls from 2 addresses over a throttle table of 1; HA group of 2 hosts, in one order of rows and hosts (they are interchangeable); 3 endpoints, the second dead; 1 chassis, 2 generations, a subscription buffer of 2, 1 removal, purge or dropped event | ClientsHold (ConnectAllOrNothing, ReadyIsWhole, NoOrphanMonitor), ProcessHolds (PoolClosesAll, NothingOrphaned, AllEnded, DrainedFirst), HttpHolds (GuessesBounded, MutationsAreNamed, AnswersAreCounted), RulesHold (NoFalseAnomaly, NoFalseFailover, MissingOnlyWhenJoining, LiveUrlsHearAll), TrackerHolds (MeasuredFromItsOwnStamp, RecordedOnce); LifeProgress (ReachableIsMonitored, PoolCloseReturns, SignalEnds, EventuallyAccounted) under fairness |
| `analyses` | every input of the sets in `MCAnalyses` (the assumption `InputsAreInputs` says that each is one the theorems speak of); requests of 2 operations; captures with 2 foreign transactions; 3 port changes during a report; a lab of 1 switch, 2 routers and 3 chassis with 2 events | GatewayAnswers, PolicyAnswers, PortAnswers, ReachAnswers (each analysis against a reference definition; the last one has the impact tree, the search and the size of the ACL report); ReadersHold (NoFalseMissing, AcceptedIsOneTransaction, ReplayIsClosed, StableRowsSurvive, ServeAllOrNothing, OrphansLapsed); LabHolds and LabSteps (SimNamesUnique, SeedRestores, CleanRestores, MarkersAreTrue, GroupsAreManned, ForeignKept, FailoverDemotes) |

Why the bounds are enough to be interesting: one plan with two handlers has every
race over a plan (the proofs cover any number); two operations on the same row
and column make the order of a list matter; a cap of two with three snapshots
makes refusals and a remaining session possible; three column values let a
foreign write differ from both the previewed and the planned value; a buffer, a
batch, a ring and a cache of two are filled and overrun; gateways that share a
chassis make a drain touch two groups; two tables that refer to each other can be
captured torn; a port that only one switch holds, and that a group lists, is
collected and purged; one fault of each kind happens at every point where it can.
Deadlock is checked except where the modelled part ends or has nothing left to do
within its bounds (`session` after Close, the stop function in `hub`, the parts of
`stores`, `lifecycle` and `analyses`).

Violation runs, each refuting a sentence of the repository:

| run | says | the code |
|---|---|---|
| `write_moved` | `docs/explanation/write-safety.md:34`: a changed target row aborts the apply | buildWaitOps asserts only the columns an update writes, and existence for a delete |
| `session_dark` | `snapshotsession/manager.go:294-296`: never left suspended with no snapshot | SuspendMonitors purges and suspends, then reports a failed cancel; reconcileLive returns without recording liveSuspended, and the last Unload finds nothing to resume |
| `alert_unseen` | `alert/engine.go:252-253`: no resolve notice for an alert that was silenced while firing | the silence is looked up at the time of the resolve, and `notified` is not |
| `hub_stop` | `history/collector.go:230-232`: a graceful stop persists everything published before it | after the cancel, select may still pick the flush timer or an event that fills the batch; both flush on the cancelled context |

Further disagreements and limits that the models exhibit and for which no run is
listed. Where a property would fail on one of them, its comment states the
exception.

- Write engine: an apply whose pre-apply snapshot fails leaves no audit entry although
  `api/handler/write.go:47` takes a missing entry for a client error; a rollback
  during a session warns about rows that still exist (`write/engine.go:270`); a
  suspension between the readiness flag and the cache reads rejects a valid write
  (`write/engine.go:601`); a cancel answered with success does not stop an apply that
  already has the plan; a bucket and its refill fit into one minute, so more
  operations than `--write-rate-limit` do; two equal NATs in one request are not seen
  as duplicates (`write/validate.go:250`). The server does more than a diff announces:
  deleting a switch or a router, or overwriting a column that holds rows, has their
  ports, ACLs, NATs and so on collected, and weak references to what is gone emptied
  (`write/registry.go:176-201`). The impact tree of a preview names the cascades of a
  delete (`Impact`); nothing names those of an update. A plan that creates a row of a
  non-root table is answered with success although the server collects the row at
  once, and a plan that deletes a row that is still referred to strongly passes the
  preview and is refused by the server.
- Failover: a name need not be a gateway's: if no NB group has it, Failover moves
  the only group of the target whatever name was given (`write/failover.go:286`),
  or any of the groups whose chassis are exactly those of the SB group of that name
  (`:353-357`); a mark left by an evacuation becomes stale when a failover swaps the
  drained row; at priority 32767 the bump goes down instead of up and may tie with
  the next member (`write/failover.go:78`).
- Alerts: one that returns within the resolved TTL keeps its resolved entry, and
  is announced as resolved if it never paged (`alert/engine.go:213`). The HA rule
  reads groups and rows apart (`alert/rules.go:249-330`): a member row replaced in
  between gives it a false leader, and a false failover in this evaluation or, when
  it compares with that leader, in the next one. A chassis is reported without a
  heartbeat when it joins between the reads, or while Chassis_Private is purged and
  the other two tables are back (`alert/rules.go:27-45`).
- Sessions and pauses: Load counts a snapshot as loaded and as loading until
  reconcileLive has returned (`snapshotsession/manager.go:177`); pause checks of
  the alert engine and the collectors are stale once a suspension starts after
  them, so an automatic snapshot of a purged cache and reload events can be stored
  (`history/collector.go:115`, `:220`); SuspendMonitors says that the caches stay
  silent, and updates in flight may still arrive (`ovsdb/client.go:419-424`).
- History: a diff against an id that does not exist reports every row as added or
  removed.
- Propagation: a tracker seeded in the middle of a generation, or a CMS that raises
  nb_cfg quickly, loses measurements. The tracker's subscription is a buffer of 256
  like any other, and the hub drops what does not fit (`events/hub.go:146`): after a
  dropped timestamp the next generation is measured from the one before, and a dropped
  acknowledgement is accounted for only when the row changes again.
- Caches: the health cache can start a second fan-out after the first has
  returned and before it is stored (`api/handler/ovs.go:129`).
- Analyses: an ACL match with `||` is cut at every `&&` as text, so a shadow can be
  false; matches are compared by the texts of their conjuncts, so shadows that follow
  from their meaning (`ip` over `ip4`, an address in a wider prefix, the same conjunct
  in parentheses) are missed (`debug/acl_audit.go:254-285`); equal matches of equal
  priority are called shadowed too, which of the two decides is open
  (`debug/acl_audit.go:169-201`), while `docs/how-to/audit-acls.md:18` speaks of a
  higher-priority rule; a report with exactly the maximum of findings is marked as
  truncated; the comments at `gateway/analyzer.go:49` and `:378` call a stale owner a
  degraded gateway and a warning, and for one with HA members the election has already
  made it an error; a purge of the SB cache between the lists of FDB and Port_Binding
  reports every FDB row as an orphan (`debug/stale.go:111-116`), and a NB cache that
  trails or was purged reports bindings; PortBindingDetail does not resolve `cr-`
  bindings; Copp is missing from ReverseRefs; a next-hop conflict may compare rows of
  two ports when the egress is unknown; the FDB check ignores dp_key
  (`debug/stale.go:108-139`); DiagnoseAll and DiagnosePort treat duplicate bindings
  differently; Search may call an answer truncated that is complete.
- HTTP: wrong passwords are bounded per address and window only between two successes
  of the address, and not at all for a new address while the table is full of open
  windows (`api/auth.go:150-155`, `:163-167`); metrics do not count 401 and 429
  answers; the stale header is computed before the handler reads (`api/server.go:26`).
- Start-up: Shutdown does not wait for hijacked connections, so WebSocket handlers
  (`api/handler/ws.go:63`) run on until the process exits, with the parts ended
  around them; when buildCluster fails, the parts of the clusters before it stay
  (`main.go:273-281`), which the exit of the process ends.
- Simulator: a seed after a run that deleted a router, or after an interrupted
  clean, is refused by an index although `ovnsim/seed.go:71` calls it idempotent;
  removeNAT and haMemberChurn may touch foreign rows below owned parents
  (`ovnsim/scenarios.go:30-31`); VIFs stay plugged after deleteSwitch; a bind whose
  record fails leaves the port unmarked; seed and run at the same time may give a
  name twice; clean deletes load balancer groups by their prefix.

## 4. Fairness

- `WriteEngine`: weak fairness of every request's steps and of the cleanup
  ticker. `SnapshotSession`: the same for load and unload, strong fairness for
  taking `liveMu` (Go mutexes hand over to a waiter in starvation mode), weak for
  the drain timers. Builds have a 30 s deadline. OVSDB transactions and the
  monitor calls of reconcileLive have no deadline in the code: that they return,
  answered or because the connection broke, is an assumption on the server.
- `AlertEngine`: the ticker fires and an evaluation runs to its end (checks read
  memory; webhook posts have a timeout); resolved alerts age. Operators and the
  cluster owe nothing.
- `EventHub`: publishers' walks, the persistence goroutine, the stop function and
  a session change in progress proceed. Clients owe nothing, in particular they
  need not read.
- `OVSPool`: supervisors and their backoff timers run on; strong fairness for the
  select of a supervisor noticing the cancel, which competes with the timer.
  Chassis owe nothing: ReachableIsMonitored speaks of those that stay reachable.
- `Startup`: Shutdown returns when the ordinary requests have ended or at its
  deadline, and the deferred functions run. WebSockets owe nothing.
- `PropagationTracker`: the goroutine consumes its events, and a purged cache is
  reloaded. EventuallyAccounted excepts the events the hub dropped. ovn-northd and
  ovn-controller owe nothing.

## 5. Proofs

Eight modules hold theorems. Each extends the modules it is about; the properties
that runs and theorems share are stated in the component's module, or in `Stores`,
`Lifecycle` or `Analyses` where a run checks several components by one conjunction.
The theorems hold for every value of the constants: any number of handlers, plans,
snapshots, subscribers, alerts, gateways, tables, chassis, clusters, requests,
generations and faults, any rate, capacity, age and threshold, and, for the analyses,
any rows.

### What is assumed

Only the named assumptions on constants, which TLC evaluates in the runs:

| assumption | says | why the code justifies it |
|---|---|---|
| `WriteConstants` | null values are no real ones, finitely many rows, strong and weak columns apart, deployments whose references lead to rows and whose non-root rows are held, well-typed requests, natural bounds | a nil pointer is no plan; a cache holds finitely many rows; the server has enforced its schema before |
| `SessionConstants` | null values are no real ones, finitely many snapshots, a natural cap | the catalogue is a list; SetMaxLoaded ignores values that are not positive |
| `HubConstants` | the history subscriber is no client; buffer and batch are at least 1 | both are constants of the code (256, 100) |
| `AlertConstants` | each alert has a rule, silences cover sets of alerts | a fingerprint is made of the rule's name and the labels |
| `HAConstants` | each row has a host and a group, initial priorities from 1 up to the maximum, finitely many groups | columns of HA_Chassis |
| `ClientConstants` | finitely many tables, the skip list names some of them | the schema is finite; a listed name that is no table skips nothing |
| `HistoryConstants` | at least one source, finitely many keys and finite files, contents are functions from columns to values | `collector.go` lists its sources; a row is a map |
| `HttpConstants` | finitely many requests and addresses, positive limits | constants of `auth.go` |
| `PoolConstants` | the null client is no client | - |
| `TrackerConstants` | finitely many chassis, at least one generation | nb_cfg is positive once it is reported |
| `RateConstants`, `RingConstants`, `CacheConstants`, `TraceConstants`, `ReportConstants` | rates, capacities and lifetimes are natural numbers, capacities and the rate at least 1 | constants of the code; a limiter is only made for a positive rate |
| `StartConstants` | at least one cluster | the configuration always names the default one |
| `RuleConstants` | positive flow counts, finitely many hosts, one row to spare for a replacement, at least one endpoint | a table that is purged is modelled apart; a notifier is only made for a URL |
| `GatewayConstants`, `MaxFindingsAssumption` | finitely many gateways with finite member lists, a natural threshold and priority range | columns of the schema (priorities are 0..32767), constants of the code |

The theorems about the analyses have a hypothesis, `IsInput`: what is asked is a
state that the caches can hold. `IsIndex` bounds priorities by the schema's range;
`IsRuleSet` says that a match has at least one atom and that the atom `1` stands
alone; `IsRoute` and `IsNetwork` say that absent rows are not rows and that there are
finitely many ports; `IsJoined` says that chassis names are unique, which is an index
of the schema. TLC checks that every input of the run satisfies its predicate.

### What is proved

| module | theorem | statement |
|---|---|---|
| `WriteEngineProofs` | `InvariantHolds`, `TypeCorrect` | `Spec => []IInv`, `Spec => []TypeOK` |
| | `PlanAppliedOnce` | `Spec => []AtMostOnce` |
| | `AuditIsTrue`, `RecordsAreComplete` | `Spec => []AuditTruth`, `Spec => []RecordsHold` |
| | `CancelsAreFinal`, `ReviewedIsWhatRuns` | `Spec => CancelIsFinal`, `Spec => ApprovedChange` |
| | `EngineImplementsLifecycle` | `Spec => PlanLifecycleHolds`: the refinement of the abstract life of a plan |
| `SnapshotSessionProofs` | `SessionInvariant` | `[]SessionInv` |
| | `RoutesAreAlive`, `BackingsAreOwned`, `LiveFollows` | `[]RoutedIsAlive`, `[]BackingsHold`, `[]LiveHolds` |
| `EventHubProofs` | `HubInvariant` | `[]HubInv` |
| | `ChannelsAreSound`, `EventsAreHandled`, `ClientsNeverGoBack` | `[]ChannelsHold`, `[]EventsHandled`, `ClientsInOrder` |
| `AlertEngineProofs` | `AlertInvariant` | `[]AlertInv` |
| | `PagesRight`, `NothingResolvesFalsely` | `[]PagesAreRight`, `NoFalseResolve` |
| `HistoryStoreProofs` | `HistoryInvariant` | `[]HistoryInv` |
| | `HistoryIsSound`, `HistoryStepsAreSound` | `[]HistoryHolds`, `HistorySteps` |
| `StoresProofs` | `StoresInvariant` | `[]StoresHold`: limiter, ring, enrichment cache, traces and events, reports |
| | `RingImplementsQueue`, `StoresStepsHold` | `RingIsAQueue` (the refinement of `BoundedQueue`), `StoresSteps` |
| | `FailoverInvariant` | `[]HAInv` |
| | `FailoversHold`, `CommitsDoWhatWasAsked` | `[]FailoverHolds`, `FailoverSteps` |
| `LifecycleProofs` | `HttpInvariant`, `HttpIsSound` | `[]HttpInv`, `[]HttpHolds` |
| | `PoolInvariant`, `PoolIsSound` | `[]PoolInv`, `[](PoolTypeOK /\ PoolClosesAll)` |
| | `TrackerInvariant`, `TrackerIsSound` | `[]TrackerInv`, `[]TrackerHolds` |
| | `StartInvariant`, `ProcessInvariant` | start-up and shutdown alone, and with the pool `[]ProcessHolds` |
| | `RulesInvariant` | `[]RulesHold` |
| | `ClientsInvariant`, `ClientsAreSound` | `[]ClientsInv`, `[]ClientsHold` |
| `AnalysesProofs` | `GatewayIsRight`, `PolicyIsRight`, `PortsAreRight` | `IsInput => GatewayAnswers`, `IsInput => PolicyAnswers`, `IsInput => PortAnswers` |
| | `ReadersInvariant` | `[]ReadersHold`: validation, snapshot files, the stale-entry report |

The hypothesis of a temporal theorem is the specification of its component, or of
several that share nothing. Fairness is not used; `TrackerSpec` states it, and the
others do not.

### Along which argument

A step proof has one lemma or step per action, and groups the actions that leave
the invariant's variables alone.

**Write engine.** AtMostOnce is not inductive: that a plan is committed once rests on
it having left the cache before, on nobody else holding it, and on the mutex. IInv
adds LockInv (the mutex is held by the one handler in a locked stage), PlanInv (a plan
in the cache is uncommitted), HeldInv (a plan that Apply took is out of the cache and
uncommitted until the reply) and AuditInv (an audited plan is neither on offer nor in
work). CancelInv (a cancelled plan was stored and is not on offer) is inductive
relative to IInv. ApprovedChange follows from IInv, a second invariant and lemmas
about Mutate, Collect, LastValue and the waits: the last writer of a column is an
operation of the plan, and its wait held. The second invariant is Settled: the
database before the transaction has nothing to collect, so what the server collects
lost its holder in the transaction. Kept is a union of supported sets, hence supported
itself (KeptHolds), the largest such set (KeptIsLargest) and closed under references
(KeptGrows), so nothing that is left refers to what is collected. The rows that no
path of strong references reaches from a row the plan deletes or rewrites hold each
other as before, so they are kept (HangingIsCollected). For the refinement, every step
maps to Offer (PreviewStore), Claim (ApplyGet), Commit (ApplyCommit), Retire (the ends
of Apply, a cancel, an expiry, a crash) or a stutter, and IInv says in which status
the plan was.

**Snapshot sessions.** JobInv: a load under way keeps its id reserved, no two
reserve the same. OwnerInv: a backing has one owner, the load that built it, the
session it was committed to, or the drain; the count of closes tells open from
closed. LockInv: who holds `liveMu` and `OVNDatabases.mu` in which stage, and what
that says of the caches. FollowInv, which LiveHolds needs: while no monitor call
has failed, either someone is still going to compare, or someone is switching to
what the sessions now ask for, or nobody is and the monitors are as asked.

**Event hub and collector.** WalkInv: a walk carries its publisher's newest event
to open channels. ClientInv: what waits for a client is ascending and newer than
what it has received. LineInv: what the history accepted is the disjoint union of
skipped, lost and one sequence (stored, then batch, then the event in hand, then
channel), which ascends per publisher. ExactlyOnce is a count over three places;
it follows from disjointness.

**Alert engine.** PagedInv: an alert that has paged or is about to fires and is
marked. HushedInv: one silenced all through an evaluation has no note. SteadyInv:
one that stood all through it has its rule still to be checked or failed, or is
waiting to be entered, or was seen; so Resolve cannot take it.

**Failover.** PlanInv says what operations a plan has by the rows it read (drain,
restore, swap or bump of the group and target it names). DrainInv: a row that was
only drained and restored holds one of two values on the server, in the cache and
in what every plan has read.

**OVN clients.** LoadInv: in a load that has reached request n, the tables of the
requests before n are cached and monitored. QuietInv: without a failure, monitors
on the server and cookies in the client go together. OperInv and ClientInv relate
the stages of Connect and Resume to the handle.

**History store.** A snapshot has one row per key (StoreInv), and ids are never
used again, so what an export or the comparison of the collector has read stays
true or refers to a snapshot that is gone (ExportInv, CompareInv). That differences
explain one snapshot by the other is a lemma about Diff over arbitrary keyed sets
of rows, modulo columns that are null: ModelToMap writes a nil column as null, and
the diff takes a column that is missing for a null one.

**HTTP chain.** GuessesBounded is a bound on failures; a request that is past the
check may still fail. ThrottleInv therefore counts it as if it had: failures plus
requests in the lookup are at most the limit less one plus the number of requests.
What is bounded is the number of wrong passwords themselves (`wrong`, an observation
of its own); WatchInv ties it to the entries of the table. The table of addresses is
bounded because a full table is swept, and drops the sample when nothing in it has
expired.

**Chassis pool.** MemberInv: an open client belongs to one chassis. OpenInv: it
stays open until Close has joined every supervisor. Both make a dial on a closed
client and a second close impossible.

**Propagation tracker.** OnceInv: how often a chassis was recorded for a generation,
plus one while its entry is below it, is at most one more than the removals the
tracker heard of. OrderInv, under `Patient`: whenever the next generation's bump is
queued, the timestamp of the generation before is held by the tracker, queued ahead of
it, or was dropped. The states in which it fails are those of a tracker seeded in the
middle of a generation, which the property excepts.

**Write limiter.** SpanBound speaks of any two grants, and is not inductive. OwedInv
relates every grant to the present: what was granted since, plus the tokens left,
exceeds a full bucket by no more than what was refilled since that grant. SpentInv:
a bucket that is not full has a grant at or after the last refill, so a refusal has a
recent grant to blame. The arithmetic is nonlinear; three lemmas about `\div` and
products carry it.

**Ring of changes.** LogInv compares the ring with the log of everything that was
added: its contents are the last `count` entries, and an entry among the last MaxSize
that it no longer holds is past its age. An Add is then a put of the abstract queue
that drops what the limits allow.

**Caches and reports.** An entry of the enrichment cache expires at most one lifetime
and one call after its information was read, whichever of two racing answers was
stored last (EntryInv). A health report is dated by the request that led the flight,
before it reads; who joins a flight asked no longer than a flight after the read
(HealthInv). Traces: after an eviction and a store there is room again, and what was
evicted is as old as anything kept.

**Start-up.** Every running part has an owner among the deferred functions, but for a
cluster that is still being built and for the parts that a failing buildCluster leaves
(OwnedInv); the defers are ordered by the rank of the steps, and what a part uses has
a lower rank (StackInv), so the stack ends users first.

**Alert rules and webhooks.** HaInv: the leader of a group is among those that led
since the last check, a check that read no replaced row has the group as it was, and
the leader it remembers is one of those unless it was torn, which the next check
remembers of it. HookInv: what a live endpoint has received, followed by what is still
to be posted to it, is what Notify was given.

**Analyses.** No induction over steps; each theorem follows from what the definitions
compute. The elected gateway is alive and has the highest priority (a bounded set of
numbers has a largest element); an ACL whose atoms are, as pieces of text, among those
of another matches every packet the other matches, whatever the atoms mean, and for
matches without `||` the audit finds every pair for which that can be said of the text;
the connectivity verdict is symmetric because the segment and the shared router are.

**Multi-step readers.** ValidationInv: unless the cache was seen to differ, it is the
database when references are looked up. SnapFileInv: a row that nobody touched is
unread or in the dump as it is; the file keeps such rows with the references among
them, and the servers hold what loading made of the file. StaleEntriesInv: a binding
that the report has listed is bound or has lapsed, so one that is missing among the
names has lapsed, or the Northbound cache trailed; an FDB row that was listed has its
binding or has lapsed, so one that is reported has lapsed, or Port_Binding was purged.

### Only model-checked

- All liveness properties (RequestsEnd, ExpiredPlansLeave, RequestsReturn, Drained,
  AlertsFollow, HubProgress, LifeProgress): fairness and ENABLED are outside the
  prover's reach.
- ReachAnswers: `Impact` walks the reference graph by recursion, and the search and
  the size of an ACL report are folds; what these compute for every input needs
  induction over the data.
- LabHolds and LabSteps: the simulator's commands are lists made by SelectSeq,
  FlattenSeq and SetToSeq and done one transaction at a time; which rows a list names
  needs induction over the rows it was made from.
- The violation runs are counterexamples and need no proof.

## 6. Not modelled

- Views and topology handlers, OpenAPI, the UI: one read rendered as text.
- Configuration parsing, TLS, JSON and CSV encoding: strings in, strings out.
- `api/handler/trace.go`: a walk over the logical flows of a pipeline whose match
  language would have to be interpreted.
- SQL, the OVSDB protocol, webhook delivery, the providers of enrichment: external,
  modelled by what the code relies on.
- Requests in flight through the cluster proxy and their duration against the
  drain grace (`snapshotsession/manager.go:299`).
- Alert rules that map one row to one alert (BFD down, port down, unbound port):
  they are conditions of `AlertEngine`.
- Generated OVSDB models and test utilities.

`components` in `PROJECT.json` gives the reason for each. The mapped definitions
stand for about 10,200 of the 31,800 lines of the implementation; of the rest,
about 6,000 are generated database models and 1,000 test utilities.

## 7. Plan

Done: the modules of section 2, the runs of section 3 and the proofs of section 5.

Next:

1. The composition of session, alert engine and collectors over one pause flag.
2. Requests through the cluster proxy against the drain grace.
3. ForeignKept and FailoverDemotes of the simulator as theorems, once its commands
   are sets of transactions rather than lists.
