# CloudCtl: TLA+ models of the control plane

CloudCtl drives Android devices from a cloud API. Operators, schedules and publish plans
create work; the Companion app on a device, or an Edge gateway beside it, carries it out
under a lease and asks for permission before the one step that cannot be undone. The hard
part of the system is not any single handler. It is that dozens of handlers, under different
row locks, move the same rows while devices, leases, sessions and operators go on
independently, and that **a commit whose outcome is unknown must never be repeated, forgotten
or contradicted**.

Paths below: `CA` is `src/services/control-api/src/cloudctl_api`, `OB` is
`src/services/outbox-dispatcher/src/cloudctl_outbox`, `KT` is
`src/mobile/companion/app/src/main/java/com/company/cloudctl/companion`.

## 1. Inventory

`PROJECT.json` lists every component with its sources and status, and under `hazards` each
line where one of the behaviours below bites, with the property that covers it.

| Component | State | Hard behaviour | Module |
| --- | --- | --- | --- |
| Companion tasks (`CA/mobile_service.py`, `platform_tasks.py`) | two state columns, lease, session stamp | claim() reads without locks; create() in two transactions; lease expiry | `MobileTask` |
| Controlled-action ledger (`CA/mobile_actions.py`) | one row per task and action | lost answers, replays, new leases | `MobileTask` |
| Step scripts and creation gate (`CA/mobile_actions.py` and the builders) | - | the gate and the ledger must agree on what a script is | `StepScripts` |
| Control stream (`CA/platform_tasks.py`, `fleet_identity.py`; `KT/control`) | numbered events, device cursor, snapshots | events committed out of order, lost answers, more events than a heartbeat holds | `ControlFeed` |
| Live control (`CA/fleet_live.py`, `live.py`) | sessions in memory, one lease row | late and repeated inputs, restarts, take-over | `LiveSessions`, `MobileTask` |
| Fleet identity (`CA/fleet_identity.py`, `mobile_service.py`) | codes, bindings, sessions, preview | authenticate in one transaction, act in another | `FleetIdentity` |
| Accounts and bindings (`CA/services.py`) | bindings and versions | rebinding while work is queued | `Accounts` |
| Debug sessions, device leases (`CA/debug_service.py`, `services.py`) | one lease row per device | five writers replace it | `DebugSessions` |
| Publish queue (`CA/xianyu_publish.py`) | targets, attempts | overlapping dispatch, claims against evidence | `PublishQueue` |
| Publish workflow (`src/services/temporal-worker`, `CA/services.py`) | plans, targets, intents | activities repeated after a lost answer | `PublishFlow` |
| Schedules (`CA/features/schedules`, `src/services/temporal-worker`) | schedule, fire ledger | retried ticks, dying mints, manual fires, a tick workflow that ends | `Schedules` |
| Outbox (`OB`) | events, claims | dying and slow dispatchers, poisoned events | `Outbox` |
| Operation tasks (`CA/operation_service.py`, `OB/operation_sink.py`) | task, items | repeated deliveries, failing executors | `OperationTask` |
| Library (`CA/services.py`, `features/`, `media_store.py`) | products, content, groups, uploads, assets | decisions on unlocked rows | `Catalog`, `Media` |
| Sources (`CA/source_service.py`) | connections, runs, links | paging by line number over a file that is rewritten | `Sources` |
| IM inbox (`CA/im_service.py`, `im_observer.py`) | messages, assessments, replies | results of an older generation, bounded queue, restart | `ImInbox` |
| Orders, listings (`CA/order_delivery.py`, `fleet_orders.py`, `fleet_listings.py`) | rows, checkpoints, snapshots | screens late, twice, out of order, overlapping | `Orders`, `Listings` |
| Maintenance, delete evidence (`CA/xianyu_maintenance.py`, `xianyu_delete_evidence.py`) | runs, approvals | fan-out interrupted half way | `Maintenance` |
| WeChat publisher (`CA/wechat_service.py`) | drafts, publications | network calls between transactions | `WechatPublisher` |
| APK releases (`CA/apk_releases.py`; `KT/updates`) | candidates, install ledger | install results after a restart | `ApkRollout` |
| Registry and recipes (`CA/services.py`) | packages, deployments, pins, drafts | roll-back under running tasks | `Recipes` |
| Edge hub and gateway (`src/services/edge-hub`, `src/edge/gateway`) | message store, spool | stream breaks, either process stops | `HubStore`, `EdgeGateway`, `EdgeLink` |
| Edge Companion API (`src/edge/gateway`, `companion_api.py`) | pairing, confirmations | confirmations lost with the process | `EdgeCompanion` |
| LAMDA driver (`src/packages/lamda-driver`) | session, device lock, sidecar | lock lapses behind a long call, APK changed between check and delivery | `LamdaDriver` |
| Device lock tool (`src/scripts/device_lock.py`) | SQLite lock table | time taken before the transaction | `DeviceLock` |
| Install window (`src/artifacts/three-device-20260928`) | evidence, maintenance flag | any command fails before or after its effect | `InstallWindow` |
| Operation catalogue, routes, command factory, acceptance scripts, DPC, observability, front ends, UI automation | - | - | not modelled (section 6) |

Components interact through PostgreSQL (READ COMMITTED): handlers lock rows
(`SELECT ... FOR UPDATE`) or read them without a lock, and hand work on through rows of
`outbox_event` written in the same transaction. Devices call the API; Edge gateways keep one
gRPC stream to the hub; workflows call the API from retried activities.

## 2. Modules

**How requests become steps.** A handler that decides on rows it has locked is one action,
with everything it calls. One that decides on rows it only read is two or more: what it read
is kept (`req[w]` of `ApiRequests`, `claim` of `MobileTask`, the program counters of
`OperationTask`, `PublishFlow`, `Schedules`) and others may commit in between. Calls over a
network stand between two transactions, and the process may die there. Values are abstracted
to what the decisions tell apart: time to ticks or "has expired", bytes to their digest,
error codes to their class.

### Tasks and their delivery

`MobileTask`: `status`, `biz`, `lease`, `live`, `stamp`, `error`, `retryOf` are columns of
`mobile_tasks`; `ledger` and `rowLease` are `mobile_action_commits`; `fence`, `dl`, `session`
belong to the device; `changed` is the set of tasks whose frozen binding is no longer current;
`claim` is the claim() in progress; `viewer` the live sessions. `grants` and the value `LATE`
of `created` are history. Not one action each: claim() (`ClaimCheck`, `ClaimSelect`, then
`ClaimCommit`, `ClaimNothing` or `ClaimAbort`; handlers that need a lock it holds wait);
create() without a caller's session (`Insert`, `StampBusinessFields`); release and close of a
live session (read the lease row, then `LiveWrite` by key). A lease id is the fencing token
minted with it; capability rules of the scan are an arbitrary set `skip`; gates are refusals;
every task with an account is a write task.

`EventDelivery` is the abstract outbox: an event is delivered to sinks any number of times in
any order and acknowledged only once every sink has had it. `Outbox` (the store, any number of
dispatchers, the fan-out) implements it, with `acknowledged <- published`.

`OperationTask`: the service methods lock the task row and are one action each;
`OperationExecutionSink.publish()` is cut at its transactions. Deliveries are what
`EventDelivery` promises. `Fault` is a raising executor, a dying dispatcher or a lost
acknowledgement.

`PublishFlow`: plans, targets, approvals, leases and intents of the API with the plan and
target workflows activity by activity; every activity may be retried, fail before or after
its effect, or be exhausted. The Edge executor is external.

`Schedules`: the schedule row, its fire ledger and the tasks minted, the tick workflow, and
requests that outlive the activity that sent them. The calendar grid is a sequence of periods.
The tick workflow polls `MaxTicks` times (max_ticks) and returns, and it fails when a poll uses
up POLL_RETRY; nothing starts another one.

### Edge

`HubStore` (message store, stream, grants, browser ingress) and `EdgeGateway` (spool, stream
handler, scheduler, runner, debug sessions) are joined in `EdgeLink` by a stream that breaks.
Each spool transaction is a step, so the gateway may stop between any two: the runner stores the
state of a command in one and queues its report in another (`RunnerBegin` or `RunnerEnd`, then
`RunnerReport`). A lease is its fencing token, and the gateway is the one with a debug handler.
`FifoDelivery` is
the abstract channel: what one side has recorded is a prefix of what the other sent. The
configurations give every command a lease of its own (`OwnLeases`).

### Services

`FleetServices` composes twenty modules that share the API workers and `unit_of_work()` but
no row. A behaviour stays with one service (`service`), with a request bound per service
(`Budget`); since no service reads another's rows, nothing is lost by not mixing them.
`LiveSessions` gives two services (`live` and `slice`, the older one still mounted), `Recipes`
three (`recipes`, `packages`, `drafts`).

| Module | Abstractions worth knowing |
| --- | --- |
| `Library` (`Catalog`, `Media`) | a product write refers to the assets registered when it is written; the price stands for all of a product's fields, a digest for a byte string |
| `WechatPublisher` | the platform (`official`) is external and moves by itself |
| `PublishQueue` | a claim and its evidence are sets of labels |
| `ImInbox` | RuleMsgs are what the rules recognise; `gen` numbers the model's generations |
| `Orders`, `Listings` | a row's optional columns are its status or its hash; pushes of listing screens come in any order and overlap, and `raced` names the listings two different screens wrote at once |
| `Maintenance` | all approvals name one listing; the screenshot comparison is a verdict |
| `StepScripts` | a script is a sequence of steps, built by the server or an edit of that |
| `ApkRollout` | one device and package, all releases fit it; the installer is external |
| `Recipes` | a slot is a device and a command type; what it runs is a history that passes through the accepted requests (`PassesThrough`) |
| `DeviceLock` | a worker is a session at a shell; the time it decides on is when it started |
| `DebugSessions` | workflows, maintenance and live control compete for the lease |
| `Sources` | a record is its external id and content; the file is any sequence of records and is rewritten between pages; the cursor is a line number; a run is one transaction; `rows` of a run is what it could still read |
| `Accounts` | accounts of one platform, devices on one edge |
| `ControlFeed` | the time a request took is its device-wide number; the events a task keeps are a set, ordered by their revision; `behind` and `omitted` name the numbers the code passes over |
| `InstallWindow` | every command may fail before or after its effect |
| `LamdaDriver` | two threads, one transport; what an operation does to the screen is one effect; the APK is hashed in one step and delivered in another, `swapped` says that it changed in between |
| `LiveSessions` | inputs are messages that stay around and may be sent again |
| `FleetIdentity` | authenticating and acting are two transactions; a capability table is not negotiated (`{}`) or one set of keys; a table with an unknown key is refused |
| `EdgeCompanion` | confirmations are in memory, everything else is in the spool |

Besides the mutants listed in `PROJECT.json`, some modules keep further faulty variants of
their operators beside the originals; replacing the original by one of them is refuted in the
same way.

## 3. What the runs check

| Run | Instance | States | Properties |
| --- | --- | --- | --- |
| `mobile_task` | 2 tasks of one account on 1 device, the second created in two transactions, 2 actions each, 2 leases, 1 session | 390 011 | `OpenCommitParked`: an unresolved row keeps its task RECONCILING; `SingleAuthorization`; `RetryOnlyUncommitted`; `SettledAgreement` of the columns; `OccupationOwned`: the AUTO lease in force names a task that holds it |
| `mobile_live` | 1 publish-queue task, a session of each live service, a workflow, 4 leases, 2 sessions | 792 734 | `OccupationOwned` |
| `outbox` | 2 dispatchers, 3 events (1 poisoned), 2 sinks, batches of 2, 1 failure, 2 overruns | 121 467 | `AtLeastOnce` (refinement), `ClaimReleasedByHolder`, `HealthyDelivered` (liveness) |
| `operation_task` | 2 items, 2 workers, 2 faults, risky or not | 30 192 | `TaskTruthful`: status follows items, no lost work, approved first; `Settles` (liveness) |
| `publish_flow` | 1 plan, 2 targets on 1 device, approval, confirmation of the second, 2 runs, 2 fencing tokens | 548 803 | `CommitSafe`: one commit, fenced, approved, not called failed unobserved; `PlanRunEnds` (liveness) |
| `library` | of `FleetServices` the service `library`: 2 workers, 4 requests, 2 products, SPUs and prices, 2 digests; the service `sources`: 2 external ids, files of up to 2 rows, 2 rewrites, pages of 1 | 575 643 | `LibraryTruthful`: revisions name one content without gaps, assets hold their bytes, derivatives lead to their source; `SyncComplete`: a completed full run leaves a link or an error for all it could still read |
| `edge_commands` | 2 commands under an older and a newer lease, 3 messages, 1 fault | 1 441 908 | `LinkSound`: nothing lost, no gap, no command worked twice; `NewerLeaseWins`; `EdgeToCloud` (refinement of `FifoDelivery`) |
| `edge_debug` | 1 debug session, 4 messages, 1 fault | 166 095 | `RevocationHolds` across restarts; `EventuallyDrained` (liveness) |
| `schedules` | 2 devices, 2 workers, 2 periods, 2 polls, COALESCE_LATEST, 1 fault, 1 manual fire | 927 024 | `OccurrencesSound`: one task per occurrence, no row that claims a task it lacks; `PeriodsDecided` (liveness) |
| `fleet_services` | the other 21 services, 2 workers, 3 to 9 requests each | 984 480 | one invariant per module, below |
| `unknown_redispatch`, `control_skip` | - | - | the findings of section 4 |

`fleet_services` checks: `SubmittedOnce` (freepublish/submit once, a settled row is true),
`QueueHonest` (listings one after another, recorded no more favourably than shown), `InboxTrue`
(badge and assessments), `OrdersTrue` (newest observation wins, no missing screen),
`ListingHistory` (a row is its last snapshot, snapshots are the changes), `RunFannedOut` (one
task per target, an answered run has all), `ScriptGated` (what is admitted as destructive strikes
once and is what the ledger authorizes), `RolloutTruthful` (INSTALLED only if it ran), `RegistrySound` (deployments,
pins, promotion, drafts), `LockExclusive`, `DebugFenced`, `BindingHonoured` (a task runs only
under the binding it was created for), `SkipsExplained` (pages, snapshots and lost answers pass
over no control event), `WindowAccountable`, `DriverAccountable` (a session that lost its lock
has one call left, the lock is given back, success means installed), `LiveSingleWriter`,
`IdentitySound`, `CompanionAccountable`.

Why the bounds suffice. Two workers give every pair of overlapping requests, and the races
found in this code are between two. In `MobileTask`, two tasks are what claim() needs to
prefer, requeue and drop one for the other, two actions give two action ids, a second lease is
what an expired one, a resume or a re-claim needs, a second session makes an envelope stale.
In `outbox` a poisoned event, a crash and an overrun can meet in one batch. In `publish_flow`
the second target meets the lease the first one left. In `edge_commands` a repeated START, a
CANCEL and a broken stream meet. Each service's budget was raised until all its actions occur
and every listed mutant is refuted within it; `recipes` has one slot, three keys and five requests,
so that a roll-back meets an older version than the last. Workers are interchangeable where symmetry is
used: they index `req` and own locks, and nothing orders them.

Some properties name the cases the code does not cover, and hold in all others. The cases occur
in the runs, and where the repository claims otherwise section 4 says so:
- `SkipsExplained`: an event written behind what the Companion was already told, because its
  request took the time first and committed last (`behind`), or left out of a heartbeat that
  carries the newest `MaxInline` events (`omitted`). `FleetServices.cfg` has the code's limit of 2
  and overlapping requests; `ControlSkip.cfg` checks `NothingSkipped`, without the exceptions.
- `ListingHistory`: push_screen() takes no row lock, so of two screens that overlap on a listing
  one works from a row the other has replaced: the count falls behind and a snapshot may repeat
  (`raced`). That the row is its last snapshot holds even then.
- `SyncComplete`: a row that moves up across the line cursor before it was read (`rows` of the
  run loses it), and a page that cannot be read, which read_page() answers like the end of the
  file (`misread`).
- `DriverAccountable`: altered bytes are delivered only if the file changed after its hash was
  taken (`swapped`).
- `PeriodsDecided`: under COALESCE_LATEST, as long as the tick workflow has a poll left.

Properties of `MobileTask` about commits quantify over `InOrder`, the tasks whose create()
did not overwrite them afterwards.

Type invariants are in no configuration where TLAPS proves them (section 5).
`CHECK_DEADLOCK FALSE` is set where the system may stop: all tasks settled, requests used up,
nobody queues. `Outbox`, `OperationTask` and `Schedules` are checked for deadlock.

Fairness, where a liveness property is checked:
- `Outbox`: run() loops while its process lives and a sink call answers or raises (WF per
  dispatcher), a claim goes stale because time passes; one dispatcher stays up, transient
  failures are bounded. `HealthyDelivered` supposes fewer poisoned events than `batch_size`:
  mark_failed() has no backoff and claim() takes the oldest rows, so more would starve the rest.
- `OperationTask`: a publish() under way goes on (WF); an unacknowledged event is delivered
  again and again (SF), which is `HealthyDelivered`.
- `PublishFlow`: Temporal starts a target and goes on with a running workflow (WF each).
- `Schedules`: the tick workflow polls while it has polls left, its child mints, is answered or
  gives up, and requests end (WF each). Nothing is assumed of it once it has returned or failed.
- `EdgeLink`: the hub sends, the gateway connects, sends, handles and runs, the supervisor
  restarts it (WF each); nobody has to queue or browse; faults are bounded.

`MobileTask` and `FleetServices` assume none: devices, operators and time may stop.

## 4. Findings

Two disagreements have runs that TLC finds violated; lines and quotations are in `PROJECT.json`.

- `unknown_redispatch`: mark_unknown() between claim()'s unlocked read and its commit; a
  RECONCILING task is dispatched as new work.
- `control_skip`: a control request takes its time before it waits for the row, and the time
  is the event's number. Of two overlapping requests the later one can commit first; the
  Companion's cursor passes the earlier number and that event is never delivered.

The modules state further claims of the repository that TLC refutes when they are checked:

| Definition | What happens | Claim |
| --- | --- | --- |
| `OneActivePerDevice` (`MobileTask`) | two paused tasks of a device both resumed, both RUNNING (`platform_tasks.py:1107`) | `src/contracts/fleet/v1/fleet-identity-v1.md:60` |
| `AccountWriteMutex` (`MobileTask`) | account conflict read without a lock (`mobile_service.py:1626`) | same, `:61` |
| `StickyCancel` (`MobileTask`) | a late pause event overwrites CANCEL_REQUESTED (`mobile_service.py:1893`) | `platform_tasks.py:975` |
| `UnknownReconciled` (`MobileTask`) | confirm() settles a task behind its UNKNOWN row (`xianyu_publish.py:1136`) | `fleet-identity-v1.md:43` |
| `DowngradesOwnRow` (`MobileTask`) | release of a live session updates the lease that replaced its own (`fleet_live.py:657`) | comment at `:655` |
| `FinalBusinessState` (`MobileTask`) | create()'s second transaction puts a cancelled task back to QUEUED (`platform_tasks.py:1194`) | `contracts/parallel/K03/task-schedule-v1.md:19` |
| `FailedNotCommitted` (`PublishFlow`) | an exhausted commit activity is recorded as FAILED (`workflows.py:158`) | `docs/v1/03-逐项任务卡.md:324` |
| `PeriodsDecided` with `Policy = "SKIP"` (`Schedules`) | poll_due() never lists a backlog of two periods (`service.py:409`) | `fleet_schedule.py:30`, `:265` |
| `NothingSkipped` with `MaxOpen = 1` (`ControlFeed`) | a heartbeat carries the newest 2 events and the cursor goes to the newest: with 3 unseen the oldest is never delivered, though no requests overlap (`mobile_service.py:960`, `ControlSyncClient.kt:44`) | `ControlStateStore.kt:86` |
| `OneStrike` (`Maintenance`) | a second approval of the same listing after an unresolved first (`xianyu_delete_evidence.py:377`) | its docstring, `:304` |

Met while modelling and carried by the models as the code has them: a crash between the task
and the OUT message of an IM reply leaves a replay without its message (`im_service.py:743`);
sweeping an older session of the first live slice removes the entry of a newer one
(`live.py:111`); resume() replaces a REMOTE lease row while input is routed by memory;
overlapping enrollments leave two live bindings; stopping an old preview session ends a newer
one; a confirmation that is no longer in memory raises out of the gateway's loop and is
redelivered after each restart (`operator_actions.py:99`, `control_stream.py:138`); the debug
relay of the hub checks expiry, not revocation; pushes of two screens that overlap on a listing
lose an update or repeat a snapshot (`fleet_listings.py:314`); a CSV row that moves across the
line cursor is missing from a COMPLETED run, and a page that cannot be read ends the run as if the
file ended there (`source_service.py:99`, `:116`); an APK that changes after the sidecar hashed it
(`sidecar_server.py:196`) is delivered, since the file is opened again (`:125`) and
write_install_part() ignores the digest (`adapter.py:129`); the tick workflow returns after
max_ticks without the continue-as-new its docstring names (`fleet_schedule.py:265`, `:271`). Where one of these limits a property, the
property names the exception.

## 5. What is proved

With TLAPS, for every value of the constants that satisfies the named assumptions (types of
the parameters, tasks distinct from sessions and workflows, at least one sink, item, batch
slot; the ids of live sessions are neither of the words a lease row uses for "a task" or
"nobody"):

**MobileTaskProofs.** `TypeCorrect`, `OpenCommitParkedCorrect`, `SettledAgreementCorrect`,
`TerminalAbsorbingCorrect`, `SingleAuthorizationCorrect`, `RetryOnlyUncommittedCorrect`,
`LedgerMonotoneCorrect`, `OccupationOwnedCorrect`. `OpenCommitParked` is not inductive. That
claim() never requeues a task with an open row rests on the device lock: intent() needs it, so
no row opens while claim() is between its unlocked check and its commit, and what was open
before has been refused or is settled (`LockInv`). That it never dispatches such a task rests
on what the scan has chosen and on the row locks that keep the choice valid (`SelectInv`).
That a resolved row does not open again needs the state reconcile() leaves (`CommitInv`), and
throughout the two columns must agree. `AbsentInv` and `InOrderStep` carry the restriction to
`InOrder`; `GrantInv` ties the number of authorizations to the ledger; `RetryInv` keeps the
sources of retries settled and without rows.

**OutboxProofs.** `OutboxTypeCorrect`, `AtLeastOnceCorrect` (the refinement),
`PublishedFinalCorrect`, `ClaimReleasedByHolderCorrect`, from `OutboxInv`: the position of a
dispatcher in the fan-out counts the sinks that have the current event (`BatchInv`), and a
published row has no claim and reached every sink (`RowInv`).

**OperationTaskProofs.** `OperationTypeCorrect`, `TaskTruthfulCorrect`, `ResultFinalCorrect`,
with two strengthenings: which statuses go with which decisions and events (`StatusHistory`),
and that the items a publish() has passed are settled (`Progress`), so that its return finds
nothing left to do.

**PublishFlowProofs.** `FlowTypeCorrect` and `CommitSafeCorrect`, from `FlowInv`, which ties
where a target workflow stands to the intent, lease and commit it has caused, so that a
repeated activity finds them.

**ScheduleProofs.** `OccurrencesSoundCorrect`, from `ScheduleInv`: what a request in progress
holds is still true when it commits (`ReqOK`), rows and tasks agree (`RowsOK`), and an
occurrence once minted is remembered (`Remembered`).

**EdgeLinkProofs.** `LinkSoundCorrect`, `NewerLeaseWinsCorrect`, `RevocationHoldsCorrect` and
`EdgeToCloudCorrect`, the refinement of `FifoDelivery`, from `LinkInv`. That nothing is lost or
repeated says little about one step: what the gateway has recorded must be a prefix of the hub's
log and conversely (`CloudPrefix`, `EdgePrefix`), the message in hand must be the next one to
record (`InHand`), and an open stream must carry exactly what lies between the cursor its hello
named and what the hub has read (`Stream`; `Hellos` and `Base` in `EdgeLink` say which hello).
`WorkInv`: a command that is worked on was stored as started, once, so a repeated START finds
the row. `GrantInv`: the mark of a revocation is written before the message counts as recorded,
so a restart between the two repeats the message and not the mistake.

**FleetProofs, DeviceProofs.** One theorem per service, each for the composed specification,
with an invariant of the form "while this is the service that runs, its own invariant, and
otherwise its initial state". What the properties lack to be inductive is nearly always what an
open request believes:

| Theorem | Inductive invariant |
| --- | --- |
| `SubmittedOnceCorrect` | `WechatInv`: a submit under way owns the one attempt; a final state a poll saw is still so |
| `LockExclusiveCorrect` | `LockInv`: a session's idea of the lock is the row as long as its time runs; every fencing number but the row's has ended |
| `BindingHonouredCorrect` | `AccountsInv`: versions only grow (`Counted`), a device has one (`OneBound`), a task that may still run names a version no rebinding reuses (`Frozen`) |
| `ListingHistoryCorrect` | `ListingsInv`: what a push has read is current as long as no screen was stored since, and never counts a snapshot that is not there (`PushFits`) |
| `OrdersTrueCorrect` | a row a delivery wrote exists (`SourceExists`), the checkpoint names the last screen of its run (`CheckpointTrue`), a sealed run is whole (`SealedWhole`) |
| `RunFannedOutCorrect` | `RunProgress`: a request that works on a target has seen a task of every target before it |
| `QueueHonestCorrect` | `QueueInv`: all targets of a queue are created together, and one with a confirmed item is SUCCEEDED_CONFIRMED |
| `DebugFencedCorrect` | `DebugInv`: the lease row carries the last fencing given out; what the edge was told follows the status |
| `RolloutTruthfulCorrect` | `ApkInv`: a receipt that says INSTALLED, sent or being handled, is of a version that ran (`TrueReceipt`); an app that installs has its pending record |
| `SyncCompleteCorrect` | `SourcesInv`: every record in a run's reach is dealt with, in hand or behind the cursor (`RunCovers`), which `FileChanges` keeps by what it takes out of reach; nobody else links what the run wrote before it commits (`OneWriter`, `RunProducts`, `RunAssets`) |
| `InboxTrueCorrect` | `InboxInv`: inductive with its types; the work is in what a queue loses and keeps (`ToSetFacts`, `Undisturbed`, `Persists`) |
| `RegistrySoundCorrect` | `DeployInv`: one history of a slot (`SlotHistory`) passes through all accepted requests and holds every version a roll-back may choose; `PromoteInv`, `DraftsInv` |
| `CompanionAccountableCorrect` | `PairInv`, `AskInv` (an answer kept for a runner that does not wait yet is the hub's), `StopInv` |
| `IdentitySoundCorrect` | `IdentityInv`: what each open request relies on (`Holds`), the locks (`Exclusive`), and sessions, bindings and previews as the last registration left them |
| `LiveSingleWriterCorrect` | `LiveTrue` per session: its mark bounds what was relayed in its period, whose epoch no later period has; `LegacyInv` for the first slice |
| `WindowAccountableCorrect` | `StageTrue`, `FlagTrue`, `ProvenTrue`: what execute_window() knows follows its stages, and a version names one change of the flag |
| `DriverAccountableCorrect` | `CallTrue`: the call under way is the one the state asks for; `LateInv`: one call past its guard is all a stale session has left; `HoldInv`, `InstallTrue`; `SwapInv`: a file that passed the check is the approved one unless it changed since |
| `LibraryTruthfulCorrect` | `LibraryInv`: a product's row has the highest revision handed out, and a revision stands for one content, unless a batch wrote the product (`ProductsFollowed`), content revisions are 1 to n (`ContentNumbered`), an object holds the digest its upload was granted for or that names it (`MediaSound`), and what an open request read still fits (`LibraryRequest`): bytes about to be put are the ones the upload accepts, a rendering in hand is of its source |
| `SkipsExplainedCorrect` | `FeedInv`: an answer on the wire has no hole up to its last number that is not accounted for (`AnswerComplete`), and every number in the stream, on the wire or in an open request was given out (`FeedRows`, `OpenNumbers`), so that the next one lies ahead of all |
| `ScriptGatedCorrect` | `ScriptInv`: a script in hand is a sequence of steps, and unedited it is one the server built |

`ScriptGatedCorrect` needs no induction over scripts. A script has at most one of the frozen
shapes (`OneShape`): the layout taps of the three V1 shapes differ, and the V2 sequences tap what
V1 refuses. From the shape alone follow the single strike, its screenshots and the navigation
(`DelistGuarded`, `DeleteGuarded`, `DelistV2Guarded`, `DeleteV2Guarded`), the ledger command
(`Ledgered`) and that other commands do not strike (`AdmittedStrikes`), whatever the client sent;
that the builders' own scripts are admitted is shown script by script (`BuiltAdmitted`).

Only model-checked: the liveness properties `HealthyDelivered`, `Settles`, `PlanRunEnds`,
`EventuallyDrained` and `PeriodsDecided` (fairness and ENABLED are outside the prover's reach).
Every safety property of a passing run is also a theorem.

## 6. Not modelled

- Operation catalogue and parameter schemas, command factory: static tables and pure functions
  of their inputs.
- HTTP routes, authentication, wiring: decide whether a request reaches a service.
- Acceptance, validation and deployment scripts: sequential, without shared state. The v5
  install scripts have the shape of the v6 window.
- Device policy controller, observability, generated clients, front ends: presentation or
  device settings.
- Device recipes and UI automation: their effect on a task is the Companion's requests.
- Inside modelled components: parsing and normalisation (CSV, dumpsys, screens) are verdicts;
  lists, filters and exports; artifact uploads of a task; the artifact cache and evidence
  upload queue of the gateway; enrollment and TLS of the hub, WebRTC; the second transaction
  in which create_task() dispatches a Xianyu listing; long polling and wake-up timers.

## 7. Plan

1. `OperationTask` composed with `EventDelivery`, its deliveries as a refinement.
2. The Xianyu listing dispatch of create_task(), and the evidence upload queue of the gateway.

## 8. Running

    tlc -workers 2 -config MobileTask.cfg MCMobileTask
    tlc -workers 2 -config MobileTaskLive.cfg MCMobileTask
    tlc -workers 2 -config Outbox.cfg Outbox
    tlc -workers 2 -config OperationTask.cfg OperationTask
    tlc -workers 2 -config PublishFlow.cfg MCPublishFlow
    tlc -workers 2 -config Library.cfg MCFleetServices
    tlc -workers 2 -config EdgeCommands.cfg EdgeLink
    tlc -workers 2 -config EdgeDebug.cfg EdgeLink
    tlc -workers 2 -config Schedules.cfg Schedules
    tlc -workers 2 -config FleetServices.cfg MCFleetServices
    tlapm MobileTaskProofs.tla       (and the other *Proofs modules)

`MobileTaskUnknown.cfg` and `ControlSkip.cfg` show the findings. A run takes up to four minutes.
