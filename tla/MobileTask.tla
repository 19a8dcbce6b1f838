---------------------------- MODULE MobileTask ----------------------------
(***************************************************************************)
(* The Companion task of the control API: the row of mobile_tasks, the     *)
(* device-lease row, the controlled-action ledger and every handler that   *)
(* writes them (mobile_service.py, platform_tasks.py, mobile_actions.py,   *)
(* fleet_live.py, live.py, xianyu_publish.py, services.py).                *)
(*                                                                         *)
(* A handler is one database transaction.  Those that decide from rows     *)
(* they have locked are one action.  claim() reads blocking tasks and      *)
(* account conflicts WITHOUT locking them (READ COMMITTED), so it is cut   *)
(* into ClaimCheck, ClaimSelect and ClaimCommit; a handler that needs a    *)
(* lock claim() holds waits (DeviceFree, RowFree, LeaseRowFree).           *)
(*                                                                         *)
(* Time is abstracted to "has this lease expired".  A lease id is named by *)
(* the fencing token minted with it (claim and resume mint both together). *)
(***************************************************************************)
EXTENDS Naturals, FiniteSets

CONSTANTS
    NumTasks,       \* bound: tasks are created in the order 1..NumTasks
    Devices,
    DeviceOf,       \* task -> device
    AccountOf,      \* task -> frozen account, NoAccount for none
    NoAccount,
    Actions,        \* ids of the controlled actions of a task
    QueueTasks,     \* tasks dispatched for a target of the publish queue
    SplitTasks,     \* tasks whose create() is two transactions
    Viewers,        \* operator live sessions (sid)
    LegacyViewers,  \* those of LiveService, the others are FleetLiveService's
    ViewerDevice,   \* live session -> device
    Workflows,      \* publish workflows and debug sessions that lease devices
    FinishCodes,    \* error classes a device reports with a FAILED finish
    CandidateLimit, \* CLAIM_CANDIDATE_LIMIT
    MaxFence,       \* bound on the fencing counter of a device
    MaxSession      \* bound on the fleet sessions of a device

Tasks == 1..NumTasks
NoTask == 0

RunnerStates == {"ABSENT", "QUEUED", "CLAIMED", "RUNNING", "SUCCEEDED", "FAILED"}
ACTIVE_STATES == {"CLAIMED", "RUNNING"}
TERMINAL_BUSINESS == {"SUCCEEDED", "FAILED", "CANCELLED"}
\* WAITING_MATERIALS and EXPIRED appear in the tables but no code writes them.
BUSINESS_STATES == {"QUEUED", "PREFLIGHT", "RUNNING", "PAUSE_REQUESTED",
    "PAUSED_WAITING_USER", "RESUME_CHECK", "RECONCILING", "CANCEL_REQUESTED"}
        \cup TERMINAL_BUSINESS
BLOCKING_BUSINESS_STATES == {"PAUSE_REQUESTED", "PAUSED_WAITING_USER",
    "RESUME_CHECK", "CANCEL_REQUESTED", "RECONCILING"}

\* error_code, by what the decisions tell apart: SAFE is SAFE_RETRY_CODES,
\* COMMIT_UNKNOWN and ACCOUNT_CHANGED are UNSAFE_RETRY_CODES, and OTHER is
\* every other code (CANCELLED and CONFIRMED_NOT_SUBMITTED among them).
ErrorCodes == {"NONE", "SAFE", "COMMIT_UNKNOWN", "ACCOUNT_CHANGED", "OTHER"}
UNSAFE_RETRY_CODES == {"COMMIT_UNKNOWN", "ACCOUNT_CHANGED"}

\* mobile_action_commits: the phase and status of one row of the ledger.
OpenRows == {"INTENT", "UNKNOWN", "APPLIED"}
ResolvedRows == {"RESOLVED_APPLIED", "RESOLVED_NOT_SUBMITTED"}
LedgerStates == {"NONE"} \cup OpenRows \cup ResolvedRows

NoLease == [owner |-> "NONE", by |-> NoTask, token |-> 0, st |-> "ENDED"]
NoClaim == [phase |-> "IDLE", row |-> NoTask, skip |-> {}]

ASSUME ConstantsAssumption ==
    /\ NumTasks \in Nat /\ MaxFence \in Nat /\ MaxSession \in Nat
    /\ CandidateLimit \in Nat
    /\ DeviceOf \in [Tasks -> Devices]
    /\ ViewerDevice \in [Viewers -> Devices]
    /\ FinishCodes \subseteq ErrorCodes
    /\ QueueTasks \subseteq Tasks /\ SplitTasks \subseteq Tasks \ QueueTasks
    /\ LegacyViewers \subseteq Viewers
    /\ Tasks \cap (Viewers \cup Workflows) = {}

VARIABLES
    status,     \* mobile_tasks.status, the runner state
    biz,        \* mobile_tasks.business_state
    lease,      \* mobile_tasks.lease_id, 0 for NULL
    live,       \* lease_expires_at is in the future
    stamp,      \* fleetSessionId stamped in the steps header, 0 for none
    error,      \* mobile_tasks.error_code
    retryOf,    \* the task this one retries
    created,    \* create(): PENDING before its second transaction, LATE after
                \* one that found the task already at work (history)
    changed,    \* tasks whose frozen account binding is no longer current
    ledger,     \* mobile_action_commits, per task and action
    rowLease,   \* mobile_action_commits.lease_id
    grants,     \* history: AUTHORIZED decisions returned for the task
    fence,      \* devices.fencing_counter
    dl,         \* the device_leases row
    session,    \* the active fleet session of the device, 0 for none
    claim,      \* the claim() transaction under way on the device
    viewer      \* in-memory state of the operator live sessions

rowVars == <<status, biz, lease, live, error>>
ledgerVars == <<ledger, rowLease, grants>>
deviceVars == <<fence, dl, session>>
vars == <<rowVars, stamp, retryOf, created, changed, ledgerVars, deviceVars, claim, viewer>>

Init ==
    /\ status = [t \in Tasks |-> "ABSENT"]
    /\ biz = [t \in Tasks |-> "QUEUED"]
    /\ lease = [t \in Tasks |-> 0]
    /\ live = [t \in Tasks |-> FALSE]
    /\ stamp = [t \in Tasks |-> 0]
    /\ error = [t \in Tasks |-> "NONE"]
    /\ retryOf = [t \in Tasks |-> NoTask]
    /\ created = [t \in Tasks |-> "DONE"]
    /\ changed = {}
    /\ ledger = [t \in Tasks |-> [a \in Actions |-> "NONE"]]
    /\ rowLease = [t \in Tasks |-> [a \in Actions |-> 0]]
    /\ grants = [t \in Tasks |-> 0]
    /\ fence = [d \in Devices |-> 0]
    /\ dl = [d \in Devices |-> NoLease]
    /\ session = [d \in Devices |-> 0]
    /\ claim = [d \in Devices |-> NoClaim]
    /\ viewer = [s \in Viewers |-> "NONE"]

-----------------------------------------------------------------------------
(* Rows, leases and locks. *)

TasksOn(d) == {t \in Tasks : DeviceOf[t] = d}
Exists(t) == status[t] # "ABSENT"
HasRow(t) == \E a \in Actions : ledger[t][a] # "NONE"
HasOpenRow(t) == \E a \in Actions : ledger[t][a] \in OpenRows

ActiveTasks(d) == {t \in TasksOn(d) : status[t] \in ACTIVE_STATES}
\* claim() locks only the oldest CLAIMED/RUNNING task of the device.
IsOldestActive(t) ==
    /\ status[t] \in ACTIVE_STATES
    /\ \A u \in ActiveTasks(DeviceOf[t]) : t <= u

\* device row FOR UPDATE: nobody is inside claim() for this device.
DeviceFree(d) == claim[d].phase = "IDLE"
\* device_leases row FOR UPDATE
LeaseRowFree(d) == claim[d].phase # "SELECTED"
\* mobile_tasks row FOR UPDATE: claim() has locked the oldest active row and
\* the queued ones.
RowFree(t) ==
    /\ Exists(t)
    /\ claim[DeviceOf[t]].phase = "SELECTED"
           => status[t] # "QUEUED" /\ ~IsOldestActive(t)

\* _validate_active_lease: some request carries the current lease id, and the
\* lease has not expired.
ActiveLease(t) ==
    /\ biz[t] \notin TERMINAL_BUSINESS
    /\ status[t] \in ACTIVE_STATES
    /\ lease[t] # 0
    /\ live[t]

\* lease_envelope_stale: the session the lease was minted under is gone.
EnvelopeStale(t) == stamp[t] # 0 /\ stamp[t] # session[DeviceOf[t]]

HeldBy(d, t) ==
    /\ dl[d].owner = "AUTO" /\ dl[d].by = t
    /\ dl[d].token = lease[t]
    /\ dl[d].st = "HELD"

\* canceled_at is set or expires_at has passed: no handler tells them apart.
Ended(l) == [l EXCEPT !.st = "ENDED"]
NewLease(owner, by, token) == [owner |-> owner, by |-> by, token |-> token, st |-> "HELD"]

\* _release_occupation and _release_task_occupation: cancel the device lease
\* if this task's AUTO workflow owns it, whatever lease id it carries.
ReleaseOccupationNoop(l, t) == l
ReleaseOccupation(l, t) ==
    IF l.owner = "AUTO" /\ l.by = t THEN Ended(l) ELSE l

-----------------------------------------------------------------------------
(* Creation and retry (operator). *)

\* created_at orders the tasks of a device: number t is its next one.
NextNew(t) ==
    /\ status[t] = "ABSENT"
    /\ \A u \in TasksOn(DeviceOf[t]) : u < t => Exists(u)

Insert(t, source) ==
    /\ DeviceFree(DeviceOf[t])
    /\ NextNew(t)
    /\ status' = [status EXCEPT ![t] = "QUEUED"]
    /\ biz' = [biz EXCEPT ![t] = "QUEUED"]
    /\ retryOf' = [retryOf EXCEPT ![t] = source]
    /\ created' = [created EXCEPT ![t] = IF t \in SplitTasks THEN "PENDING" ELSE "DONE"]
    /\ UNCHANGED <<lease, live, error, stamp, changed, ledgerVars, deviceVars,
                   claim, viewer>>

\* create(), by an operator, a schedule or dispatch() of the publish queue.
\* Only dispatch() hands in its transaction.
Create(t) == Insert(t, NoTask)

\* _stamp_business_fields(), the second transaction of create(): it writes the
\* business state too, whatever has become of the task.
StampBusinessFields(t) ==
    /\ created[t] = "PENDING"
    /\ RowFree(t)
    /\ biz' = [biz EXCEPT ![t] = "QUEUED"]
    /\ created' = [created EXCEPT ![t] = IF biz[t] = "QUEUED" THEN "DONE" ELSE "LATE"]
    /\ UNCHANGED <<status, lease, live, error, stamp, retryOf, changed, ledgerVars,
                   deviceVars, claim, viewer>>

\* Mutant: any failure that is not listed as unsafe may be retried.
RetryableUnlisted(t) ==
    /\ biz[t] # "RECONCILING"
    /\ biz[t] = "FAILED" \/ status[t] = "FAILED"
    /\ error[t] \notin UNSAFE_RETRY_CODES

Retryable(t) ==
    /\ biz[t] # "RECONCILING"
    /\ biz[t] = "FAILED" \/ status[t] = "FAILED"
    /\ error[t] \notin UNSAFE_RETRY_CODES
    /\ error[t] \in {"NONE", "SAFE"}

\* The idempotency key holds the operator's reason, so one failed task can be
\* retried by several new ones.
Retry(source, t) ==
    /\ RowFree(source)
    /\ Retryable(source)
    /\ source \notin changed /\ t \in SplitTasks
    /\ DeviceOf[t] = DeviceOf[source] /\ AccountOf[t] = AccountOf[source]
    /\ Insert(t, source)

-----------------------------------------------------------------------------
(* claim(): the Companion polls for work. *)

\* LiveService.has_remote
HasRemote(d) ==
    \E s \in LegacyViewers : ViewerDevice[s] = d /\ viewer[s] = "REMOTE"

\* Device row locked.  Open UNKNOWN rows and blocking tasks are read without
\* a lock; either ends the claim.  The remaining refusals of the code
\* (maintenance, gates not executable) never write and are ClaimAbort.
ClaimCheck(d) ==
    /\ DeviceFree(d)
    /\ fence[d] < MaxFence
    /\ ~HasRemote(d)
    /\ \A t \in TasksOn(d) :
        /\ \A a \in Actions : ledger[t][a] # "UNKNOWN"
        /\ Exists(t) => biz[t] \notin BLOCKING_BUSINESS_STATES
    /\ claim' = [claim EXCEPT ![d] = [phase |-> "CHECKED", row |-> NoTask, skip |-> {}]]
    /\ UNCHANGED <<rowVars, stamp, retryOf, created, changed, ledgerVars, deviceVars, viewer>>

\* The candidate scan: queued tasks and the active one whose lease expired,
\* oldest first, at most CandidateLimit.
Queue(d) == {t \in TasksOn(d) : status[t] = "QUEUED" \/ IsOldestActive(t)}
Candidates(d) ==
    {t \in Queue(d) : Cardinality({u \in Queue(d) : u < t}) < CandidateLimit}

\* Not passed over by capability or delivery-protocol rules (skip), identity
\* still current, and not yet in its commit window (_post_commit_pending).
Claimable(d, skip) == {t \in Candidates(d) \ (skip \cup changed) : ~HasRow(t)}
IsOldest(t, S) == t \in S /\ \A u \in S : t <= u

\* Candidates the scan writes: those it visits before the chosen row.
Dropped(d, skip, row) ==
    {t \in Candidates(d) \cap changed : t \notin skip /\ (row # NoTask => t < row)}
Parked(d, skip, row) ==
    {t \in Candidates(d) \ (skip \cup changed) :
        HasRow(t) /\ (row # NoTask => t < row)}

ScanGuard(d) ==
    /\ claim[d].phase = "CHECKED"
    /\ ~(dl[d].owner = "REMOTE" /\ dl[d].st = "HELD")
    /\ \A t \in ActiveTasks(d) : IsOldestActive(t) => ~live[t]

\* account_write_conflict: another CLAIMED/RUNNING write task of the account,
\* on any device; read without a lock.  (Tasks with an account write.)
AccountBusy(t) ==
    /\ AccountOf[t] # NoAccount
    /\ \E u \in Tasks \ {t} :
        AccountOf[u] = AccountOf[t] /\ status[u] \in ACTIVE_STATES

\* The requeued active row counts as QUEUED inside this transaction.
ClaimSelect(d, row, skip) ==
    /\ ScanGuard(d)
    /\ IsOldest(row, Claimable(d, skip))
    /\ ~AccountBusy(row)
    /\ claim' = [claim EXCEPT ![d] = [phase |-> "SELECTED", row |-> row, skip |-> skip]]
    /\ UNCHANGED <<rowVars, stamp, retryOf, created, changed, ledgerVars, deviceVars, viewer>>

\* What the scan leaves in every row of the device except the chosen one.
ScannedStatus(d, skip, row) == [t \in Tasks |->
    IF t \in Dropped(d, skip, row) THEN "FAILED"
    ELSE IF t \in TasksOn(d) /\ IsOldestActive(t) THEN "QUEUED"
    ELSE status[t]]
ScannedBiz(d, skip, row) == [t \in Tasks |->
    IF t \in Dropped(d, skip, row) THEN "FAILED"
    ELSE IF t \in Parked(d, skip, row) THEN "RECONCILING"
    ELSE biz[t]]
Unleased(d, skip, row) ==
    Dropped(d, skip, row) \cup {t \in TasksOn(d) : IsOldestActive(t)}
ScannedError(d, skip, row) == [t \in Tasks |->
    IF t \in Dropped(d, skip, row) THEN "ACCOUNT_CHANGED" ELSE error[t]]

\* No candidate is left: the writes of the scan are committed.
ClaimNothing(d, skip) ==
    /\ ScanGuard(d)
    /\ Claimable(d, skip) = {}
    /\ status' = ScannedStatus(d, skip, NoTask)
    /\ biz' = ScannedBiz(d, skip, NoTask)
    /\ error' = ScannedError(d, skip, NoTask)
    /\ lease' = [t \in Tasks |-> IF t \in Unleased(d, skip, NoTask) THEN 0 ELSE lease[t]]
    /\ live' = [t \in Tasks |-> live[t] /\ t \notin Unleased(d, skip, NoTask)]
    /\ claim' = [claim EXCEPT ![d] = NoClaim]
    /\ UNCHANGED <<stamp, retryOf, created, changed, ledgerVars, deviceVars, viewer>>

\* Mint the lease, fence the device, replace the device-lease row.
ClaimCommit(d) ==
    LET row == claim[d].row
        skip == claim[d].skip
        token == fence[d] + 1
    IN  /\ claim[d].phase = "SELECTED"
        /\ status' = [ScannedStatus(d, skip, row) EXCEPT ![row] = "CLAIMED"]
        /\ biz' = [ScannedBiz(d, skip, row) EXCEPT ![row] = "PREFLIGHT"]
        /\ error' = ScannedError(d, skip, row)
        /\ lease' = [t \in Tasks |-> IF t = row THEN token
                        ELSE IF t \in Unleased(d, skip, row) THEN 0 ELSE lease[t]]
        /\ live' = [t \in Tasks |-> t = row \/ (live[t] /\ t \notin Unleased(d, skip, row))]
        /\ stamp' = [stamp EXCEPT ![row] = IF session[d] = 0 THEN @ ELSE session[d]]
        /\ fence' = [fence EXCEPT ![d] = token]
        /\ dl' = [dl EXCEPT ![d] = NewLease("AUTO", row, token)]
        /\ claim' = [claim EXCEPT ![d] = NoClaim]
        /\ UNCHANGED <<retryOf, created, changed, ledgerVars, session, viewer>>

\* Every refusal after the device lock, and a lost connection: roll back.
ClaimAbort(d) ==
    /\ ~DeviceFree(d)
    /\ claim' = [claim EXCEPT ![d] = NoClaim]
    /\ UNCHANGED <<rowVars, stamp, retryOf, created, changed, ledgerVars, deviceVars, viewer>>

-----------------------------------------------------------------------------
(* The runner's reports (Companion). *)

\* release(): a claimed task the device cannot run yet goes back to the queue.
Release(t) ==
    LET d == DeviceOf[t] IN
    /\ DeviceFree(d)
    /\ status[t] = "CLAIMED" /\ biz[t] = "PREFLIGHT"
    /\ lease[t] # 0 /\ live[t]
    /\ HeldBy(d, t)
    /\ ~HasRow(t)
    /\ dl' = [dl EXCEPT ![d] = Ended(@)]
    /\ status' = [status EXCEPT ![t] = "QUEUED"]
    /\ biz' = [biz EXCEPT ![t] = "QUEUED"]
    /\ lease' = [lease EXCEPT ![t] = 0]
    /\ live' = [live EXCEPT ![t] = FALSE]
    /\ UNCHANGED <<error, stamp, retryOf, created, changed, ledgerVars, fence, session, claim,
                   viewer>>

\* Mutant: a heartbeat takes a RECONCILING task back to RUNNING.
HeartbeatStateEager(b) ==
    IF b \in {"PAUSE_REQUESTED", "CANCEL_REQUESTED", "PAUSED_WAITING_USER"}
    THEN b ELSE "RUNNING"

HeartbeatState(b) ==
    IF b \in {"PAUSE_REQUESTED", "CANCEL_REQUESTED", "PAUSED_WAITING_USER", "RECONCILING"}
    THEN b ELSE "RUNNING"

\* heartbeat(): takes no device lock.  It moves the expiry of the task lease
\* and of the device lease with the same id together, so neither is late.
Heartbeat(t) ==
    /\ RowFree(t) /\ LeaseRowFree(DeviceOf[t])
    /\ ~EnvelopeStale(t)
    /\ ActiveLease(t)
    /\ status' = [status EXCEPT ![t] = "RUNNING"]
    /\ biz' = [biz EXCEPT ![t] = HeartbeatState(@)]
    /\ UNCHANGED <<lease, live, error, stamp, retryOf, created, changed, ledgerVars, deviceVars,
                   claim, viewer>>

\* event(): the event types that move the business state.  Neither the fleet
\* session nor a pending CANCEL is looked at.
Event(t, type) ==
    /\ RowFree(t)
    /\ ActiveLease(t)
    /\ biz[t] = "RECONCILING" => type = "RECONCILING"
    /\ biz' = [biz EXCEPT ![t] = type]
    /\ UNCHANGED <<status, lease, live, error, stamp, retryOf, created, changed, ledgerVars,
                   deviceVars, claim, viewer>>

\* Mutant: the business state keeps its last value.
RunnerToBusinessStuck(outcome, b) == b
RunnerToBusiness(outcome, b) == outcome

\* finish(): the terminal result of the runner.
Finish(t, outcome, code) ==
    LET d == DeviceOf[t] IN
    /\ RowFree(t) /\ LeaseRowFree(d)
    /\ biz[t] # "RECONCILING"
    /\ ActiveLease(t)
    /\ outcome = "SUCCEEDED" => code = "NONE"
    /\ status' = [status EXCEPT ![t] = outcome]
    /\ biz' = [biz EXCEPT ![t] = RunnerToBusiness(outcome, @)]
    /\ error' = [error EXCEPT ![t] = code]
    /\ live' = [live EXCEPT ![t] = FALSE]
    /\ dl' = [dl EXCEPT ![d] = IF @.token = lease[t] THEN Ended(@) ELSE @]
    /\ UNCHANGED <<lease, stamp, retryOf, created, changed, ledgerVars, fence, session, claim,
                   viewer>>

\* A task settled as cancelled; the single-L spelling is the legacy value.
SettledCancelLegacy(t) == "CANCELED"
SettledCancel(t) == "CANCELLED"

SettleCancelled(t) ==
    LET d == DeviceOf[t] IN
    /\ status' = [status EXCEPT ![t] = "FAILED"]
    /\ biz' = [biz EXCEPT ![t] = SettledCancel(t)]
    /\ error' = [error EXCEPT ![t] = "OTHER"]
    /\ lease' = [lease EXCEPT ![t] = 0]
    /\ live' = [live EXCEPT ![t] = FALSE]
    /\ dl' = [dl EXCEPT ![d] = ReleaseOccupation(@, t)]
    /\ UNCHANGED <<stamp, retryOf, created, changed, ledgerVars, fence, session, claim, viewer>>

\* control_ack(CANCEL_APPLIED): the device has neutralised its screen.
AckCancelApplied(t) ==
    /\ RowFree(t) /\ LeaseRowFree(DeviceOf[t])
    /\ biz[t] = "CANCEL_REQUESTED"
    /\ SettleCancelled(t)

SetBiz(t, b) ==
    /\ biz' = [biz EXCEPT ![t] = b]
    /\ UNCHANGED <<status, lease, live, error, stamp, retryOf, created, changed, ledgerVars,
                   deviceVars, claim, viewer>>

\* control_ack(CANCEL_DEFERRED_RECONCILING)
AckCancelDeferred(t) ==
    /\ RowFree(t)
    /\ biz[t] = "CANCEL_REQUESTED"
    /\ SetBiz(t, "RECONCILING")

-----------------------------------------------------------------------------
(* The controlled-action ledger (Companion). *)

\* _lease: session envelope, task lease and device lease must all agree.
ActionLease(t) ==
    /\ DeviceFree(DeviceOf[t])
    /\ ~EnvelopeStale(t)
    /\ ActiveLease(t)
    /\ HeldBy(DeviceOf[t], t)

\* Mutant: only the runner state is asked for.
IntentStateRunnerOnly(t) == status[t] = "RUNNING"
IntentState(t) == status[t] = "RUNNING" /\ biz[t] = "RUNNING"

\* intent(): a new row is the one AUTHORIZED decision; an existing row only
\* answers RECONCILE_REQUIRED, which changes nothing.
Intent(t, a) ==
    /\ ActionLease(t)
    /\ ledger[t][a] = "NONE"
    /\ IntentState(t)
    /\ ledger' = [ledger EXCEPT ![t][a] = "INTENT"]
    /\ rowLease' = [rowLease EXCEPT ![t][a] = lease[t]]
    /\ grants' = [grants EXCEPT ![t] = @ + 1]
    /\ biz' = [biz EXCEPT ![t] = "RECONCILING"]
    /\ UNCHANGED <<status, lease, live, error, stamp, retryOf, created, changed, deviceVars,
                   claim, viewer>>

\* Mutant: a later report replaces an earlier one.
OutcomeGuardOverwrite(t, a) ==
    /\ rowLease[t][a] = lease[t]
    /\ ledger[t][a] \in OpenRows /\ biz[t] = "RECONCILING"

\* outcome_guard: the lease of the intent, unresolved, the first report.
OutcomeGuard(t, a) ==
    /\ rowLease[t][a] = lease[t]
    /\ ledger[t][a] \in OpenRows /\ biz[t] = "RECONCILING"
    /\ ledger[t][a] = "INTENT"

Outcome(t, a, reported) ==
    /\ ActionLease(t)
    /\ OutcomeGuard(t, a)
    /\ ledger' = [ledger EXCEPT ![t][a] = reported]
    /\ UNCHANGED <<rowVars, stamp, retryOf, created, changed, rowLease, grants, deviceVars,
                   claim, viewer>>

-----------------------------------------------------------------------------
(* Operator decisions (platform_tasks.py): the A12 transition matrices. *)

CancelNowStates == {"QUEUED", "PREFLIGHT", "PAUSE_REQUESTED", "PAUSED_WAITING_USER"}
CancelDeferredStates == {"RUNNING", "RESUME_CHECK"}
PauseStates == {"QUEUED", "PREFLIGHT", "RUNNING", "RESUME_CHECK"}
AckPausedStates == {"QUEUED", "PREFLIGHT", "RUNNING", "PAUSE_REQUESTED"}

\* cancel(): outcome CANCELLED_NOW
CancelNow(t) ==
    /\ DeviceFree(DeviceOf[t]) /\ Exists(t)
    /\ biz[t] \in CancelNowStates
    /\ SettleCancelled(t)

\* cancel(): outcome CANCEL_REQUESTED
CancelRequest(t) ==
    /\ DeviceFree(DeviceOf[t]) /\ Exists(t)
    /\ biz[t] \in CancelDeferredStates
    /\ SetBiz(t, "CANCEL_REQUESTED")

Pause(t) ==
    /\ RowFree(t)
    /\ biz[t] \in PauseStates
    /\ SetBiz(t, "PAUSE_REQUESTED")

\* ack_paused(): the lease id is optional, so it guards nothing.
AckPaused(t) ==
    /\ RowFree(t)
    /\ biz[t] \in AckPausedStates /\ status[t] \notin {"SUCCEEDED", "FAILED"}
    /\ SetBiz(t, "PAUSED_WAITING_USER")

\* resume(): mints a lease and replaces whatever device lease there is.  It
\* looks at no other task, and leaves the session stamp as it was.
Resume(t) ==
    LET d == DeviceOf[t]
        token == fence[d] + 1
    IN  /\ DeviceFree(d) /\ Exists(t)
        /\ biz[t] = "PAUSED_WAITING_USER"
        /\ t \notin changed
        /\ token <= MaxFence
        /\ fence' = [fence EXCEPT ![d] = token]
        /\ dl' = [dl EXCEPT ![d] = NewLease("AUTO", t, token)]
        /\ lease' = [lease EXCEPT ![t] = token]
        /\ live' = [live EXCEPT ![t] = TRUE]
        /\ status' = [status EXCEPT ![t] =
                        IF @ \in {"QUEUED", "CLAIMED", "RUNNING"} THEN "RUNNING" ELSE @]
        /\ biz' = [biz EXCEPT ![t] = "RESUME_CHECK"]
        /\ UNCHANGED <<error, stamp, retryOf, created, changed, ledgerVars, session, claim, viewer>>

\* Mutant: a settled task may still be marked unknown.
UndecidedAny(t) == status[t] # "SUCCEEDED"
Undecided(t) == biz[t] \notin TERMINAL_BUSINESS /\ status[t] # "SUCCEEDED"

MarkUnknown(t) ==
    /\ RowFree(t)
    /\ Undecided(t)
    /\ SetBiz(t, "RECONCILING")

\* reconcile(): KEEP_WAITING records the decision only; the other two settle
\* the task and resolve every ledger row it has.  Leases are left alone.
Reconcilable(t) ==
    /\ RowFree(t)
    /\ biz[t] \notin TERMINAL_BUSINESS
    /\ biz[t] = "RECONCILING" \/ error[t] = "COMMIT_UNKNOWN"

Settle(t, outcome, code, resolution) ==
    /\ status' = [status EXCEPT ![t] = outcome]
    /\ biz' = [biz EXCEPT ![t] = outcome]
    /\ error' = [error EXCEPT ![t] = code]
    /\ ledger' = [ledger EXCEPT ![t] =
                    [a \in Actions |-> IF @[a] = "NONE" THEN "NONE" ELSE resolution]]
    /\ UNCHANGED <<lease, live, stamp, retryOf, created, changed, rowLease, grants, deviceVars,
                   claim, viewer>>

ReconcileApplied(t) ==
    /\ Reconcilable(t)
    /\ Settle(t, "SUCCEEDED", "NONE", "RESOLVED_APPLIED")

ReconcileNotSubmitted(t) ==
    /\ Reconcilable(t)
    /\ \A a \in Actions : ledger[t][a] # "APPLIED"
    /\ Settle(t, "FAILED", "OTHER", "RESOLVED_NOT_SUBMITTED")

\* The queue's confirm() finds the task not yet settled.
\* Mutant: it does not look.
UnsettledAny(t) == TRUE
Unsettled(t) == status[t] \notin {"SUCCEEDED", "FAILED"}

\* confirm(): the operator's verdict on a publish target settles its latest
\* task as well, in whatever state it is, ledger, leases and error untouched.
ConfirmTarget(t, decision) ==
    /\ t \in QueueTasks
    /\ RowFree(t)
    /\ Unsettled(t)
    /\ status' = [status EXCEPT ![t] = decision]
    /\ biz' = [biz EXCEPT ![t] = decision]
    /\ UNCHANGED <<lease, live, error, stamp, retryOf, created, changed, ledgerVars, deviceVars,
                   claim, viewer>>

-----------------------------------------------------------------------------
(* Sessions, account bindings and live control. *)

\* enroll(): a new Companion instance; fences the device, not its lease row.
Enroll(d) ==
    /\ DeviceFree(d)
    /\ fence[d] < MaxFence /\ session[d] < MaxSession
    /\ fence' = [fence EXCEPT ![d] = @ + 1]
    /\ session' = [session EXCEPT ![d] = @ + 1]
    /\ UNCHANGED <<rowVars, stamp, retryOf, created, changed, ledgerVars, dl, claim, viewer>>

\* register_fleet_session(): a new process of the same instance.
RegisterSession(d) ==
    /\ DeviceFree(d)
    /\ session[d] < MaxSession
    /\ session' = [session EXCEPT ![d] = @ + 1]
    /\ UNCHANGED <<rowVars, stamp, retryOf, created, changed, ledgerVars, fence, dl, claim, viewer>>

\* _block_stale_account_work(): the queued tasks of the account fail, whatever
\* their business state; the others keep running under a binding that is gone.
AccountWork(acct, d) == {t \in TasksOn(d) : Exists(t) /\ AccountOf[t] = acct}
BlockStaleWork(work) ==
    LET stale == {t \in work : status[t] = "QUEUED"} IN
    /\ ~(work \subseteq changed)
    /\ changed' = changed \cup work
    /\ status' = [t \in Tasks |-> IF t \in stale THEN "FAILED" ELSE status[t]]
    /\ biz' = [t \in Tasks |-> IF t \in stale THEN "FAILED" ELSE biz[t]]
    /\ error' = [t \in Tasks |-> IF t \in stale THEN "ACCOUNT_CHANGED" ELSE error[t]]
    /\ lease' = [t \in Tasks |-> IF t \in stale THEN 0 ELSE lease[t]]
    /\ live' = [t \in Tasks |-> live[t] /\ t \notin stale]
    /\ UNCHANGED <<stamp, retryOf, created, ledgerVars, deviceVars, claim, viewer>>

\* unbind_account_device(), and bind_account_device() displacing the account.
UnbindAccount(acct, d) ==
    /\ acct # NoAccount
    /\ DeviceFree(d)
    /\ BlockStaleWork(AccountWork(acct, d))

\* update_account_status() to anything but AUTHORIZED ends every binding of
\* the account.  No device is locked: it waits for the queued rows only, and a
\* claim() that has read the binding goes on.
RevokeAccount(acct) ==
    LET work == UNION {AccountWork(acct, d) : d \in Devices} IN
    /\ acct # NoAccount
    /\ \A t \in work : status[t] = "QUEUED" => RowFree(t)
    /\ BlockStaleWork(work)

\* acquire_lease() of a publish workflow and create() of a debug session: a
\* lease in force is refused, or returned to the workflow that has it.
AcquireLease(w, d) ==
    /\ DeviceFree(d)
    /\ dl[d].st # "HELD"
    /\ fence[d] < MaxFence
    /\ fence' = [fence EXCEPT ![d] = @ + 1]
    /\ dl' = [dl EXCEPT ![d] = NewLease("AUTO", w, fence[d] + 1)]
    /\ UNCHANGED <<rowVars, stamp, retryOf, created, changed, ledgerVars, session, claim, viewer>>

\* release_lease(): whoever knows the id of the lease gives it up.
ReleaseLease(d) ==
    /\ LeaseRowFree(d)
    /\ dl[d].owner # "NONE" /\ dl[d].st = "HELD"
    /\ dl' = [dl EXCEPT ![d] = Ended(@)]
    /\ UNCHANGED <<rowVars, stamp, retryOf, created, changed, ledgerVars, fence, session, claim,
                   viewer>>

\* owner_workflow_id is live/<sid> of this session.
OwnedBy(d, s) == dl[d].by = s

\* FleetLiveService.lock: one operation at a time.
LiveIdle == \A s \in Viewers : viewer[s] \notin {"RELEASING", "CLOSING"}

\* establish(): one live session per device; the row it finds is replaced, the
\* AUTO lease of a running task included.
LiveEstablish(s) ==
    LET d == ViewerDevice[s] IN
    /\ DeviceFree(d) /\ LiveIdle
    /\ viewer[s] = "NONE"
    /\ ~(dl[d].by \in Viewers /\ dl[d].st = "HELD")
    /\ fence[d] < MaxFence
    /\ fence' = [fence EXCEPT ![d] = @ + 1]
    /\ dl' = [dl EXCEPT ![d] = NewLease("LIVE", s, fence[d] + 1)]
    /\ viewer' = [viewer EXCEPT ![s] = "VIEWING"]
    /\ UNCHANGED <<rowVars, stamp, retryOf, created, changed, ledgerVars, session, claim>>

\* Mutant: every unsettled task moves, the one awaiting reconciliation too.
TakeoverStateAll(b) == IF b \in TERMINAL_BUSINESS THEN b ELSE "PAUSED_WAITING_USER"
TakeoverState(b) == IF b = "RUNNING" THEN "PAUSED_WAITING_USER" ELSE b

\* RUNNING tasks move to the operator's lane.
Takeover(d) == [t \in Tasks |-> IF DeviceOf[t] = d /\ Exists(t)
                                THEN TakeoverState(biz[t]) ELSE biz[t]]

LiveTakeControl(s) ==
    LET d == ViewerDevice[s] IN
    /\ DeviceFree(d) /\ LiveIdle
    /\ viewer[s] = "VIEWING"
    /\ ~(dl[d].owner = "REMOTE" /\ dl[d].st = "HELD" /\ ~OwnedBy(d, s))
    /\ fence[d] < MaxFence
    /\ biz' = Takeover(d)
    /\ fence' = [fence EXCEPT ![d] = @ + 1]
    /\ dl' = [dl EXCEPT ![d] = NewLease("REMOTE", s, fence[d] + 1)]
    /\ viewer' = [viewer EXCEPT ![s] = "REMOTE"]
    /\ UNCHANGED <<status, lease, live, error, stamp, retryOf, created, changed, ledgerVars,
                   session, claim>>

\* _release_locked(): by the operator, a stalled frame or rejected input.  The
\* device-lease row is read without a lock; LiveWrite is the UPDATE.
LiveRelease(s) ==
    /\ LiveIdle
    /\ viewer[s] = "REMOTE"
    /\ viewer' = [viewer EXCEPT ![s] =
                    IF OwnedBy(ViewerDevice[s], s) THEN "RELEASING" ELSE "VIEWING"]
    /\ UNCHANGED <<rowVars, stamp, retryOf, created, changed, ledgerVars, deviceVars, claim>>

\* _close_locked(): stop, hard limit, disconnect grace, projection denied.
LiveClose(s) ==
    /\ LiveIdle
    /\ viewer[s] \in {"VIEWING", "REMOTE"}
    /\ viewer' = [viewer EXCEPT ![s] =
                    IF OwnedBy(ViewerDevice[s], s) THEN "CLOSING" ELSE "CLOSED"]
    /\ UNCHANGED <<rowVars, stamp, retryOf, created, changed, ledgerVars, deviceVars, claim>>

Downgraded(l) == [l EXCEPT !.owner = "LIVE"]
Written(pending, l) == IF pending = "RELEASING" THEN Downgraded(l) ELSE Ended(l)
Left(pending) == IF pending = "RELEASING" THEN "VIEWING" ELSE "CLOSED"

\* UPDATE device_lease WHERE device_id: the key names the device, so it finds
\* the row of whoever has replaced the session's lease since it was read.
LiveWrite(s) ==
    LET d == ViewerDevice[s] IN
    /\ LeaseRowFree(d)
    /\ viewer[s] \in {"RELEASING", "CLOSING"}
    /\ viewer' = [viewer EXCEPT ![s] = Left(@)]
    /\ dl' = [dl EXCEPT ![d] = Written(viewer[s], @)]
    /\ UNCHANGED <<rowVars, stamp, retryOf, created, changed, ledgerVars, fence, session, claim>>

\* The UPDATE waited for claim(), which deleted the row: it fails.
LiveWriteLost(s) ==
    /\ ~LeaseRowFree(ViewerDevice[s])
    /\ viewer[s] \in {"RELEASING", "CLOSING"}
    /\ viewer' = [viewer EXCEPT ![s] = Left(@)]
    /\ UNCHANGED <<rowVars, stamp, retryOf, created, changed, ledgerVars, deviceVars, claim>>

\* LiveService: sessions in memory only, no device lock, no device lease.
LegacyOpen(s) ==
    /\ viewer[s] = "NONE"
    /\ \A r \in LegacyViewers :
        ViewerDevice[r] = ViewerDevice[s] => viewer[r] \in {"NONE", "CLOSED"}
    /\ viewer' = [viewer EXCEPT ![s] = "VIEWING"]
    /\ UNCHANGED <<rowVars, stamp, retryOf, created, changed, ledgerVars, deviceVars, claim>>

\* The UPDATE waits for the RUNNING rows claim() has locked.
LegacyTakeControl(s) ==
    LET d == ViewerDevice[s] IN
    /\ viewer[s] = "VIEWING"
    /\ \A t \in TasksOn(d) : Exists(t) /\ biz[t] = "RUNNING" => RowFree(t)
    /\ biz' = Takeover(d)
    /\ viewer' = [viewer EXCEPT ![s] = "REMOTE"]
    /\ UNCHANGED <<status, lease, live, error, stamp, retryOf, created, changed, ledgerVars,
                   deviceVars, claim>>

\* release(), and stop() or the expiry sweep.
LegacyLeave(s, to) ==
    /\ viewer[s] \in {"VIEWING", "REMOTE"}
    /\ viewer' = [viewer EXCEPT ![s] = to]
    /\ UNCHANGED <<rowVars, stamp, retryOf, created, changed, ledgerVars, deviceVars, claim>>

\* Time passes one lease's expiry: the task lease and the device lease that
\* carry the same id end together.
ExpireTaskLease(t) ==
    LET d == DeviceOf[t] IN
    /\ live[t]
    /\ live' = [live EXCEPT ![t] = FALSE]
    /\ dl' = [dl EXCEPT ![d] = IF @.token = lease[t] /\ @.st = "HELD"
                               THEN Ended(@) ELSE @]
    /\ UNCHANGED <<status, biz, lease, error, stamp, retryOf, created, changed, ledgerVars, fence,
                   session, claim, viewer>>

\* The lease of a live session or a workflow ends by itself.
ExpireDeviceLease(d) ==
    /\ dl[d].st = "HELD"
    /\ \A t \in TasksOn(d) : live[t] => lease[t] # dl[d].token
    /\ dl' = [dl EXCEPT ![d] = Ended(@)]
    /\ UNCHANGED <<rowVars, stamp, retryOf, created, changed, ledgerVars, fence, session, claim,
                   viewer>>

-----------------------------------------------------------------------------
EventTypes == {"PAUSE_REQUESTED", "PAUSED_WAITING_USER", "RESUME_CHECK", "RECONCILING"}

ClaimStep(d) ==
    \/ ClaimCheck(d)
    \/ \E row \in TasksOn(d), skip \in SUBSET TasksOn(d) : ClaimSelect(d, row, skip)
    \/ \E skip \in SUBSET TasksOn(d) : ClaimNothing(d, skip)
    \/ ClaimCommit(d)
    \/ ClaimAbort(d)

RunnerStep(t) ==
    \/ Release(t)
    \/ Heartbeat(t)
    \/ \E type \in EventTypes : Event(t, type)
    \/ \E code \in FinishCodes \cup {"NONE"} : \E outcome \in {"SUCCEEDED", "FAILED"} :
            Finish(t, outcome, code)
    \/ AckCancelApplied(t)
    \/ AckCancelDeferred(t)
    \/ \E a \in Actions : Intent(t, a)
    \/ \E a \in Actions, reported \in {"APPLIED", "UNKNOWN"} : Outcome(t, a, reported)

OperatorStep(t) ==
    \/ Create(t)
    \/ StampBusinessFields(t)
    \/ \E source \in Tasks : Retry(source, t)
    \/ CancelNow(t)
    \/ CancelRequest(t)
    \/ Pause(t)
    \/ AckPaused(t)
    \/ Resume(t)
    \/ MarkUnknown(t)
    \/ ReconcileApplied(t)
    \/ ReconcileNotSubmitted(t)
    \/ \E decision \in {"SUCCEEDED", "FAILED"} : ConfirmTarget(t, decision)
    \/ ExpireTaskLease(t)

DeviceStep(d) ==
    \/ Enroll(d)
    \/ RegisterSession(d)
    \/ \E t \in TasksOn(d) : UnbindAccount(AccountOf[t], d)
    \/ \E t \in TasksOn(d) : RevokeAccount(AccountOf[t])
    \/ \E w \in Workflows : AcquireLease(w, d)
    \/ ReleaseLease(d)
    \/ ExpireDeviceLease(d)

LiveStep(s) ==
    \/ LiveEstablish(s)
    \/ LiveTakeControl(s)
    \/ LiveRelease(s)
    \/ LiveClose(s)
    \/ LiveWrite(s)
    \/ LiveWriteLost(s)

LegacyStep(s) ==
    \/ LegacyOpen(s)
    \/ LegacyTakeControl(s)
    \/ \E to \in {"VIEWING", "CLOSED"} : LegacyLeave(s, to)

Next ==
    \/ \E d \in Devices : ClaimStep(d)
    \/ \E t \in Tasks : RunnerStep(t)
    \/ \E t \in Tasks : OperatorStep(t)
    \/ \E d \in Devices : DeviceStep(d)
    \/ \E s \in Viewers \ LegacyViewers : LiveStep(s)
    \/ \E s \in LegacyViewers : LegacyStep(s)

Spec == Init /\ [][Next]_vars

-----------------------------------------------------------------------------
(* Properties. *)

LeaseRows == [owner : {"NONE", "AUTO", "LIVE", "REMOTE"},
              by : Tasks \cup Viewers \cup Workflows \cup {NoTask},
              token : Nat,
              st : {"HELD", "ENDED"}]
ClaimStates == [phase : {"IDLE", "CHECKED", "SELECTED"},
                row : Tasks \cup {NoTask},
                skip : SUBSET Tasks]

\* Every column holds a value of its domain; in particular the business state
\* is always one the transition matrices of platform_tasks.py are total over
\* (the single-L CANCELED is never written again).
TypeOK ==
    /\ status \in [Tasks -> RunnerStates]
    /\ biz \in [Tasks -> BUSINESS_STATES]
    /\ lease \in [Tasks -> Nat]
    /\ live \in [Tasks -> BOOLEAN]
    /\ stamp \in [Tasks -> Nat]
    /\ error \in [Tasks -> ErrorCodes]
    /\ retryOf \in [Tasks -> Tasks \cup {NoTask}]
    /\ created \in [Tasks -> {"DONE", "PENDING", "LATE"}]
    /\ changed \in SUBSET Tasks
    /\ ledger \in [Tasks -> [Actions -> LedgerStates]]
    /\ rowLease \in [Tasks -> [Actions -> Nat]]
    /\ grants \in [Tasks -> Nat]
    /\ fence \in [Devices -> Nat]
    /\ dl \in [Devices -> LeaseRows]
    /\ session \in [Devices -> Nat]
    /\ claim \in [Devices -> ClaimStates]
    /\ viewer \in [Viewers -> {"NONE", "VIEWING", "REMOTE", "RELEASING", "CLOSING", "CLOSED"}]

\* The properties below are about tasks create() has not overwritten: the late
\* write of the others (FinalBusinessState) can undo any of them.
InOrder == {t \in Tasks : created[t] # "LATE"}

\* A task with an unresolved ledger row is parked: it stays RECONCILING with
\* its runner state RUNNING until reconcile() decides, whatever heartbeat(),
\* event(), cancel(), take_control(), claim() or an unbind do meanwhile.  The
\* one other way out is confirm() of the publish queue, which settles it.
OpenCommitParked ==
    \A t \in InOrder : HasOpenRow(t) =>
        \/ biz[t] = "RECONCILING" /\ status[t] = "RUNNING"
        \/ t \in QueueTasks /\ status[t] \in {"SUCCEEDED", "FAILED"} /\ biz[t] = status[t]

\* intent() authorizes at most one controlled action in the life of a task,
\* across leases, sessions, replays and different action ids.
SingleAuthorization ==
    \A t \in InOrder :
        /\ grants[t] <= 1
        /\ \A a, b \in Actions : ledger[t][a] # "NONE" /\ ledger[t][b] # "NONE" => a = b

\* retry() only ever repeats a task for which no device commit was authorized:
\* an uncertain or a resolved commit is never run again by a retry.  (Tasks of
\* the publish queue excepted: confirm() leaves them no error code.)
RetryOnlyUncommitted ==
    \A t \in Tasks : retryOf[t] \in InOrder \ QueueTasks =>
        grants[retryOf[t]] = 0 /\ ~HasRow(retryOf[t])

\* The runner state and the business state agree on being settled, although
\* different handlers under different locks write them.
SettledAgreement ==
    \A t \in InOrder : Exists(t) =>
        /\ status[t] \in {"SUCCEEDED", "FAILED"} <=> biz[t] \in TERMINAL_BUSINESS
        /\ status[t] = "SUCCEEDED" <=> biz[t] = "SUCCEEDED"

\* A device lease in force for the automation names a task that still holds
\* that very lease: never a queued, a cancelled or a re-leased one (cancel,
\* release, finish, requeue and expiry all give the occupation back).
OccupationOwned ==
    \A d \in Devices : \A t \in Tasks :
        dl[d].owner = "AUTO" /\ dl[d].by = t /\ dl[d].st = "HELD" =>
            /\ t \in TasksOn(d)
            /\ lease[t] = dl[d].token
            /\ live[t]
            /\ status[t] \notin {"ABSENT", "QUEUED"}
            /\ biz[t] # "CANCELLED"

\* No handler reopens a settled task, changes its recorded error or touches
\* its ledger rows (but for the step that makes create() late).
TerminalAbsorbing ==
    [][\A t \in InOrder \cap InOrder' : Exists(t) /\ biz[t] \in TERMINAL_BUSINESS =>
        /\ biz'[t] = biz[t] /\ status'[t] = status[t] /\ error'[t] = error[t]
        /\ ledger'[t] = ledger[t] /\ grants'[t] = grants[t]]_vars

\* The phase of a ledger row (controlled_actions._phase_from).
Phase(row) == CASE row = "NONE" -> 0
                [] row = "INTENT" -> 1
                [] row \in {"UNKNOWN", "APPLIED"} -> 2
                [] row \in ResolvedRows -> 3

\* Ledger rows move forward only, intent, report, resolution, and a report of
\* APPLIED is never resolved as NOT_SUBMITTED.
LedgerMonotone ==
    [][\A t \in InOrder, a \in Actions : ledger'[t][a] # ledger[t][a] =>
        /\ Phase(ledger[t][a]) < Phase(ledger'[t][a])
        /\ ledger[t][a] = "APPLIED" => ledger'[t][a] = "RESOLVED_APPLIED"]_vars

-----------------------------------------------------------------------------
(* What the documents say and the code does not keep. *)

\* task-schedule-v1.md, 2 and 3: SUCCEEDED, FAILED and CANCELLED are final.
FinalBusinessState ==
    [][\A t \in Tasks : Exists(t) /\ biz[t] \in TERMINAL_BUSINESS => biz'[t] = biz[t]]_vars

\* fleet-identity-v1.md, 6.1: at most one CLAIMED/RUNNING task per device.
OneActivePerDevice == \A d \in Devices : Cardinality(ActiveTasks(d)) <= 1

\* fleet-identity-v1.md, 6.2: at most one RUNNING write task per account,
\* across devices.
AccountWriteMutex ==
    \A t, u \in Tasks :
        /\ AccountOf[t] = AccountOf[u] /\ AccountOf[t] # NoAccount
        /\ DeviceOf[t] # DeviceOf[u]
        => ~(status[t] = "RUNNING" /\ status[u] = "RUNNING")

\* mobile_service.py, claim(): a task waiting for reconciliation blocks the
\* device and is never dispatched again as new work.
UnknownNeverRedispatched ==
    [][\A t \in Tasks : biz[t] = "RECONCILING" => biz'[t] # "PREFLIGHT"]_vars

\* platform_tasks.py, pause(): a cancel decision is sticky, a late pause does
\* not overwrite CANCEL_REQUESTED.
StickyCancel ==
    [][\A t \in Tasks : biz[t] = "CANCEL_REQUESTED" =>
        biz'[t] \notin {"PAUSE_REQUESTED", "PAUSED_WAITING_USER"}]_vars

\* fleet-identity-v1.md, 4: an UNKNOWN row converges through reconciliation
\* only, so its task waits in RECONCILING.
UnknownReconciled ==
    \A t \in Tasks, a \in Actions : ledger[t][a] = "UNKNOWN" => biz[t] = "RECONCILING"

\* fleet_live.py, _release_locked(): only a row this session currently owns is
\* downgraded.
DowngradesOwnRow ==
    [][\A d \in Devices : dl'[d].owner # dl[d].owner /\ dl'[d].by = dl[d].by
                                => dl[d].by \in Viewers]_vars
=============================================================================
