----------------------------- MODULE PublishFlow -----------------------------
(***************************************************************************)
(* Publish plans of the control API and the Temporal workflows that carry  *)
(* them out: services.py create_plan() .. update_target_state(), the       *)
(* publish state machine of packages/domain, temporal_sink.py, and the     *)
(* workflows and activities of services/temporal-worker.                   *)
(*                                                                         *)
(* The control API writes rows in one transaction per request.  The        *)
(* workflow reaches it through activities: an activity is applied and      *)
(* answered, applied with its answer lost, or not applied at all, and its  *)
(* retries end either in an answer or in an ActivityError.  cancel_plan()  *)
(* reads the target rows without locking them and writes them at commit,   *)
(* so it is two steps.  The edge executor is external.                     *)
(***************************************************************************)
EXTENDS Integers, Sequences, FiniteSets

CONSTANTS Plans,         \* publish plans, each with its own idempotency key
          Targets,       \* publish targets
          Devices,       \* devices the targets are assigned to
          Order,         \* Order[p]: the targets of plan p, in request order
          DeviceOf,      \* DeviceOf[t]: the device of target t
          Approval,      \* plans whose approval_policy is not NONE
          Confirm,       \* targets with requires_human_confirmation
          MaxRuns,       \* bound: MaxRuns[p] deliveries start a run of plan p
          MaxFence       \* bound: leases minted per device

ASSUME FlowAssumption ==
    /\ Order \in [Plans -> Seq(Targets)]
    /\ DeviceOf \in [Targets -> Devices]
    /\ Approval \subseteq Plans /\ Confirm \subseteq Targets
    /\ MaxRuns \in [Plans -> Nat] /\ MaxFence \in Nat

\* publish_target.plan_id: a target is a row of one plan.
ASSUME TargetRows ==
    /\ \A t \in Targets : \E p \in Plans : \E i \in DOMAIN Order[p] : Order[p][i] = t
    /\ \A p, q \in Plans : \A i \in DOMAIN Order[p], j \in DOMAIN Order[q] :
          Order[p][i] = Order[q][j] => p = q /\ i = j

VARIABLES
    pstate,    \* publish_plan.state, NONE before create_plan()
    tstate,    \* publish_target.state, NONE before submit_plan()
    intent,    \* commit_intent of the target, or NoIntent
    approval,  \* decision of the plan's approval row, or NONE
    ctx,       \* target states read by an open cancel_plan(), or NoTx
    inbox,     \* the outbox holds an event that starts the plan's workflow
    run,       \* status and number of the plan's workflow runs, next target
    wf,        \* child workflow of a target
    signal,    \* request_cancel was signalled to the child workflow
    dl,        \* device_lease row: token, owning target, state
    commits,   \* history: commit_once calls that reached the edge
    observed   \* history: a reconciliation has looked at the target

planVars == <<pstate, approval, ctx, inbox>>
rowVars  == <<tstate, intent>>
history  == <<commits, observed>>
vars == <<planVars, rowVars, run, wf, signal, dl, history>>

-----------------------------------------------------------------------------
(* packages/domain states.py                                               *)

PublishState == {"DRAFT", "AWAITING_APPROVAL", "SCHEDULED", "QUEUED", "RUNNING",
                 "WAITING_CONFIRMATION", "COMMITTING", "RECONCILING",
                 "SUCCEEDED", "FAILED", "UNKNOWN", "CANCELED"}

SAFE_CANCEL_STATES == {"DRAFT", "AWAITING_APPROVAL", "SCHEDULED", "QUEUED",
                       "RUNNING", "WAITING_CONFIRMATION"}

ALLOWED_TRANSITIONS ==
    [DRAFT                |-> {"AWAITING_APPROVAL", "SCHEDULED"},
     AWAITING_APPROVAL    |-> {"SCHEDULED", "FAILED", "CANCELED"},
     SCHEDULED            |-> {"QUEUED", "CANCELED"},
     QUEUED               |-> {"RUNNING", "FAILED", "CANCELED"},
     RUNNING              |-> {"WAITING_CONFIRMATION", "COMMITTING", "FAILED", "CANCELED"},
     WAITING_CONFIRMATION |-> {"COMMITTING", "FAILED", "CANCELED"},
     COMMITTING           |-> {"RECONCILING"},
     RECONCILING          |-> {"SUCCEEDED", "FAILED", "UNKNOWN"},
     SUCCEEDED            |-> {},
     FAILED               |-> {},
     UNKNOWN              |-> {"SUCCEEDED", "FAILED"},
     CANCELED             |-> {}]

\* unsafe_states of cancel_plan().
unsafe_states == {"COMMITTING", "RECONCILING", "SUCCEEDED", "UNKNOWN"}

NoIntent == [token |-> 0, evidence |-> 0]
NoTx == [open |-> FALSE, read |-> [t \in Targets |-> "NONE"]]
NoLease == [token |-> 0, by |-> "NONE", st |-> "NONE"]
Fresh(step) == [pc |-> step, token |-> 0, intent |-> FALSE, final |-> "NONE", raised |-> FALSE]
Idle == Fresh("idle")

TargetsOf(p) == {Order[p][i] : i \in DOMAIN Order[p]}
PlanOf(t) == CHOOSE p \in Plans : t \in TargetsOf(p)

\* Steps of PublishTargetWorkflow.run that set the target's state, the state
\* each one asks for, and the step that follows it.
Marks == [queue      |-> "QUEUED",
          start      |-> "RUNNING",
          wait       |-> "WAITING_CONFIRMATION",
          reconciling |-> "RECONCILING",
          cancel     |-> "CANCELED"]
After == [queue |-> "acquire", start |-> "preflight", wait |-> "confirm",
          reconciling |-> "reconcile", cancel |-> "cleanup",
          settle |-> "cleanup", error |-> "cleanup"]
TrySteps == {"validate", "queue", "acquire", "start", "preflight", "prepare", "wait",
             "intent", "reconciling", "reconcile", "settle", "cancel"}
BeforeIntent == {"validate", "queue", "acquire", "start", "preflight", "prepare", "wait", "confirm"}
Steps == TrySteps \cup {"idle", "confirm", "commit", "error", "cleanup", "release"}

Wanted(t) == IF wf[t].pc \in DOMAIN Marks THEN Marks[wf[t].pc] ELSE wf[t].final

TargetStates == PublishState \cup {"NONE"}
WfRecords == [pc : Steps, token : 0..MaxFence, intent : BOOLEAN,
              final : TargetStates, raised : BOOLEAN]
LeaseRows == [token : 0..MaxFence, by : Targets \cup {"NONE"}, st : {"NONE", "HELD", "ENDED"}]

TypeOK ==
    /\ pstate \in [Plans -> TargetStates]
    /\ tstate \in [Targets -> TargetStates]
    /\ intent \in [Targets -> [token : 0..MaxFence, evidence : Nat]]
    /\ approval \in [Plans -> {"NONE", "APPROVED", "REJECTED"}]
    /\ ctx \in [Plans -> [open : BOOLEAN, read : [Targets -> TargetStates]]]
    /\ inbox \in [Plans -> BOOLEAN]
    /\ run \in [Plans -> [st : {"none", "running", "completed", "failed"},
                          n : Nat, next : Nat]]
    /\ wf \in [Targets -> WfRecords]
    /\ signal \in [Targets -> BOOLEAN]
    /\ dl \in [Devices -> LeaseRows]
    /\ commits \in [Targets -> Nat]
    /\ observed \in [Targets -> BOOLEAN]

Init ==
    /\ pstate = [p \in Plans |-> "NONE"]
    /\ tstate = [t \in Targets |-> "NONE"]
    /\ intent = [t \in Targets |-> NoIntent]
    /\ approval = [p \in Plans |-> "NONE"]
    /\ ctx = [p \in Plans |-> NoTx]
    /\ inbox = [p \in Plans |-> FALSE]
    /\ run = [p \in Plans |-> [st |-> "none", n |-> 0, next |-> 1]]
    /\ wf = [t \in Targets |-> Idle]
    /\ signal = [t \in Targets |-> FALSE]
    /\ dl = [d \in Devices |-> NoLease]
    /\ commits = [t \in Targets |-> 0]
    /\ observed = [t \in Targets |-> FALSE]

-----------------------------------------------------------------------------
(* Control API: the plan                                                   *)

\* create_plan(): a repeated request with the same key returns the row.
CreatePlan(p) ==
    /\ pstate[p] = "NONE"
    /\ pstate' = [pstate EXCEPT ![p] = "DRAFT"]
    /\ UNCHANGED <<approval, ctx, inbox, rowVars, run, wf, signal, dl, history>>

\* approval_policy is not NONE.  Mutant: the policy is not looked at.
RequiresApprovalNever(p) == FALSE
RequiresApproval(p) == p \in Approval

\* submit_plan(): the plan row is locked; a plan that has a snapshot is
\* returned as it is.  The event starts the workflow unless approval is due.
SubmitPlan(p) ==
    LET s == IF RequiresApproval(p) THEN "AWAITING_APPROVAL" ELSE "SCHEDULED" IN
    /\ ~ctx[p].open
    /\ pstate[p] = "DRAFT"
    /\ pstate' = [pstate EXCEPT ![p] = s]
    /\ tstate' = [t \in Targets |-> IF t \in TargetsOf(p) THEN s ELSE tstate[t]]
    /\ inbox' = [inbox EXCEPT ![p] = ~RequiresApproval(p)]
    /\ UNCHANGED <<approval, intent, ctx, run, wf, signal, dl, history>>

\* decide_approval() by somebody other than the creator.
DecideApproval(p, approved) ==
    LET s == IF approved THEN "SCHEDULED" ELSE "FAILED" IN
    /\ ~ctx[p].open
    /\ pstate[p] = "AWAITING_APPROVAL"
    /\ pstate' = [pstate EXCEPT ![p] = s]
    /\ tstate' = [t \in Targets |-> IF t \in TargetsOf(p) THEN s ELSE tstate[t]]
    /\ approval' = [approval EXCEPT ![p] = IF approved THEN "APPROVED" ELSE "REJECTED"]
    /\ inbox' = [inbox EXCEPT ![p] = approved]
    /\ UNCHANGED <<intent, ctx, run, wf, signal, dl, history>>

\* cancel_plan() up to its reads: the plan row is locked, the targets are not.
CancelRead(p) ==
    /\ pstate[p] # "NONE" /\ ~ctx[p].open
    /\ ctx' = [ctx EXCEPT ![p] = [open |-> TRUE,
           read |-> [t \in Targets |-> IF t \in TargetsOf(p) THEN tstate[t] ELSE "NONE"]]]
    /\ UNCHANGED <<pstate, approval, inbox, rowVars, run, wf, signal, dl, history>>

\* cancel_plan() from its reads to the commit.  The whole request is refused
\* when the plan's own state is not safe and no target is.
CancelWrite(p) ==
    LET read == ctx[p].read
        unsafe == \E t \in TargetsOf(p) : read[t] \in unsafe_states
        hit == {t \in TargetsOf(p) : read[t] \notin unsafe_states \cup {"FAILED", "NONE"}}
    IN
    /\ ctx[p].open
    /\ ctx' = [ctx EXCEPT ![p] = NoTx]
    /\ \/ /\ unsafe \/ pstate[p] \in SAFE_CANCEL_STATES
          /\ pstate' = [pstate EXCEPT ![p] = IF unsafe THEN @ ELSE "CANCELED"]
          /\ tstate' = [t \in Targets |-> IF t \in hit THEN "CANCELED" ELSE tstate[t]]
       \/ /\ ~unsafe /\ pstate[p] \notin SAFE_CANCEL_STATES
          /\ UNCHANGED <<pstate, tstate>>
    /\ UNCHANGED <<approval, intent, inbox, run, wf, signal, dl, history>>

\* _block_stale_account_work(): the account of the plan lost its binding.
\* The plan row alone is written.
PauseForAccount(p) ==
    /\ ~ctx[p].open
    /\ pstate[p] \in {"DRAFT", "AWAITING_APPROVAL", "SCHEDULED", "QUEUED"}
    /\ pstate' = [pstate EXCEPT ![p] = "CANCELED"]
    /\ UNCHANGED <<approval, ctx, inbox, rowVars, run, wf, signal, dl, history>>

-----------------------------------------------------------------------------
(* Control API: targets and leases, called by the activities               *)

\* update_target_state(): asking for the current state is a success.
CanUpdate(t, s) == s = tstate[t] \/ s \in ALLOWED_TRANSITIONS[tstate[t]]
UpdateTargetState(t, s) == CanUpdate(t, s) /\ tstate' = [tstate EXCEPT ![t] = s]

\* device.fencing_counter after the increment.  Mutant: it is not counted up.
NextTokenReused(d) == IF dl[d].token = 0 THEN 1 ELSE dl[d].token
NextToken(d) == dl[d].token + 1

\* acquire_lease(): a lease in force is refused, or returned to its owner.
AcquireLease(t) ==
    LET d == DeviceOf[t] IN
    \/ /\ dl[d].st = "HELD" /\ dl[d].by = t
       /\ UNCHANGED dl
    \/ /\ dl[d].st # "HELD"
       /\ dl[d].token < MaxFence
       /\ dl' = [dl EXCEPT ![d] = [token |-> NextToken(d), by |-> t, st |-> "HELD"]]

\* release_lease(): the id must be the one of the device's row.
ReleaseLease(t) ==
    LET d == DeviceOf[t] IN
    /\ dl[d].token = wf[t].token
    /\ dl' = [dl EXCEPT ![d].st = "ENDED"]

\* create_commit_intent(): an intent with the same input is returned.
CreateCommitIntent(t) ==
    LET mine == [token |-> wf[t].token, evidence |-> run[PlanOf(t)].n]
        lease == dl[DeviceOf[t]]
    IN
    \/ /\ intent[t] = mine
       /\ UNCHANGED rowVars
    \/ /\ intent[t] = NoIntent
       /\ lease.st = "HELD" /\ lease.token = wf[t].token
       /\ tstate[t] \in {"RUNNING", "WAITING_CONFIRMATION"}
       /\ intent' = [intent EXCEPT ![t] = mine]
       /\ tstate' = [tstate EXCEPT ![t] = "COMMITTING"]

\* The lease of 60 s runs out.
LeaseExpires(d) ==
    /\ dl[d].st = "HELD"
    /\ dl' = [dl EXCEPT ![d].st = "ENDED"]
    /\ UNCHANGED <<planVars, rowVars, run, wf, signal, history>>

\* An operator settles UNKNOWN by hand through the same endpoint.
ReconcileByHand(t, s) ==
    /\ tstate[t] = "UNKNOWN"
    /\ UpdateTargetState(t, s)
    /\ observed' = [observed EXCEPT ![t] = TRUE]
    /\ UNCHANGED <<planVars, intent, run, wf, signal, dl, commits>>

-----------------------------------------------------------------------------
(* Outbox to Temporal, PublishPlanWorkflow                                 *)

\* TemporalPublishSink.publish(): the outbox delivers at least once.  A run
\* in progress keeps the workflow id; once it has closed the id is free.
StartWorkflow(p) ==
    /\ inbox[p]
    /\ run[p].st # "running"
    /\ run[p].n < MaxRuns[p]
    /\ run' = [run EXCEPT ![p] = [st |-> "running", n |-> @.n + 1, next |-> 1]]
    /\ UNCHANGED <<planVars, rowVars, wf, signal, dl, history>>

\* PublishPlanWorkflow.run(): the targets one after the other.
StartTarget(p) ==
    /\ run[p].st = "running"
    /\ run[p].next <= Len(Order[p])
    /\ LET t == Order[p][run[p].next] IN
       /\ wf[t].pc = "idle"
       /\ wf' = [wf EXCEPT ![t] = Fresh("validate")]
    /\ UNCHANGED <<planVars, rowVars, run, signal, dl, history>>

\* What the end of a child means for its plan's workflow: one that raised
\* fails it, and the targets that follow are not started.
AfterChild(p, raised) ==
    [st |-> IF raised THEN "failed"
            ELSE IF run[p].next < Len(Order[p]) THEN "running" ELSE "completed",
     n |-> run[p].n, next |-> run[p].next + 1]

FinishTarget(t, raised) ==
    /\ wf' = [wf EXCEPT ![t] = Idle]
    /\ signal' = [signal EXCEPT ![t] = FALSE]
    /\ run' = [run EXCEPT ![PlanOf(t)] = AfterChild(PlanOf(t), raised)]

-----------------------------------------------------------------------------
(* PublishTargetWorkflow                                                   *)

Goto(t, step) == wf' = [wf EXCEPT ![t].pc = step]
SafePoint(t, step) == Goto(t, IF signal[t] THEN "cancel" ELSE step)

\* validate_snapshot, edge_preflight, stage_media + run_prepare_steps.
ReadStep(t) ==
    /\ \/ wf[t].pc = "validate" /\ SafePoint(t, "queue")
       \/ wf[t].pc = "preflight" /\ SafePoint(t, "prepare")
       \/ wf[t].pc = "prepare" /\ SafePoint(t, IF t \in Confirm THEN "wait" ELSE "intent")
    /\ UNCHANGED <<planVars, rowVars, run, signal, dl, history>>

\* wait_condition(approved or cancel requested).
Confirmed(t) ==
    /\ wf[t].pc = "confirm"
    /\ SafePoint(t, "intent")
    /\ UNCHANGED <<planVars, rowVars, run, signal, dl, history>>

\* request_cancel, up to the last safe point; a later signal changes nothing.
RequestCancel(t) ==
    /\ wf[t].pc \in BeforeIntent /\ ~signal[t]
    /\ signal' = [signal EXCEPT ![t] = TRUE]
    /\ UNCHANGED <<planVars, rowVars, run, wf, dl, history>>

\* The except clause: ActivityError leaves the try block.
\* Mutant: the state forgets that the intent was written.
ErrorStateBlind(t) == "FAILED"
ErrorState(t) == IF wf[t].intent THEN "UNKNOWN" ELSE "FAILED"
Except(t) == wf' = [wf EXCEPT ![t].pc = "error", ![t].final = ErrorState(t)]

\* IDEMPOTENT_WRITE_RETRY ends the except clause's own mark after 8 attempts.
\* Mutant: it is retried for ever.
GiveUpNever(t) == wf[t]
GiveUp(t) == [wf[t] EXCEPT !.pc = "cleanup", !.raised = TRUE]

\* mark_target_state, answered or with every answer lost.
MarkTarget(t, answered) ==
    /\ wf[t].pc \in DOMAIN After
    /\ UpdateTargetState(t, Wanted(t))
    /\ IF answered THEN Goto(t, After[wf[t].pc])
       ELSE IF wf[t].pc = "error"
            THEN wf' = [wf EXCEPT ![t] = GiveUp(t)]
            ELSE Except(t)
    /\ UNCHANGED <<planVars, intent, run, signal, dl, history>>

\* acquire_device_lease.
AcquireDeviceLease(t, answered) ==
    /\ wf[t].pc = "acquire"
    /\ AcquireLease(t)
    /\ IF answered
       THEN wf' = [wf EXCEPT ![t].pc = "start", ![t].token = dl'[DeviceOf[t]].token]
       ELSE Except(t)
    /\ UNCHANGED <<planVars, rowVars, run, signal, history>>

\* write_commit_intent.
WriteCommitIntent(t, answered) ==
    /\ wf[t].pc = "intent"
    /\ CreateCommitIntent(t)
    /\ IF answered
       THEN wf' = [wf EXCEPT ![t].pc = "commit", ![t].intent = TRUE]
       ELSE Except(t)
    /\ UNCHANGED <<planVars, run, signal, dl, history>>

\* COMMIT_ONCE_RETRY.  Mutant: the default policy tries again.
AfterCommitRetried(reached) == IF reached THEN "commit" ELSE "reconciling"
AfterCommit(reached) == "reconciling"

\* commit_once has one attempt; whatever becomes of it, the next step is to
\* reconcile.  The call may be lost before it reaches the edge.
CommitOnce(t, reached) ==
    /\ wf[t].pc = "commit"
    /\ commits' = [commits EXCEPT ![t] = IF reached THEN @ + 1 ELSE @]
    /\ Goto(t, AfterCommit(reached))
    /\ UNCHANGED <<planVars, rowVars, run, signal, dl, observed>>

\* Anything but a definite observation is UNKNOWN.  Mutant: it is passed on.
FinalStateRaw(observation) == observation
FinalState(observation) ==
    IF observation \in {"SUCCEEDED", "FAILED"} THEN observation ELSE "UNKNOWN"

\* reconcile_result: the edge's observation names the final state.
ReconcileResult(t, s) ==
    /\ wf[t].pc = "reconcile"
    /\ wf' = [wf EXCEPT ![t].pc = "settle", ![t].final = FinalState(s)]
    /\ observed' = [observed EXCEPT ![t] = TRUE]
    /\ UNCHANGED <<planVars, rowVars, run, signal, dl, commits>>

\* The retries of an activity are exhausted and nothing was applied.
ActivityFails(t) ==
    /\ wf[t].pc \in TrySteps \cup {"error"}
    /\ IF wf[t].pc = "error"
       THEN wf' = [wf EXCEPT ![t] = GiveUp(t)]
       ELSE Except(t)
    /\ UNCHANGED <<planVars, rowVars, run, signal, dl, history>>

\* The finally clause: cleanup, then the lease; an error ends it early.
Cleanup(t, fails) ==
    /\ wf[t].pc = "cleanup"
    /\ IF ~fails /\ wf[t].token # 0
       THEN Goto(t, "release") /\ UNCHANGED <<run, signal>>
       ELSE FinishTarget(t, fails \/ wf[t].raised)
    /\ UNCHANGED <<planVars, rowVars, dl, history>>

ReleaseDeviceLease(t, fails) ==
    /\ wf[t].pc = "release"
    /\ \/ ReleaseLease(t)
       \/ fails /\ UNCHANGED dl
    /\ FinishTarget(t, fails \/ wf[t].raised)
    /\ UNCHANGED <<planVars, rowVars, history>>

\* PublishTargetWorkflow.run(): one step of the worker.
TargetStep(t) ==
    \/ ReadStep(t)
    \/ \E ok \in BOOLEAN : \/ MarkTarget(t, ok)
                           \/ AcquireDeviceLease(t, ok)
                           \/ WriteCommitIntent(t, ok)
                           \/ CommitOnce(t, ok)
                           \/ Cleanup(t, ok)
                           \/ ReleaseDeviceLease(t, ok)
    \/ \E s \in {"SUCCEEDED", "FAILED", "PENDING"} : ReconcileResult(t, s)
    \/ ActivityFails(t)

Next ==
    \/ \E p \in Plans : \/ CreatePlan(p)
                        \/ SubmitPlan(p)
                        \/ \E a \in BOOLEAN : DecideApproval(p, a)
                        \/ CancelRead(p)
                        \/ CancelWrite(p)
                        \/ PauseForAccount(p)
                        \/ StartWorkflow(p)
                        \/ StartTarget(p)
    \/ \E t \in Targets : \/ TargetStep(t)
                          \/ Confirmed(t)
                          \/ RequestCancel(t)
                          \/ \E s \in {"SUCCEEDED", "FAILED"} : ReconcileByHand(t, s)
    \/ \E d \in Devices : LeaseExpires(d)

Spec == Init /\ [][Next]_vars

\* Temporal runs a workflow's next step for as long as a worker is up.
Fairness ==
    /\ \A p \in Plans : WF_vars(StartTarget(p))
    /\ \A t \in Targets : WF_vars(TargetStep(t))
FairSpec == Spec /\ Fairness

-----------------------------------------------------------------------------
(* Properties                                                              *)

\* commit_once reaches the edge at most once per target over every run of
\* its workflow, redelivered start events included, and never without the
\* commit intent that create_commit_intent() writes first.
CommitAtMostOnce ==
    \A t \in Targets : /\ commits[t] <= 1
                       /\ commits[t] = 1 => intent[t] # NoIntent

\* update_target_state() never records FAILED for a target whose commit call
\* went out unless a reconciliation has looked at the result: the except
\* clause says FAILED for "activity failed before commit" only.
FailedNotCommitted ==
    \A t \in Targets : tstate[t] = "FAILED" /\ commits[t] > 0 => observed[t]

\* The same within the first run of PublishPlanWorkflow: what a redelivered
\* start event does to an UNKNOWN target is the exception.
FailedNotCommittedOnce ==
    \A t \in Targets : /\ tstate[t] = "FAILED" /\ commits[t] > 0
                       /\ run[PlanOf(t)].n = 1
                       => observed[t]

\* Two targets of one device never hold commit intents with the same fencing
\* token: acquire_lease() counts up past every lease the device ever had.
IntentsFenced ==
    \A t, u \in Targets :
        t # u /\ DeviceOf[t] = DeviceOf[u] /\ intent[t] # NoIntent /\ intent[u] # NoIntent
        => intent[t].token # intent[u].token

\* A target of a plan that needs decide_approval() is committed only after
\* the approval: a rejected or undecided plan reaches no device.
ApprovedBeforeCommit ==
    \A p \in Approval : \A t \in TargetsOf(p) :
        commits[t] > 0 => approval[p] = "APPROVED"

\* The commit of a target: once, fenced, approved, and never recorded as a
\* failure that nobody has observed.
CommitSafe ==
    CommitAtMostOnce /\ FailedNotCommittedOnce /\ IntentsFenced /\ ApprovedBeforeCommit

\* cancel_plan() cancels before the commit and only records the request once
\* a target is committing: a CANCELED target has no commit intent.
CanceledNotCommitting ==
    \A t \in Targets : tstate[t] = "CANCELED" => intent[t] = NoIntent

\* PublishPlanWorkflow.run() ends, whatever the activities do, unless a
\* target waits for somebody's confirmation.
PlanRunEnds ==
    \A p \in Plans : run[p].st = "running" ~>
        run[p].st # "running" \/ \E t \in TargetsOf(p) : wf[t].pc = "confirm"

=============================================================================
