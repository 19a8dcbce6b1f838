-------------------------- MODULE MobileTaskProofs --------------------------
(***************************************************************************)
(* Theorems about MobileTask, for every number of tasks, devices, actions  *)
(* and live sessions.                                                      *)
(***************************************************************************)
EXTENDS MobileTask, TLAPS

USE DEF NoTask

\* What the operators on device-lease rows return.
LEMMA LeaseRowFacts ==
    ASSUME NEW l \in LeaseRows
    PROVE  /\ Ended(l) \in LeaseRows
           /\ Downgraded(l) \in LeaseRows
           /\ \A t \in Tasks : ReleaseOccupation(l, t) \in LeaseRows
           /\ \A pending : Written(pending, l) \in LeaseRows
BY DEF LeaseRows, Ended, Downgraded, ReleaseOccupation, Written

\* A lease minted by claim(), resume(), establish() or take_control() is a row.
LEMMA NewLeaseFacts ==
    ASSUME NEW owner \in {"AUTO", "LIVE", "REMOTE"}, NEW by \in Tasks \cup Viewers \cup Workflows \cup {NoTask},
           NEW token \in Nat
    PROVE  NewLease(owner, by, token) \in LeaseRows
BY DEF LeaseRows, NewLease

\* The three records the claim() transaction is ever described by.
LEMMA NoClaimFacts ==
    /\ NoClaim \in ClaimStates
    /\ [phase |-> "CHECKED", row |-> NoTask, skip |-> {}] \in ClaimStates
BY DEF ClaimStates, NoClaim

\* Ending bindings of an account fails queued tasks only, none of which a
\* claim() under way has locked.
LEMMA StaleWorkFacts ==
    ASSUME NEW acct, NEW d \in Devices, UnbindAccount(acct, d) \/ RevokeAccount(acct)
    PROVE  \E work \in SUBSET Tasks :
            /\ BlockStaleWork(work)
            /\ \A t \in work : status[t] = "QUEUED" => claim[DeviceOf[t]].phase # "SELECTED"
<1>1. CASE UnbindAccount(acct, d)
  <2>1. AccountWork(acct, d) \in SUBSET Tasks
    BY DEF AccountWork, TasksOn
  <2>2. \A t \in AccountWork(acct, d) : claim[DeviceOf[t]].phase # "SELECTED"
    BY <1>1 DEF UnbindAccount, AccountWork, TasksOn, DeviceFree
  <2> QED BY <1>1, <2>1, <2>2 DEF UnbindAccount
<1>2. CASE RevokeAccount(acct)
  <2> DEFINE work == UNION {AccountWork(acct, e) : e \in Devices}
  <2>1. work \in SUBSET Tasks
    BY DEF AccountWork, TasksOn
  <2>2. \A t \in work : status[t] = "QUEUED" => claim[DeviceOf[t]].phase # "SELECTED"
    BY <1>2 DEF RevokeAccount, RowFree
  <2> QED BY <1>2, <2>1, <2>2 DEF RevokeAccount
<1> QED BY <1>1, <1>2

\* Every value written by an action is in its domain.
LEMMA TypeStep == TypeOK /\ [Next]_vars => TypeOK'
<1> SUFFICES ASSUME TypeOK, [Next]_vars PROVE TypeOK'
    OBVIOUS
<1> USE ConstantsAssumption, LeaseRowFacts, NewLeaseFacts, NoClaimFacts DEF TypeOK,
   RunnerStates, BUSINESS_STATES,
        TERMINAL_BUSINESS, ErrorCodes, LedgerStates, OpenRows, ResolvedRows, rowVars, ledgerVars,
        deviceVars
<1>1. ASSUME NEW d \in Devices, ClaimStep(d) PROVE TypeOK'
  <2>1. CASE ClaimCheck(d)
    BY <2>1 DEF ClaimCheck
  <2>2. CASE \E row \in TasksOn(d), skip \in SUBSET TasksOn(d) : ClaimSelect(d, row, skip)
    BY <2>2 DEF ClaimSelect, TasksOn, ClaimStates
  <2>3. CASE \E skip \in SUBSET TasksOn(d) : ClaimNothing(d, skip)
    BY <2>3 DEF ClaimNothing, ScannedStatus, ScannedBiz, ScannedError
  <2>4. CASE ClaimCommit(d)
    <3> DEFINE row == claim[d].row
               token == fence[d] + 1
    <3>1. row \in Tasks \cup {NoTask}
      BY DEF ClaimStates
    <3>2. NewLease("AUTO", row, token) \in LeaseRows
      BY <3>1, token \in Nat, NewLeaseFacts
    <3>3. status' \in [Tasks -> RunnerStates] /\ biz' \in [Tasks -> BUSINESS_STATES]
      BY <2>4 DEF ClaimCommit, ScannedStatus, ScannedBiz
    <3>4. fence' \in [Devices -> Nat] /\ dl' \in [Devices -> LeaseRows]
      BY <2>4, <3>2 DEF ClaimCommit
    <3>5. lease' \in [Tasks -> Nat] /\ live' \in [Tasks -> BOOLEAN] /\ error' \in [Tasks -> ErrorCodes]
      BY <2>4 DEF ClaimCommit, ScannedError
    <3> QED BY <2>4, <3>3, <3>4, <3>5 DEF ClaimCommit
  <2>5. CASE ClaimAbort(d)
    BY <2>5 DEF ClaimAbort
  <2> QED BY <1>1, <2>1, <2>2, <2>3, <2>4, <2>5 DEF ClaimStep
<1>2. ASSUME NEW t \in Tasks, RunnerStep(t) PROVE TypeOK'
  <2>1. CASE Release(t)
    BY <2>1 DEF Release
  <2>2. CASE Heartbeat(t)
    BY <2>2 DEF Heartbeat, HeartbeatState
  <2>3. CASE \E type \in EventTypes : Event(t, type)
    BY <2>3 DEF Event, EventTypes
  <2>4. CASE \E code \in FinishCodes \cup {"NONE"} : \E outcome \in {"SUCCEEDED", "FAILED"} :
                Finish(t, outcome, code)
    BY <2>4 DEF Finish, RunnerToBusiness
  <2>5. CASE AckCancelApplied(t)
    BY <2>5 DEF AckCancelApplied, SettleCancelled, SettledCancel
  <2>6. CASE AckCancelDeferred(t)
    BY <2>6 DEF AckCancelDeferred, SetBiz
  <2>7. CASE \E a \in Actions : Intent(t, a)
    BY <2>7 DEF Intent
  <2>8. CASE \E a \in Actions, reported \in {"APPLIED", "UNKNOWN"} : Outcome(t, a, reported)
    BY <2>8 DEF Outcome
  <2> QED BY <1>2, <2>1, <2>2, <2>3, <2>4, <2>5, <2>6, <2>7, <2>8 DEF RunnerStep
<1>3. ASSUME NEW t \in Tasks, OperatorStep(t) PROVE TypeOK'
  <2>1. CASE Create(t)
    BY <2>1 DEF Create, Insert
  <2>2. CASE \E source \in Tasks : Retry(source, t)
    BY <2>2 DEF Retry, Insert
  <2>3. CASE CancelNow(t)
    BY <2>3 DEF CancelNow, SettleCancelled, SettledCancel
  <2>4. CASE CancelRequest(t) \/ Pause(t) \/ AckPaused(t) \/ MarkUnknown(t)
    BY <2>4 DEF CancelRequest, Pause, AckPaused, MarkUnknown, SetBiz
  <2>5. CASE Resume(t)
    BY <2>5 DEF Resume
  <2>6. CASE ReconcileApplied(t) \/ ReconcileNotSubmitted(t)
    <3>1. PICK outcome \in {"SUCCEEDED", "FAILED"}, code \in ErrorCodes, res \in ResolvedRows :
                Settle(t, outcome, code, res)
      BY <2>6 DEF ReconcileApplied, ReconcileNotSubmitted
    <3>2. ledger' \in [Tasks -> [Actions -> LedgerStates]]
      BY <3>1 DEF Settle
    <3> QED BY <3>1, <3>2 DEF Settle
  <2>7. CASE ExpireTaskLease(t)
    BY <2>7 DEF ExpireTaskLease
  <2>8. CASE \E decision \in {"SUCCEEDED", "FAILED"} : ConfirmTarget(t, decision)
    BY <2>8 DEF ConfirmTarget
  <2>9. CASE StampBusinessFields(t)
    BY <2>9 DEF StampBusinessFields
  <2> QED BY <1>3, <2>1, <2>2, <2>3, <2>4, <2>5, <2>6, <2>7, <2>8, <2>9 DEF OperatorStep
<1>4. ASSUME NEW d \in Devices, DeviceStep(d) PROVE TypeOK'
  <2>1. CASE Enroll(d)
    BY <2>1 DEF Enroll
  <2>2. CASE RegisterSession(d)
    BY <2>2 DEF RegisterSession
  <2>3. CASE \E t \in TasksOn(d) : UnbindAccount(AccountOf[t], d) \/ RevokeAccount(AccountOf[t])
    <3>1. PICK work \in SUBSET Tasks : BlockStaleWork(work)
      BY <2>3, StaleWorkFacts
    <3> QED BY <3>1 DEF BlockStaleWork
  <2>4. CASE \E w \in Workflows : AcquireLease(w, d)
    <3>1. PICK w \in Workflows : AcquireLease(w, d)
      BY <2>4
    <3>2. NewLease("AUTO", w, fence[d] + 1) \in LeaseRows
      BY NewLeaseFacts
    <3> QED BY <3>1, <3>2 DEF AcquireLease
  <2>5. CASE ReleaseLease(d) \/ ExpireDeviceLease(d)
    <3>1. Ended(dl[d]) \in LeaseRows
      BY LeaseRowFacts
    <3>2. /\ dl' = [dl EXCEPT ![d] = Ended(dl[d])]
          /\ UNCHANGED <<rowVars, stamp, retryOf, created, changed, ledgerVars, fence, session, claim,
                         viewer>>
      BY <2>5 DEF ReleaseLease, ExpireDeviceLease
    <3> QED BY <3>1, <3>2
  <2> QED BY <1>4, <2>1, <2>2, <2>3, <2>4, <2>5 DEF DeviceStep
<1>5. ASSUME NEW s \in Viewers, LiveStep(s) PROVE TypeOK'
  <2>1. CASE LiveEstablish(s)
    <3>1. NewLease("LIVE", s, fence[ViewerDevice[s]] + 1) \in LeaseRows
      BY NewLeaseFacts
    <3> QED BY <2>1, <3>1 DEF LiveEstablish
  <2>2. CASE LiveTakeControl(s)
    <3>1. NewLease("REMOTE", s, fence[ViewerDevice[s]] + 1) \in LeaseRows
      BY NewLeaseFacts
    <3>2. biz' \in [Tasks -> BUSINESS_STATES]
      BY <2>2 DEF LiveTakeControl, Takeover, TakeoverState
    <3>3. fence' \in [Devices -> Nat] /\ dl' \in [Devices -> LeaseRows]
      BY <2>2, <3>1 DEF LiveTakeControl, Takeover, TakeoverState
    <3> QED BY <2>2, <3>2, <3>3 DEF LiveTakeControl, Takeover, TakeoverState
  <2>3. CASE LiveRelease(s) \/ LiveClose(s)
    BY <2>3 DEF LiveRelease, LiveClose
  <2>4. CASE LiveWrite(s) \/ LiveWriteLost(s)
    <3>1. viewer' \in [Viewers -> {"NONE", "VIEWING", "REMOTE", "RELEASING", "CLOSING", "CLOSED"}]
      BY <2>4 DEF LiveWrite, LiveWriteLost, Left
    <3>2. Written(viewer[s], dl[ViewerDevice[s]]) \in LeaseRows
      BY LeaseRowFacts
    <3>3. dl' \in [Devices -> LeaseRows]
      BY <2>4, <3>2 DEF LiveWrite, LiveWriteLost
    <3> QED BY <2>4, <3>1, <3>3 DEF LiveWrite, LiveWriteLost
  <2> QED BY <1>5, <2>1, <2>2, <2>3, <2>4 DEF LiveStep
<1>5a. ASSUME NEW s \in LegacyViewers, LegacyStep(s) PROVE TypeOK'
  <2>1. viewer' \in [Viewers -> {"NONE", "VIEWING", "REMOTE", "RELEASING", "CLOSING", "CLOSED"}]
    BY <1>5a DEF LegacyStep, LegacyOpen, LegacyTakeControl, LegacyLeave
  <2>2. biz' \in [Tasks -> BUSINESS_STATES]
    BY <1>5a DEF LegacyStep, LegacyOpen, LegacyTakeControl, LegacyLeave, Takeover, TakeoverState
  <2> QED BY <1>5a, <2>1, <2>2 DEF LegacyStep, LegacyOpen, LegacyTakeControl, LegacyLeave
<1>6. CASE UNCHANGED vars
  BY <1>6 DEF vars
<1> QED BY <1>1, <1>2, <1>3, <1>4, <1>5, <1>5a, <1>6 DEF Next

\* Spec keeps the types of every column (TypeOK).
THEOREM TypeCorrect == Spec => []TypeOK
<1>1. Init => TypeOK
  BY ConstantsAssumption DEF Init, TypeOK, LeaseRows, ClaimStates, RunnerStates, BUSINESS_STATES,
     ErrorCodes, LedgerStates, NoLease, NoClaim
<1> QED BY <1>1, TypeStep, PTL DEF Spec

-----------------------------------------------------------------------------
(***************************************************************************)
(* The inductive invariant.  OpenCommitParked alone is not inductive: that *)
(* claim() never requeues a task with an open row needs the device lock    *)
(* (LockInv), that it never dispatches one needs what the scan has chosen  *)
(* (SelectInv), and that a resolved row never opens again needs the state  *)
(* reconcile() left the task in (CommitInv, second part).  All of it is    *)
(* about tasks create() has not overwritten; AbsentInv says that a task    *)
(* once overwritten never counts as one of them again.                     *)
(***************************************************************************)
ParkedOK(t) == biz[t] = "RECONCILING" /\ status[t] = "RUNNING"
ConfirmedOK(t) == t \in QueueTasks /\ status[t] \in {"SUCCEEDED", "FAILED"} /\ biz[t] = status[t]
CommitOK(t) ==
    /\ HasOpenRow(t) => ParkedOK(t) \/ ConfirmedOK(t)
    /\ HasRow(t) /\ ~HasOpenRow(t) =>
        \/ status[t] = "SUCCEEDED" /\ biz[t] = "SUCCEEDED"
        \/ status[t] = "FAILED" /\ biz[t] = "FAILED" /\ error[t] = "OTHER"
CommitInv == \A t \in InOrder : CommitOK(t)

\* Inside claim() every task of the device with an open row is settled.
LockOK(d) == claim[d].phase # "IDLE" =>
    \A t \in TasksOn(d) \cap InOrder : HasOpenRow(t) => status[t] \in {"SUCCEEDED", "FAILED"}
LockInv == \A d \in Devices : LockOK(d)

\* The chosen row is a queued or an expired one that was never authorized.
SelectOK(d) == claim[d].phase = "SELECTED" =>
    /\ claim[d].row \in TasksOn(d)
    /\ ~HasRow(claim[d].row)
    /\ status[claim[d].row] = "QUEUED" \/ IsOldestActive(claim[d].row)
    /\ \A t \in TasksOn(d) : IsOldestActive(t) => ~live[t]
SelectInv == \A d \in Devices : SelectOK(d)

SettledOK(t) == Exists(t) =>
    /\ status[t] \in {"SUCCEEDED", "FAILED"} <=> biz[t] \in TERMINAL_BUSINESS
    /\ status[t] = "SUCCEEDED" <=> biz[t] = "SUCCEEDED"

AbsentInv == \A t \in Tasks : created[t] = "LATE" => Exists(t)

IInv == TypeOK /\ CommitInv /\ LockInv /\ SelectInv /\ SettledAgreement /\ AbsentInv

\* A task is never deleted.
LEMMA ExistsStep ==
    ASSUME TypeOK, SelectInv, [Next]_vars, NEW u \in Tasks, Exists(u) PROVE Exists(u)'
<1> USE DEF Exists, TypeOK, rowVars
<1>1. ASSUME NEW d \in Devices, ClaimStep(d) PROVE Exists(u)'
  <2>1. CASE ClaimCommit(d)
    BY <2>1 DEF ClaimCommit, ScannedStatus
  <2> QED BY <1>1, <2>1 DEF ClaimStep, ClaimCheck, ClaimAbort, ClaimSelect, ClaimNothing,
     ScannedStatus
<1>2. ASSUME NEW t \in Tasks, RunnerStep(t) PROVE Exists(u)'
  BY <1>2 DEF RunnerStep, Release, Heartbeat, Event, Finish, AckCancelApplied, SettleCancelled,
     AckCancelDeferred, SetBiz, Intent, Outcome
<1>3. ASSUME NEW t \in Tasks, OperatorStep(t) PROVE Exists(u)'
  BY <1>3 DEF OperatorStep, Create, Retry, Insert, StampBusinessFields, CancelNow, SettleCancelled,
     CancelRequest, Pause, AckPaused, MarkUnknown, SetBiz, Resume, ExpireTaskLease, ConfirmTarget,
     ReconcileApplied, ReconcileNotSubmitted, Settle
<1>4. ASSUME NEW d \in Devices, DeviceStep(d) PROVE Exists(u)'
  BY <1>4 DEF DeviceStep, Enroll, RegisterSession, UnbindAccount, RevokeAccount, BlockStaleWork,
     AcquireLease, ReleaseLease, ExpireDeviceLease
<1>5. ASSUME NEW s \in Viewers, LiveStep(s) PROVE Exists(u)'
  BY <1>5 DEF LiveStep, LiveEstablish, LiveTakeControl, LiveRelease, LiveClose, LiveWrite,
     LiveWriteLost
<1>6. ASSUME NEW s \in LegacyViewers, LegacyStep(s) PROVE Exists(u)'
  BY <1>6 DEF LegacyStep, LegacyOpen, LegacyTakeControl, LegacyLeave
<1>7. CASE UNCHANGED vars
  BY <1>7 DEF vars
<1> QED BY <1>1, <1>2, <1>3, <1>4, <1>5, <1>6, <1>7 DEF Next

\* Only create() touches its own progress: the insert of a new row, and the
\* stamp, which is late when it changes the business state.
LEMMA CreatedStep ==
    ASSUME TypeOK, [Next]_vars, NEW u \in Tasks
    PROVE  \/ created'[u] = created[u]
           \/ ~Exists(u) /\ Exists(u)' /\ created'[u] # "LATE"
           \/ /\ StampBusinessFields(u)
              /\ created'[u] = IF biz[u] = "QUEUED" THEN "DONE" ELSE "LATE"
<1> DEFINE Goal == \/ created'[u] = created[u]
                   \/ ~Exists(u) /\ Exists(u)' /\ created'[u] # "LATE"
                   \/ /\ StampBusinessFields(u)
                      /\ created'[u] = IF biz[u] = "QUEUED" THEN "DONE" ELSE "LATE"
<1> USE DEF Exists, TypeOK, rowVars
<1>1. ASSUME NEW d \in Devices, ClaimStep(d) \/ DeviceStep(d) PROVE created' = created
  BY <1>1 DEF ClaimStep, ClaimCheck, ClaimAbort, ClaimSelect, ClaimNothing, ClaimCommit,
     DeviceStep, Enroll, RegisterSession, UnbindAccount, RevokeAccount, BlockStaleWork,
     AcquireLease, ReleaseLease, ExpireDeviceLease
<1>2. ASSUME NEW t \in Tasks, RunnerStep(t) PROVE created' = created
  BY <1>2 DEF RunnerStep, Release, Heartbeat, Event, Finish, AckCancelApplied, SettleCancelled,
     AckCancelDeferred, SetBiz, Intent, Outcome
<1>3. ASSUME NEW t \in Tasks, OperatorStep(t) PROVE Goal
  <2>1. CASE Create(t) \/ \E source \in Tasks : Retry(source, t)
    BY <2>1 DEF Create, Retry, Insert, NextNew
  <2>2. CASE StampBusinessFields(t)
    BY <2>2 DEF StampBusinessFields
  <2>3. CASE created' = created
    BY <2>3
  <2> QED BY <1>3, <2>1, <2>2, <2>3 DEF OperatorStep, CancelNow, SettleCancelled, CancelRequest,
     Pause, AckPaused, MarkUnknown, SetBiz, Resume, ExpireTaskLease, ConfirmTarget,
     ReconcileApplied, ReconcileNotSubmitted, Settle
<1>4. ASSUME NEW s \in Viewers, LiveStep(s) PROVE created' = created
  BY <1>4 DEF LiveStep, LiveEstablish, LiveTakeControl, LiveRelease, LiveClose, LiveWrite,
     LiveWriteLost
<1>5. ASSUME NEW s \in LegacyViewers, LegacyStep(s) PROVE created' = created
  BY <1>5 DEF LegacyStep, LegacyOpen, LegacyTakeControl, LegacyLeave
<1>6. CASE UNCHANGED vars
  BY <1>6 DEF vars
<1> QED BY <1>1, <1>2, <1>3, <1>4, <1>5, <1>6 DEF Next

\* What is in order after a step was in order before it, and a stamp in order
\* changes no business state.
LEMMA InOrderStep ==
    ASSUME IInv, [Next]_vars, NEW u \in Tasks, created'[u] # "LATE"
    PROVE  /\ u \in InOrder
           /\ \A t \in Tasks : StampBusinessFields(t) => biz'[u] = biz[u]
<1>1. created[u] # "LATE"
  BY CreatedStep DEF IInv, AbsentInv, StampBusinessFields
<1>2. ASSUME NEW t \in Tasks, StampBusinessFields(t) PROVE biz'[u] = biz[u]
  BY <1>2 DEF StampBusinessFields, IInv, TypeOK
<1> QED BY <1>1, <1>2 DEF InOrder

\* An overwritten task exists, and stays.
LEMMA AbsentStep == IInv /\ [Next]_vars => AbsentInv'
<1> SUFFICES ASSUME IInv, [Next]_vars, NEW u \in Tasks, created'[u] = "LATE" PROVE Exists(u)'
    BY DEF AbsentInv
<1>1. TypeOK /\ SelectInv /\ (created[u] = "LATE" => Exists(u))
  BY DEF IInv, AbsentInv
<1>2. CASE Exists(u)
  BY <1>1, <1>2, ExistsStep
<1>3. CASE ~Exists(u)
  BY <1>1, <1>3, CreatedStep DEF StampBusinessFields, RowFree
<1> QED BY <1>2, <1>3

\* The runner and the business state stay in agreement across every handler.
LEMMA SettledStep == IInv /\ [Next]_vars => SettledAgreement'
<1> SUFFICES ASSUME IInv, [Next]_vars, NEW u \in Tasks, created'[u] # "LATE"
             PROVE  SettledOK(u)'
    BY DEF SettledAgreement, SettledOK, InOrder
<1>0. /\ TypeOK /\ SettledOK(u) /\ CommitOK(u) /\ SelectInv
      /\ \A t \in Tasks : StampBusinessFields(t) => biz'[u] = biz[u]
  BY InOrderStep DEF IInv, SettledAgreement, SettledOK, CommitInv
<1> USE <1>0 DEF SettledOK, Exists, TypeOK, RunnerStates, BUSINESS_STATES, TERMINAL_BUSINESS,
        rowVars, ledgerVars, deviceVars
<1>1. ASSUME NEW d \in Devices, ClaimStep(d) PROVE SettledOK(u)'
  <2>1. CASE ClaimCheck(d) \/ ClaimAbort(d)
          \/ \E row \in TasksOn(d), skip \in SUBSET TasksOn(d) : ClaimSelect(d, row, skip)
    BY <2>1 DEF ClaimCheck, ClaimAbort, ClaimSelect
  <2>2. CASE \E skip \in SUBSET TasksOn(d) : ClaimNothing(d, skip)
    BY <2>2 DEF ClaimNothing, ScannedStatus, ScannedBiz, Dropped, Parked, Candidates, Queue,
       IsOldestActive, ACTIVE_STATES
  <2>3. CASE ClaimCommit(d)
    BY <2>3 DEF ClaimCommit, ScannedStatus, ScannedBiz, Dropped, Parked, Candidates, Queue,
       IsOldestActive, ACTIVE_STATES
  <2> QED BY <1>1, <2>1, <2>2, <2>3 DEF ClaimStep
<1>2. ASSUME NEW t \in Tasks, RunnerStep(t) PROVE SettledOK(u)'
  <2>1. CASE Release(t)
    BY <2>1 DEF Release
  <2>2. CASE Heartbeat(t)
    BY <2>2 DEF Heartbeat, HeartbeatState, ActiveLease, ACTIVE_STATES
  <2>3. CASE \E type \in EventTypes : Event(t, type)
    BY <2>3 DEF Event, EventTypes, ActiveLease, ACTIVE_STATES
  <2>4. CASE \E code \in FinishCodes \cup {"NONE"} : \E outcome \in {"SUCCEEDED", "FAILED"} :
                Finish(t, outcome, code)
    BY <2>4 DEF Finish, RunnerToBusiness
  <2>5. CASE AckCancelApplied(t)
    BY <2>5 DEF AckCancelApplied, SettleCancelled, SettledCancel
  <2>6. CASE AckCancelDeferred(t)
    BY <2>6 DEF AckCancelDeferred, SetBiz
  <2>7. CASE \E a \in Actions : Intent(t, a)
    BY <2>7 DEF Intent, IntentState
  <2>8. CASE \E a \in Actions, reported \in {"APPLIED", "UNKNOWN"} : Outcome(t, a, reported)
    BY <2>8 DEF Outcome
  <2> QED BY <1>2, <2>1, <2>2, <2>3, <2>4, <2>5, <2>6, <2>7, <2>8 DEF RunnerStep
<1>3. ASSUME NEW t \in Tasks, OperatorStep(t) PROVE SettledOK(u)'
  <2>1. CASE Create(t) \/ \E source \in Tasks : Retry(source, t)
    BY <2>1 DEF Create, Retry, Insert
  <2>2. CASE CancelNow(t)
    BY <2>2 DEF CancelNow, SettleCancelled, SettledCancel
  <2>3. CASE CancelRequest(t) \/ Pause(t) \/ AckPaused(t) \/ MarkUnknown(t)
    BY <2>3 DEF CancelRequest, Pause, AckPaused, MarkUnknown, SetBiz, Undecided, RowFree,
       CancelDeferredStates, PauseStates, AckPausedStates
  <2>4. CASE Resume(t)
    BY <2>4 DEF Resume
  <2>5. CASE ReconcileApplied(t) \/ ReconcileNotSubmitted(t)
    BY <2>5 DEF ReconcileApplied, ReconcileNotSubmitted, Settle
  <2>6. CASE ExpireTaskLease(t)
    BY <2>6 DEF ExpireTaskLease
  <2>7. CASE \E decision \in {"SUCCEEDED", "FAILED"} : ConfirmTarget(t, decision)
    BY <2>7 DEF ConfirmTarget, Unsettled
  <2>8. CASE StampBusinessFields(t)
    BY <2>8, <1>0 DEF StampBusinessFields
  <2> QED BY <1>3, <2>1, <2>2, <2>3, <2>4, <2>5, <2>6, <2>7, <2>8 DEF OperatorStep
<1>4. ASSUME NEW d \in Devices, DeviceStep(d) PROVE SettledOK(u)'
  BY <1>4 DEF DeviceStep, Enroll, RegisterSession, UnbindAccount, RevokeAccount, BlockStaleWork,
     AcquireLease, ReleaseLease, ExpireDeviceLease
<1>5. ASSUME NEW s \in Viewers, LiveStep(s) PROVE SettledOK(u)'
  BY <1>5 DEF LiveStep, LiveEstablish, LiveTakeControl, Takeover, TakeoverState,
     LiveRelease, LiveClose, LiveWrite, LiveWriteLost
<1>5a. ASSUME NEW s \in LegacyViewers, LegacyStep(s) PROVE SettledOK(u)'
  BY <1>5a DEF LegacyStep, LegacyOpen, LegacyTakeControl, LegacyLeave, Takeover, TakeoverState
<1>6. CASE UNCHANGED vars
  BY <1>6 DEF vars
<1> QED BY <1>1, <1>2, <1>3, <1>4, <1>5, <1>5a, <1>6 DEF Next

\* An open row keeps its task parked, and a resolved one keeps it settled.
LEMMA CommitStep == IInv /\ [Next]_vars => CommitInv'
<1> SUFFICES ASSUME IInv, [Next]_vars, NEW u \in Tasks, created'[u] # "LATE"
             PROVE  CommitOK(u)'
    BY DEF CommitInv, InOrder
<1>0. /\ TypeOK /\ u \in InOrder /\ SettledOK(u) /\ CommitOK(u) /\ LockInv /\ SelectInv
      /\ \A t \in Tasks : StampBusinessFields(t) => biz'[u] = biz[u]
  BY InOrderStep DEF IInv, SettledAgreement, SettledOK, CommitInv
<1> USE <1>0 DEF CommitOK, ParkedOK, ConfirmedOK, HasRow, HasOpenRow, Exists, TypeOK,
   RunnerStates, BUSINESS_STATES,
        TERMINAL_BUSINESS, LedgerStates, OpenRows, ResolvedRows, rowVars, ledgerVars, deviceVars
<1>1. ASSUME NEW d \in Devices, ClaimStep(d) PROVE CommitOK(u)'
  <2>1. CASE ClaimCheck(d) \/ ClaimAbort(d)
          \/ \E row \in TasksOn(d), skip \in SUBSET TasksOn(d) : ClaimSelect(d, row, skip)
    BY <2>1 DEF ClaimCheck, ClaimAbort, ClaimSelect
  <2>2. CASE \E skip \in SUBSET TasksOn(d) : ClaimNothing(d, skip)
    <3>1. u \in TasksOn(d) /\ HasOpenRow(u) => status[u] \in {"SUCCEEDED", "FAILED"}
      BY <2>2 DEF ClaimNothing, ScanGuard, LockInv, LockOK
    <3> QED BY <2>2, <3>1 DEF ClaimNothing, ScannedStatus, ScannedBiz, ScannedError, Dropped,
       Parked, Candidates, Queue, IsOldestActive, ACTIVE_STATES
  <2>3. CASE ClaimCommit(d)
    <3>1. u \in TasksOn(d) /\ HasOpenRow(u) => status[u] \in {"SUCCEEDED", "FAILED"}
      BY <2>3 DEF ClaimCommit, LockInv, LockOK
    <3>2. ~HasRow(claim[d].row)
      BY <2>3 DEF ClaimCommit, SelectInv, SelectOK
    <3> QED BY <2>3, <3>1, <3>2 DEF ClaimCommit, ScannedStatus, ScannedBiz, ScannedError, Dropped,
       Parked, Candidates, Queue, IsOldestActive, ACTIVE_STATES
  <2> QED BY <1>1, <2>1, <2>2, <2>3 DEF ClaimStep
<1>2. ASSUME NEW t \in Tasks, RunnerStep(t) PROVE CommitOK(u)'
  <2>1. CASE Release(t)
    BY <2>1 DEF Release
  <2>2. CASE Heartbeat(t)
    BY <2>2 DEF Heartbeat, HeartbeatState, ActiveLease, ACTIVE_STATES
  <2>3. CASE \E type \in EventTypes : Event(t, type)
    BY <2>3 DEF Event, EventTypes, ActiveLease, ACTIVE_STATES
  <2>4. CASE \E code \in FinishCodes \cup {"NONE"} : \E outcome \in {"SUCCEEDED", "FAILED"} :
                Finish(t, outcome, code)
    BY <2>4 DEF Finish, RunnerToBusiness, ActiveLease, ACTIVE_STATES
  <2>5. CASE AckCancelApplied(t)
    BY <2>5 DEF AckCancelApplied, SettleCancelled, SettledCancel
  <2>6. CASE AckCancelDeferred(t)
    BY <2>6 DEF AckCancelDeferred, SetBiz
  <2>7. CASE \E a \in Actions : Intent(t, a)
    BY <2>7 DEF Intent, IntentState
  <2>8. CASE \E a \in Actions, reported \in {"APPLIED", "UNKNOWN"} : Outcome(t, a, reported)
    BY <2>8 DEF Outcome, OutcomeGuard
  <2> QED BY <1>2, <2>1, <2>2, <2>3, <2>4, <2>5, <2>6, <2>7, <2>8 DEF RunnerStep
<1>3. ASSUME NEW t \in Tasks, OperatorStep(t) PROVE CommitOK(u)'
  <2>1. CASE Create(t) \/ \E source \in Tasks : Retry(source, t)
    BY <2>1 DEF Create, Retry, Insert, NextNew
  <2>2. CASE CancelNow(t)
    BY <2>2 DEF CancelNow, SettleCancelled, SettledCancel, CancelNowStates
  <2>3. CASE CancelRequest(t) \/ Pause(t) \/ AckPaused(t) \/ MarkUnknown(t)
    BY <2>3 DEF CancelRequest, Pause, AckPaused, MarkUnknown, SetBiz, Undecided, RowFree,
       CancelDeferredStates, PauseStates, AckPausedStates
  <2>4. CASE Resume(t)
    BY <2>4 DEF Resume
  <2>5. CASE ReconcileApplied(t) \/ ReconcileNotSubmitted(t)
    <3>1. CASE u # t
      BY <2>5, <3>1 DEF ReconcileApplied, ReconcileNotSubmitted, Settle
    <3>2. CASE u = t
      <4>1. /\ \/ status'[u] = "SUCCEEDED" /\ biz'[u] = "SUCCEEDED"
               \/ status'[u] = "FAILED" /\ biz'[u] = "FAILED" /\ error'[u] = "OTHER"
        BY <2>5, <3>2 DEF ReconcileApplied, ReconcileNotSubmitted, Settle
      <4>2. \A a \in Actions : ledger'[u][a] \in {"NONE"} \cup ResolvedRows
        BY <2>5, <3>2 DEF ReconcileApplied, ReconcileNotSubmitted, Settle
      <4> QED BY <4>1, <4>2
    <3> QED BY <3>1, <3>2
  <2>6. CASE ExpireTaskLease(t)
    BY <2>6 DEF ExpireTaskLease
  <2>7. CASE \E decision \in {"SUCCEEDED", "FAILED"} : ConfirmTarget(t, decision)
    BY <2>7 DEF ConfirmTarget, Unsettled
  <2>8. CASE StampBusinessFields(t)
    BY <2>8, <1>0 DEF StampBusinessFields
  <2> QED BY <1>3, <2>1, <2>2, <2>3, <2>4, <2>5, <2>6, <2>7, <2>8 DEF OperatorStep
<1>4. ASSUME NEW d \in Devices, DeviceStep(d) PROVE CommitOK(u)'
  BY <1>4 DEF DeviceStep, Enroll, RegisterSession, UnbindAccount, RevokeAccount, BlockStaleWork,
     AcquireLease, ReleaseLease, ExpireDeviceLease
<1>5. ASSUME NEW s \in Viewers, LiveStep(s) PROVE CommitOK(u)'
  BY <1>5 DEF LiveStep, LiveEstablish, LiveTakeControl, Takeover, TakeoverState,
     LiveRelease, LiveClose, LiveWrite, LiveWriteLost
<1>5a. ASSUME NEW s \in LegacyViewers, LegacyStep(s) PROVE CommitOK(u)'
  BY <1>5a DEF LegacyStep, LegacyOpen, LegacyTakeControl, LegacyLeave, Takeover, TakeoverState
<1>6. CASE UNCHANGED vars
  BY <1>6 DEF vars
<1> QED BY <1>1, <1>2, <1>3, <1>4, <1>5, <1>5a, <1>6 DEF Next

\* A settled task is left as it is by every handler.
LEMMA TerminalStep ==
    ASSUME IInv, [Next]_vars, NEW u \in Tasks, created'[u] # "LATE",
           Exists(u), biz[u] \in TERMINAL_BUSINESS
    PROVE  /\ biz'[u] = biz[u] /\ status'[u] = status[u] /\ error'[u] = error[u]
           /\ ledger'[u] = ledger[u] /\ grants'[u] = grants[u]
<1> DEFINE Same == /\ biz'[u] = biz[u] /\ status'[u] = status[u] /\ error'[u] = error[u]
                   /\ ledger'[u] = ledger[u] /\ grants'[u] = grants[u]
<1>0. /\ TypeOK /\ status[u] \in {"SUCCEEDED", "FAILED"}
      /\ \A t \in Tasks : StampBusinessFields(t) => biz'[u] = biz[u]
  BY InOrderStep DEF IInv, SettledAgreement
<1> USE <1>0 DEF TypeOK, TERMINAL_BUSINESS, ACTIVE_STATES, rowVars, ledgerVars, deviceVars
<1>1. ASSUME NEW d \in Devices, ClaimStep(d) PROVE Same
  <2>1. CASE ClaimCheck(d) \/ ClaimAbort(d)
          \/ \E row \in TasksOn(d), skip \in SUBSET TasksOn(d) : ClaimSelect(d, row, skip)
    BY <2>1 DEF ClaimCheck, ClaimAbort, ClaimSelect
  <2>2. CASE \E skip \in SUBSET TasksOn(d) : ClaimNothing(d, skip)
    BY <2>2 DEF ClaimNothing, ScannedStatus, ScannedBiz, ScannedError, Dropped, Parked,
       Candidates, Queue, IsOldestActive
  <2>3. CASE ClaimCommit(d)
    <3>1. u # claim[d].row
      BY <2>3 DEF ClaimCommit, IInv, SelectInv, SelectOK, IsOldestActive
    <3> QED BY <2>3, <3>1 DEF ClaimCommit, ScannedStatus, ScannedBiz, ScannedError, Dropped, Parked,
       Candidates, Queue, IsOldestActive
  <2> QED BY <1>1, <2>1, <2>2, <2>3 DEF ClaimStep
<1>2. ASSUME NEW t \in Tasks, RunnerStep(t) PROVE Same
  <2>1. CASE \E a \in Actions : Intent(t, a)
    BY <2>1 DEF Intent, IntentState
  <2>2. CASE \E a \in Actions, reported \in {"APPLIED", "UNKNOWN"} : Outcome(t, a, reported)
    BY <2>2 DEF Outcome, OutcomeGuard
  <2>3. CASE Release(t) \/ Heartbeat(t) \/ (\E type \in EventTypes : Event(t, type))
             \/ AckCancelApplied(t) \/ AckCancelDeferred(t)
    BY <2>3 DEF Release, Heartbeat, Event, ActiveLease, AckCancelApplied, SettleCancelled,
       AckCancelDeferred, SetBiz
  <2>4. CASE \E code \in FinishCodes \cup {"NONE"} : \E outcome \in {"SUCCEEDED", "FAILED"} :
                Finish(t, outcome, code)
    BY <2>4 DEF Finish, ActiveLease
  <2> QED BY <1>2, <2>1, <2>2, <2>3, <2>4 DEF RunnerStep
<1>3. ASSUME NEW t \in Tasks, OperatorStep(t) PROVE Same
  <2>1. CASE Create(t) \/ \E source \in Tasks : Retry(source, t)
    BY <2>1 DEF Create, Retry, Insert, NextNew
  <2>2. CASE CancelNow(t) \/ CancelRequest(t) \/ Pause(t) \/ AckPaused(t) \/ MarkUnknown(t)
    BY <2>2 DEF CancelNow, SettleCancelled, CancelRequest, Pause, AckPaused, MarkUnknown, SetBiz,
       Undecided, CancelNowStates, CancelDeferredStates, PauseStates, AckPausedStates
  <2>3. CASE Resume(t) \/ ExpireTaskLease(t)
    BY <2>3 DEF Resume, ExpireTaskLease
  <2>4. CASE ReconcileApplied(t) \/ ReconcileNotSubmitted(t)
    BY <2>4 DEF ReconcileApplied, ReconcileNotSubmitted, Reconcilable, Settle
  <2>5. CASE \E decision \in {"SUCCEEDED", "FAILED"} : ConfirmTarget(t, decision)
    BY <2>5 DEF ConfirmTarget, Unsettled
  <2>6. CASE StampBusinessFields(t)
    BY <2>6, <1>0 DEF StampBusinessFields
  <2> QED BY <1>3, <2>1, <2>2, <2>3, <2>4, <2>5, <2>6 DEF OperatorStep
<1>4. ASSUME NEW d \in Devices, DeviceStep(d) PROVE Same
  BY <1>4 DEF DeviceStep, Enroll, RegisterSession, UnbindAccount, RevokeAccount, BlockStaleWork,
     AcquireLease, ReleaseLease, ExpireDeviceLease
<1>5. ASSUME NEW s \in Viewers, LiveStep(s) PROVE Same
  BY <1>5 DEF LiveStep, LiveEstablish, LiveTakeControl, Takeover, TakeoverState,
     LiveRelease, LiveClose, LiveWrite, LiveWriteLost
<1>5a. ASSUME NEW s \in LegacyViewers, LegacyStep(s) PROVE Same
  BY <1>5a DEF LegacyStep, LegacyOpen, LegacyTakeControl, LegacyLeave, Takeover, TakeoverState
<1>6. CASE UNCHANGED vars
  BY <1>6 DEF vars
<1> QED BY <1>1, <1>2, <1>3, <1>4, <1>5, <1>5a, <1>6 DEF Next

\* Only intent() opens a row.
LEMMA OpenStep ==
    ASSUME IInv, [Next]_vars, NEW u \in Tasks, ~HasOpenRow(u), HasOpenRow(u)'
    PROVE  claim[DeviceOf[u]].phase = "IDLE" /\ claim' = claim
<1> DEFINE Goal == claim[DeviceOf[u]].phase = "IDLE" /\ claim' = claim
<1>0. TypeOK /\ CommitInv
  BY DEF IInv
<1>a. ledger' # ledger
  BY DEF HasOpenRow
<1> USE <1>0 DEF HasOpenRow, TypeOK, OpenRows, rowVars, ledgerVars, deviceVars
<1>1. ASSUME NEW t \in Tasks, NEW a \in Actions, Intent(t, a) PROVE Goal
  BY <1>1 DEF Intent, ActionLease, DeviceFree
<1>2. ASSUME NEW t \in Tasks, NEW a \in Actions, NEW reported \in {"APPLIED", "UNKNOWN"},
             Outcome(t, a, reported)
      PROVE  FALSE
  BY <1>2 DEF Outcome, OutcomeGuard
<1>3. ASSUME NEW t \in Tasks, ReconcileApplied(t) \/ ReconcileNotSubmitted(t) PROVE FALSE
  <2>1. \E res \in ResolvedRows : \E outcome, code : Settle(t, outcome, code, res)
    BY <1>3 DEF ReconcileApplied, ReconcileNotSubmitted, ResolvedRows
  <2> QED BY <2>1 DEF Settle, ResolvedRows
<1>4. ASSUME NEW d \in Devices, ClaimStep(d) \/ DeviceStep(d) PROVE FALSE
  BY <1>a, <1>4 DEF ClaimStep, ClaimCheck, ClaimSelect, ClaimNothing, ClaimCommit, ClaimAbort,
     DeviceStep, Enroll, RegisterSession, UnbindAccount, RevokeAccount, BlockStaleWork,
     AcquireLease, ReleaseLease, ExpireDeviceLease
<1>5. ASSUME NEW t \in Tasks, RunnerStep(t) PROVE Goal
  BY <1>a, <1>1, <1>2, <1>5 DEF RunnerStep, Release, Heartbeat, Event, Finish, AckCancelApplied,
     SettleCancelled, AckCancelDeferred, SetBiz
<1>6. ASSUME NEW t \in Tasks, OperatorStep(t) PROVE FALSE
  BY <1>a, <1>3, <1>6 DEF OperatorStep, Create, Retry, Insert, StampBusinessFields, CancelNow,
     SettleCancelled,
     CancelRequest, Pause, AckPaused, MarkUnknown, SetBiz, Resume, ExpireTaskLease, ConfirmTarget
<1>7. ASSUME NEW s \in Viewers, LiveStep(s) PROVE FALSE
  BY <1>a, <1>7 DEF LiveStep, LiveEstablish, LiveTakeControl, LiveRelease, LiveClose, LiveWrite,
     LiveWriteLost
<1>8. ASSUME NEW s \in LegacyViewers, LegacyStep(s) PROVE FALSE
  BY <1>a, <1>8 DEF LegacyStep, LegacyOpen, LegacyTakeControl, LegacyLeave
<1>9. ~UNCHANGED vars
  BY <1>a DEF vars
<1> QED BY <1>4, <1>5, <1>6, <1>7, <1>8, <1>9 DEF Next

\* A claim() under way that was not there before starts with ClaimCheck.
LEMMA ClaimStart ==
    ASSUME IInv, [Next]_vars, NEW e \in Devices, claim[e].phase = "IDLE", claim'[e].phase # "IDLE"
    PROVE  ClaimCheck(e)
<1>0. TypeOK
  BY DEF IInv
<1>a. claim' # claim
  OBVIOUS
<1> USE <1>0 DEF TypeOK
<1>1. ASSUME NEW d \in Devices, ClaimStep(d) PROVE ClaimCheck(e)
  <2>1. CASE d = e
    BY <1>1, <2>1 DEF ClaimStep, ClaimSelect, ClaimNothing, ClaimCommit, ClaimAbort, ScanGuard,
       DeviceFree
  <2>2. CASE d # e
    BY <1>1, <2>2 DEF ClaimStep, ClaimCheck, ClaimSelect, ClaimNothing, ClaimCommit, ClaimAbort
  <2> QED BY <2>1, <2>2
<1>2. ASSUME NEW t \in Tasks, RunnerStep(t) PROVE FALSE
  BY <1>a, <1>2 DEF RunnerStep, Release, Heartbeat, Event, Finish, AckCancelApplied,
     SettleCancelled, AckCancelDeferred, SetBiz, Intent, Outcome
<1>3. ASSUME NEW t \in Tasks, OperatorStep(t) PROVE FALSE
  BY <1>a, <1>3 DEF OperatorStep, Create, Retry, Insert, StampBusinessFields, CancelNow,
     SettleCancelled, CancelRequest,
     Pause, AckPaused, MarkUnknown, SetBiz, Resume, ExpireTaskLease, ConfirmTarget,
        ReconcileApplied,
     ReconcileNotSubmitted, Settle
<1>4. ASSUME NEW d \in Devices, DeviceStep(d) PROVE FALSE
  BY <1>a, <1>4 DEF DeviceStep, Enroll, RegisterSession, UnbindAccount, RevokeAccount,
     BlockStaleWork,
     AcquireLease, ReleaseLease,
     ExpireDeviceLease
<1>5. ASSUME NEW s \in Viewers, LiveStep(s) PROVE FALSE
  BY <1>a, <1>5 DEF LiveStep, LiveEstablish, LiveTakeControl, LiveRelease, LiveClose, LiveWrite,
     LiveWriteLost
<1>6. ASSUME NEW s \in LegacyViewers, LegacyStep(s) PROVE FALSE
  BY <1>a, <1>6 DEF LegacyStep, LegacyOpen, LegacyTakeControl, LegacyLeave
<1>7. ~UNCHANGED vars
  BY <1>a DEF vars
<1> QED BY <1>1, <1>2, <1>3, <1>4, <1>5, <1>6, <1>7 DEF Next

\* claim() starts on a device without a parked task, intent() needs the device
\* lock claim() holds, and a settled task stays settled.
LEMMA LockStep == IInv /\ [Next]_vars => LockInv'
<1> SUFFICES ASSUME IInv, [Next]_vars, NEW e \in Devices, claim'[e].phase # "IDLE",
                    NEW t \in TasksOn(e), created'[t] # "LATE", HasOpenRow(t)'
             PROVE  status'[t] \in {"SUCCEEDED", "FAILED"}
    BY DEF LockInv, LockOK, TasksOn, InOrder
<1>0. /\ t \in Tasks /\ DeviceOf[t] = e /\ t \in InOrder
      /\ CommitOK(t) /\ SettledOK(t) /\ LockOK(e)
  BY InOrderStep DEF TasksOn, IInv, CommitInv, LockInv, SettledAgreement, SettledOK
<1>1. CASE claim[e].phase # "IDLE"
  <2>1. HasOpenRow(t)
    BY <1>0, <1>1, OpenStep
  <2>2. status[t] \in {"SUCCEEDED", "FAILED"}
    BY <1>0, <1>1, <2>1 DEF LockOK
  <2>3. Exists(t) /\ biz[t] \in TERMINAL_BUSINESS
    BY <1>0, <2>2 DEF SettledOK, Exists
  <2> QED BY <1>0, <2>2, <2>3, TerminalStep
<1>2. CASE claim[e].phase = "IDLE"
  <2>1. ClaimCheck(e)
    BY <1>2, ClaimStart
  <2>2. HasOpenRow(t) /\ status' = status
    BY <2>1 DEF ClaimCheck, HasOpenRow, ledgerVars, rowVars
  <2>3. ~ParkedOK(t)
    BY <1>0, <2>1 DEF ClaimCheck, ParkedOK, Exists, BLOCKING_BUSINESS_STATES
  <2> QED BY <1>0, <2>2, <2>3 DEF CommitOK, ConfirmedOK
<1> QED BY <1>1, <1>2

\* A step that leaves the device's claim, statuses and ledger alone, and
\* revives no lease, leaves what the scan has chosen alone.
LEMMA SelectFrame ==
    ASSUME NEW e \in Devices, SelectOK(e), claim'[e] = claim[e],
           \A t \in TasksOn(e) : /\ status'[t] = status[t]
                                 /\ ledger'[t] = ledger[t]
                                 /\ live'[t] => live[t]
    PROVE  SelectOK(e)'
BY ConstantsAssumption DEF SelectOK, TasksOn, HasRow, IsOldestActive, ActiveTasks

\* Between the scan and its commit the chosen row stays choosable.
LEMMA SelectStep == IInv /\ [Next]_vars => SelectInv'
<1> SUFFICES ASSUME IInv, [Next]_vars, NEW e \in Devices PROVE SelectOK(e)'
    BY DEF SelectInv
<1>0. TypeOK /\ SelectOK(e)
  BY DEF IInv, SelectInv
<1> USE <1>0, ConstantsAssumption DEF TypeOK, TasksOn, rowVars, ledgerVars, deviceVars
<1>1. ASSUME NEW d \in Devices, ClaimStep(d) PROVE SelectOK(e)'
  <2>1. CASE ClaimCheck(d)
    <3>1. CASE e = d
      BY <2>1, <3>1 DEF ClaimCheck, SelectOK
    <3>2. CASE e # d
      BY <2>1, <3>2, SelectFrame DEF ClaimCheck
    <3> QED BY <3>1, <3>2
  <2>2. CASE \E row \in TasksOn(d), skip \in SUBSET TasksOn(d) : ClaimSelect(d, row, skip)
    <3>1. CASE e # d
      BY <2>2, <3>1, SelectFrame DEF ClaimSelect
    <3>2. CASE e = d
      BY <2>2, <3>2 DEF ClaimSelect, SelectOK, ScanGuard, IsOldest, Claimable, Candidates, Queue,
         HasRow, IsOldestActive, ActiveTasks
    <3> QED BY <3>1, <3>2
  <2>3. CASE (\E skip \in SUBSET TasksOn(d) : ClaimNothing(d, skip)) \/ ClaimCommit(d)
    <3>1. CASE e = d
      BY <2>3, <3>1 DEF ClaimNothing, ClaimCommit, NoClaim, SelectOK
    <3>2. CASE e # d
      <4>1. ASSUME NEW t \in TasksOn(e), ClaimCommit(d)
            PROVE status'[t] = status[t] /\ live'[t] = live[t]
        <5>1. claim[d].row \in TasksOn(d)
          BY <4>1 DEF ClaimCommit, IInv, SelectInv, SelectOK
        <5> QED BY <3>2, <4>1, <5>1 DEF ClaimCommit, ScannedStatus, Dropped, Unleased, Candidates,
               Queue
      <4>2. ASSUME NEW t \in TasksOn(e), NEW skip, ClaimNothing(d, skip)
            PROVE status'[t] = status[t] /\ live'[t] = live[t]
        BY <3>2, <4>2 DEF ClaimNothing, ScannedStatus, Dropped, Unleased, Candidates, Queue
      <4>3. claim'[e] = claim[e] /\ ledger' = ledger
        BY <2>3, <3>2 DEF ClaimNothing, ClaimCommit
      <4> QED BY <2>3, <4>1, <4>2, <4>3, SelectFrame
    <3> QED BY <3>1, <3>2
  <2>4. CASE ClaimAbort(d)
    <3>1. CASE e = d
      BY <2>4, <3>1 DEF ClaimAbort, NoClaim, SelectOK
    <3>2. CASE e # d
      BY <2>4, <3>2, SelectFrame DEF ClaimAbort
    <3> QED BY <3>1, <3>2
  <2> QED BY <1>1, <2>1, <2>2, <2>3, <2>4 DEF ClaimStep
<1>2. ASSUME NEW t \in Tasks, RunnerStep(t) PROVE SelectOK(e)'
  <2> DEFINE Elsewhere == /\ claim' = claim /\ claim[DeviceOf[t]].phase # "SELECTED"
                          /\ \A u \in Tasks \ {t} : /\ status'[u] = status[u]
                                                    /\ ledger'[u] = ledger[u]
                                                    /\ live'[u] = live[u]
  <2>1. CASE (\E type \in EventTypes : Event(t, type)) \/ AckCancelDeferred(t)
    BY <2>1, SelectFrame DEF Event, AckCancelDeferred, SetBiz
  <2>2. CASE Elsewhere
    <3>1. CASE DeviceOf[t] = e
      BY <2>2, <3>1 DEF SelectOK
    <3>2. CASE DeviceOf[t] # e
      BY <2>2, <3>2, SelectFrame
    <3> QED BY <3>1, <3>2
  <2>3. Release(t) => Elsewhere
    BY DEF Release, DeviceFree
  <2>4. Heartbeat(t) => Elsewhere
    BY DEF Heartbeat, LeaseRowFree
  <2>5. ASSUME NEW code, NEW outcome, Finish(t, outcome, code) PROVE Elsewhere
    BY <2>5 DEF Finish, LeaseRowFree
  <2>6. AckCancelApplied(t) => Elsewhere
    BY DEF AckCancelApplied, SettleCancelled, LeaseRowFree
  <2>7. ASSUME NEW a \in Actions, Intent(t, a) PROVE Elsewhere
    BY <2>7 DEF Intent, ActionLease, DeviceFree
  <2>8. ASSUME NEW a \in Actions, NEW reported, Outcome(t, a, reported) PROVE Elsewhere
    BY <2>8 DEF Outcome, ActionLease, DeviceFree
  <2> QED BY <1>2, <2>1, <2>2, <2>3, <2>4, <2>5, <2>6, <2>7, <2>8 DEF RunnerStep
<1>3. ASSUME NEW t \in Tasks, OperatorStep(t) PROVE SelectOK(e)'
  <2> DEFINE Elsewhere == /\ claim' = claim /\ claim[DeviceOf[t]].phase # "SELECTED"
                          /\ \A u \in Tasks \ {t} : /\ status'[u] = status[u]
                                                    /\ ledger'[u] = ledger[u]
                                                    /\ live'[u] = live[u]
  <2>1. CASE Elsewhere
    <3>1. CASE DeviceOf[t] = e
      BY <2>1, <3>1 DEF SelectOK
    <3>2. CASE DeviceOf[t] # e
      BY <2>1, <3>2, SelectFrame
    <3> QED BY <3>1, <3>2
  <2>2. Create(t) \/ (\E source \in Tasks : Retry(source, t)) => Elsewhere
    BY DEF Create, Retry, Insert, DeviceFree
  <2>3. CancelNow(t) => Elsewhere
    BY DEF CancelNow, SettleCancelled, DeviceFree
  <2>4. Resume(t) => Elsewhere
    BY DEF Resume, DeviceFree
  <2>5. CASE CancelRequest(t) \/ Pause(t) \/ AckPaused(t) \/ MarkUnknown(t)
             \/ StampBusinessFields(t)
    BY <2>5, SelectFrame DEF CancelRequest, Pause, AckPaused, MarkUnknown, SetBiz,
       StampBusinessFields
  <2>6. CASE ExpireTaskLease(t)
    BY <2>6, SelectFrame DEF ExpireTaskLease
  <2>7. CASE \/ ReconcileApplied(t) \/ ReconcileNotSubmitted(t)
             \/ \E decision \in {"SUCCEEDED", "FAILED"} : ConfirmTarget(t, decision)
    <3> DEFINE Settles == /\ claim' = claim /\ live' = live
                          /\ \E outcome \in {"SUCCEEDED", "FAILED"} :
                                status' = [status EXCEPT ![t] = outcome]
                          /\ \A u \in Tasks \ {t} : ledger'[u] = ledger[u]
    <3>0. RowFree(t)
      BY <2>7 DEF ReconcileApplied, ReconcileNotSubmitted, Reconcilable, ConfirmTarget
    <3>1. Settles
      BY <2>7 DEF ReconcileApplied, ReconcileNotSubmitted, Settle, ConfirmTarget
    <3>2. CASE DeviceOf[t] # e \/ claim[e].phase # "SELECTED"
      BY <3>1, <3>2, SelectFrame, ZenonT(60) DEF SelectOK
    <3>3. CASE DeviceOf[t] = e /\ claim[e].phase = "SELECTED"
      <4>1. status[t] # "QUEUED" /\ ~IsOldestActive(t)
        BY <3>0, <3>3 DEF RowFree
      <4>2. ASSUME NEW v \in TasksOn(e), IsOldestActive(v)' PROVE IsOldestActive(v)
        <5>1. v # t /\ status[v] \in ACTIVE_STATES
          BY <3>1, <3>3, <4>2 DEF IsOldestActive, ACTIVE_STATES
        <5>2. ASSUME NEW u \in ActiveTasks(e), u # t PROVE v <= u
          BY <3>1, <3>3, <4>2, <5>2 DEF IsOldestActive, ActiveTasks
        <5>3. ASSUME t \in ActiveTasks(e) PROVE v <= t
          <6>1. PICK u \in ActiveTasks(e) : u < t
            BY <3>3, <4>1, <5>3 DEF IsOldestActive, ActiveTasks, Tasks
          <6> QED BY <5>2, <6>1 DEF ActiveTasks, Tasks
        <5> QED BY <5>1, <5>2, <5>3 DEF IsOldestActive
      <4>3. IsOldestActive(claim[e].row) => IsOldestActive(claim[e].row)'
        BY <3>1, <3>3, <4>1 DEF IsOldestActive, ActiveTasks, ACTIVE_STATES, SelectOK
      <4>4. claim[e].row # t
        BY <3>3, <4>1 DEF SelectOK
      <4> QED BY <3>1, <3>3, <4>2, <4>3, <4>4 DEF SelectOK, HasRow
    <3> QED BY <3>2, <3>3
  <2> QED BY <1>3, <2>1, <2>2, <2>3, <2>4, <2>5, <2>6, <2>7 DEF OperatorStep
<1>4. ASSUME NEW d \in Devices, DeviceStep(d) PROVE SelectOK(e)'
  <2>1. CASE \/ Enroll(d) \/ RegisterSession(d) \/ ReleaseLease(d) \/ ExpireDeviceLease(d)
             \/ \E w \in Workflows : AcquireLease(w, d)
    BY <2>1, SelectFrame DEF Enroll, RegisterSession, AcquireLease, ReleaseLease, ExpireDeviceLease
  <2>2. CASE \E t \in TasksOn(d) : UnbindAccount(AccountOf[t], d) \/ RevokeAccount(AccountOf[t])
    <3>1. PICK work \in SUBSET Tasks :
                /\ BlockStaleWork(work)
                /\ \A t \in work : status[t] = "QUEUED" => claim[DeviceOf[t]].phase # "SELECTED"
      BY <2>2, StaleWorkFacts
    <3>2. CASE claim[e].phase # "SELECTED"
      BY <3>1, <3>2 DEF BlockStaleWork, SelectOK
    <3>3. CASE claim[e].phase = "SELECTED"
      BY <3>1, <3>3, SelectFrame DEF BlockStaleWork
    <3> QED BY <3>2, <3>3
  <2> QED BY <1>4, <2>1, <2>2 DEF DeviceStep
<1>5. ASSUME NEW s \in Viewers, LiveStep(s) PROVE SelectOK(e)'
  BY <1>5, SelectFrame DEF LiveStep, LiveEstablish, LiveTakeControl, Takeover, TakeoverState,
     LiveRelease, LiveClose, LiveWrite, LiveWriteLost
<1>5a. ASSUME NEW s \in LegacyViewers, LegacyStep(s) PROVE SelectOK(e)'
  BY <1>5a, SelectFrame DEF LegacyStep, LegacyOpen, LegacyTakeControl, LegacyLeave, Takeover,
     TakeoverState
<1>6. CASE UNCHANGED vars
  BY <1>6, SelectFrame DEF vars
<1> QED BY <1>1, <1>2, <1>3, <1>4, <1>5, <1>5a, <1>6 DEF Next

\* IInv is inductive and holds initially.
THEOREM Invariant == Spec => []IInv
<1>1. Init => IInv
  <2> SUFFICES ASSUME Init PROVE IInv
    OBVIOUS
  <2>1. TypeOK
    BY ConstantsAssumption DEF Init, TypeOK, LeaseRows, ClaimStates, RunnerStates, BUSINESS_STATES,
       ErrorCodes, LedgerStates, NoLease, NoClaim
  <2>2. CommitInv /\ LockInv /\ SelectInv /\ SettledAgreement /\ AbsentInv
    BY DEF Init, CommitInv, CommitOK, LockInv, LockOK, SelectInv, SelectOK, SettledAgreement,
       Exists,
       HasRow, HasOpenRow, OpenRows, NoClaim, InOrder, AbsentInv
  <2> QED BY <2>1, <2>2 DEF IInv
<1>2. IInv /\ [Next]_vars => IInv'
  BY TypeStep, CommitStep, LockStep, SelectStep, SettledStep, AbsentStep DEF IInv
<1> QED BY <1>1, <1>2, PTL DEF Spec

\* Every open row of the action ledger keeps its task RECONCILING and RUNNING
\* (OpenCommitParked): heartbeat(), event(), cancel(), claim(), take_control()
\* and unbinding never make an uncertain commit look decided; only confirm()
\* of the publish queue settles such a task without reconcile().
THEOREM OpenCommitParkedCorrect == Spec => []OpenCommitParked
<1>1. IInv => OpenCommitParked
  BY DEF IInv, CommitInv, CommitOK, ParkedOK, ConfirmedOK, OpenCommitParked
<1> QED BY <1>1, Invariant, PTL

\* status and business_state are settled together (SettledAgreement).
THEOREM SettledAgreementCorrect == Spec => []SettledAgreement
<1>1. IInv => SettledAgreement
  BY DEF IInv
<1> QED BY <1>1, Invariant, PTL

-----------------------------------------------------------------------------
\* No handler reopens or rewrites a settled task (TerminalAbsorbing).
THEOREM TerminalAbsorbingCorrect == Spec => TerminalAbsorbing
<1> DEFINE A == \A t \in InOrder \cap InOrder' : Exists(t) /\ biz[t] \in TERMINAL_BUSINESS =>
        /\ biz'[t] = biz[t] /\ status'[t] = status[t] /\ error'[t] = error[t]
        /\ ledger'[t] = ledger[t] /\ grants'[t] = grants[t]
<1>1. IInv /\ [Next]_vars => [A]_vars
  BY TerminalStep DEF InOrder
<1> QED BY <1>1, Invariant, PTL DEF Spec, TerminalAbsorbing

-----------------------------------------------------------------------------
(* One authorization per task, and none for a task that was retried. *)
GrantOK(t) ==
    \/ grants[t] = 0 /\ ~HasRow(t)
    \/ /\ grants[t] = 1 /\ HasRow(t)
       /\ \A a, b \in Actions : ledger[t][a] # "NONE" /\ ledger[t][b] # "NONE" => a = b
GrantInv == \A t \in InOrder : GrantOK(t)

RetryOK(t) == retryOf[t] \in InOrder \ QueueTasks =>
    LET s == retryOf[t] IN
        Exists(s) /\ biz[s] \in TERMINAL_BUSINESS /\ grants[s] = 0 /\ ~HasRow(s)
RetryInv == \A t \in Tasks : RetryOK(t)

\* intent() finds no row of the task when it inserts one.
LEMMA GrantStep == IInv /\ GrantInv /\ [Next]_vars => GrantInv'
<1> SUFFICES ASSUME IInv, GrantInv, [Next]_vars, NEW u \in Tasks,
                    created'[u] # "LATE"
             PROVE  GrantOK(u)'
    BY DEF GrantInv, InOrder
<1>0. TypeOK /\ GrantOK(u) /\ CommitOK(u)
  BY InOrderStep DEF IInv, GrantInv, CommitInv
<1> USE <1>0 DEF GrantOK, HasRow, TypeOK, rowVars, ledgerVars, deviceVars
<1>1. CASE \E t \in Tasks, a \in Actions : Intent(t, a)
  <2>1. PICK t \in Tasks, a \in Actions : Intent(t, a)
    BY <1>1
  <2>2. t = u => ~HasRow(u)
    BY <2>1 DEF Intent, IntentState, CommitOK, ParkedOK, ConfirmedOK
  <2>3. grants' = [grants EXCEPT ![t] = @ + 1] /\ ledger' = [ledger EXCEPT ![t][a] = "INTENT"]
    BY <2>1 DEF Intent
  <2> QED BY <2>2, <2>3
<1>2. CASE \E t \in Tasks, a \in Actions, reported \in {"APPLIED", "UNKNOWN"} :
              Outcome(t, a, reported)
  BY <1>2 DEF Outcome, OutcomeGuard, OpenRows
<1>3. CASE \E t \in Tasks : ReconcileApplied(t) \/ ReconcileNotSubmitted(t)
  <2>1. PICK t \in Tasks, res \in ResolvedRows : \E outcome, code : Settle(t, outcome, code, res)
    BY <1>3 DEF ReconcileApplied, ReconcileNotSubmitted, ResolvedRows
  <2>2. grants' = grants /\ \A a \in Actions : ledger'[u][a] = "NONE" <=> ledger[u][a] = "NONE"
    BY <2>1 DEF Settle, ResolvedRows
  <2> QED BY <2>2
<1>4. CASE UNCHANGED <<ledger, grants>>
  BY <1>4
<1>5. ASSUME NEW d \in Devices, ClaimStep(d) \/ DeviceStep(d) PROVE UNCHANGED <<ledger, grants>>
  BY <1>5 DEF ClaimStep, ClaimCheck, ClaimSelect, ClaimNothing, ClaimCommit, ClaimAbort,
     DeviceStep, Enroll, RegisterSession, UnbindAccount, RevokeAccount, BlockStaleWork,
     AcquireLease, ReleaseLease, ExpireDeviceLease
<1>6. ASSUME NEW t \in Tasks, RunnerStep(t) PROVE <1>1!1 \/ <1>2!1 \/ UNCHANGED <<ledger, grants>>
  BY <1>6 DEF RunnerStep, Release, Heartbeat, Event, Finish, AckCancelApplied, SettleCancelled,
     AckCancelDeferred, SetBiz
<1>7. ASSUME NEW t \in Tasks, OperatorStep(t) PROVE <1>3!1 \/ UNCHANGED <<ledger, grants>>
  BY <1>7 DEF OperatorStep, Create, Retry, Insert, StampBusinessFields, CancelNow,
     SettleCancelled, CancelRequest,
     Pause, AckPaused, MarkUnknown, SetBiz, Resume, ExpireTaskLease, ConfirmTarget
<1>8. ASSUME NEW s \in Viewers, LiveStep(s) PROVE UNCHANGED <<ledger, grants>>
  BY <1>8 DEF LiveStep, LiveEstablish, LiveTakeControl, Takeover, TakeoverState,
     LiveRelease, LiveClose, LiveWrite, LiveWriteLost
<1>9. ASSUME NEW s \in LegacyViewers, LegacyStep(s) PROVE UNCHANGED <<ledger, grants>>
  BY <1>9 DEF LegacyStep, LegacyOpen, LegacyTakeControl, LegacyLeave
<1>10. CASE UNCHANGED vars
  BY <1>10 DEF vars
<1> QED BY <1>1, <1>2, <1>3, <1>4, <1>5, <1>6, <1>7, <1>8, <1>9, <1>10 DEF Next

\* retry() reads a settled task without a ledger row, which stays that way.
LEMMA RetryStep == IInv /\ GrantInv /\ RetryInv /\ [Next]_vars => RetryInv'
<1> SUFFICES ASSUME IInv, GrantInv, RetryInv, [Next]_vars, NEW u \in Tasks PROVE RetryOK(u)'
    BY DEF RetryInv
<1>0. TypeOK /\ RetryOK(u)
  BY DEF IInv, RetryInv
<1>1. CASE retryOf'[u] = retryOf[u]
  <2> SUFFICES ASSUME retryOf[u] \in Tasks \ QueueTasks, created'[retryOf[u]] # "LATE"
             PROVE  RetryOK(u)'
    BY <1>1 DEF RetryOK, InOrder
  <2> DEFINE s == retryOf[u]
  <2>1. s \in Tasks /\ Exists(s) /\ biz[s] \in TERMINAL_BUSINESS /\ grants[s] = 0 /\ ~HasRow(s)
    BY <1>0, InOrderStep DEF RetryOK
  <2>2. /\ biz'[s] = biz[s] /\ status'[s] = status[s]
        /\ ledger'[s] = ledger[s] /\ grants'[s] = grants[s]
    BY <2>1, TerminalStep
  <2> QED BY <1>1, <2>1, <2>2 DEF RetryOK, Exists, HasRow
<1>2. CASE retryOf'[u] # retryOf[u]
  <2>1. PICK t \in Tasks : Create(t) \/ \E source \in Tasks : Retry(source, t)
    <3>1. ASSUME NEW d \in Devices, ClaimStep(d) \/ DeviceStep(d) PROVE retryOf' = retryOf
      BY <3>1 DEF ClaimStep, ClaimCheck, ClaimSelect, ClaimNothing, ClaimCommit, ClaimAbort,
         DeviceStep, Enroll, RegisterSession, UnbindAccount, RevokeAccount, BlockStaleWork,
     AcquireLease, ReleaseLease, ExpireDeviceLease
    <3>2. ASSUME NEW t \in Tasks, RunnerStep(t) PROVE retryOf' = retryOf
      BY <3>2 DEF RunnerStep, Release, Heartbeat, Event, Finish, AckCancelApplied, SettleCancelled,
         AckCancelDeferred, SetBiz, Intent, Outcome
    <3>3. ASSUME NEW s \in Viewers, LiveStep(s) PROVE retryOf' = retryOf
      BY <3>3 DEF LiveStep, LiveEstablish, LiveTakeControl, Takeover, TakeoverState,
     LiveRelease, LiveClose, LiveWrite, LiveWriteLost
    <3>4. ASSUME NEW t \in Tasks, OperatorStep(t)
          PROVE  Create(t) \/ (\E source \in Tasks : Retry(source, t)) \/ retryOf' = retryOf
      BY <3>4 DEF OperatorStep, StampBusinessFields, CancelNow, SettleCancelled, CancelRequest,
         Pause, AckPaused,
         MarkUnknown, SetBiz, Resume, ReconcileApplied, ReconcileNotSubmitted, Settle,
            ConfirmTarget,
         ExpireTaskLease
    <3>5. ASSUME NEW s \in LegacyViewers, LegacyStep(s) PROVE retryOf' = retryOf
      BY <3>5 DEF LegacyStep, LegacyOpen, LegacyTakeControl, LegacyLeave
    <3> QED BY <1>2, <3>1, <3>2, <3>3, <3>4, <3>5 DEF Next, vars
  <2>2. CASE Create(t)
    BY <1>0, <1>2, <2>2 DEF Create, Insert, TypeOK, RetryOK, InOrder, Tasks
  <2>3. CASE \E source \in Tasks : Retry(source, t)
    <3>1. PICK source \in Tasks : Retry(source, t)
      BY <2>3
    <3>2. Exists(source)
      BY <3>1 DEF Retry, RowFree
    <3>3. source # t /\ u = t /\ retryOf'[u] = source
      BY <1>0, <1>2, <3>1, <3>2 DEF Retry, Insert, NextNew, Exists, TypeOK
    <3>4. biz'[source] = biz[source] /\ status'[source] = status[source] /\ UNCHANGED ledgerVars
      BY <1>0, <3>1, <3>3 DEF Retry, Insert, TypeOK
    <3>5. CASE source \in QueueTasks \/ created'[source] = "LATE"
      BY <3>3, <3>5 DEF RetryOK, InOrder
    <3>6. CASE source \notin QueueTasks /\ created'[source] # "LATE"
      <4>0. source \in InOrder
        BY <3>6, InOrderStep
      <4>a. biz[source] \in TERMINAL_BUSINESS
        BY <3>1, <3>2, <4>0 DEF Retry, Retryable, IInv, SettledAgreement, TERMINAL_BUSINESS
      <4>1. ~HasRow(source)
        BY <3>1, <3>2, <3>6, <4>0, <4>a DEF IInv, CommitInv, CommitOK, ParkedOK, ConfirmedOK,
           SettledAgreement,
           Retry, Retryable, TERMINAL_BUSINESS
      <4>2. grants[source] = 0
        BY <4>0, <4>1 DEF GrantInv, GrantOK
      <4> QED BY <3>2, <3>3, <3>4, <4>a, <4>1, <4>2 DEF RetryOK, Exists, HasRow, ledgerVars
    <3> QED BY <3>5, <3>6
  <2> QED BY <2>1, <2>2, <2>3
<1> QED BY <1>1, <1>2

\* GrantInv and RetryInv hold in every behaviour.
THEOREM GrantInvariant == Spec => [](GrantInv /\ RetryInv)
<1>1. Init => GrantInv /\ RetryInv
  BY DEF Init, GrantInv, GrantOK, RetryInv, RetryOK, HasRow, InOrder, Tasks
<1>2. IInv /\ (GrantInv /\ RetryInv) /\ [Next]_vars => (GrantInv /\ RetryInv)'
  BY GrantStep, RetryStep
<1> QED BY <1>1, <1>2, Invariant, PTL DEF Spec

\* intent() returns AUTHORIZED at most once in the life of a task, whatever
\* action id, lease or session asks (SingleAuthorization).
THEOREM SingleAuthorizationCorrect == Spec => []SingleAuthorization
<1>1. GrantInv => SingleAuthorization
  BY DEF GrantInv, GrantOK, SingleAuthorization, HasRow
<1> QED BY <1>1, GrantInvariant, PTL

\* retry() never repeats a task whose commit was authorized, those of the
\* publish queue excepted (RetryOnlyUncommitted).
THEOREM RetryOnlyUncommittedCorrect == Spec => []RetryOnlyUncommitted
<1>1. RetryInv => RetryOnlyUncommitted
  BY DEF RetryInv, RetryOK, RetryOnlyUncommitted
<1> QED BY <1>1, GrantInvariant, PTL

-----------------------------------------------------------------------------
(* Ledger rows only move forward. *)
\* No step takes a row of the action ledger back to an earlier phase.
LEMMA LedgerStep ==
    ASSUME IInv, GrantInv, [Next]_vars, NEW u \in InOrder, NEW b \in Actions,
           ledger'[u][b] # ledger[u][b]
    PROVE  /\ Phase(ledger[u][b]) < Phase(ledger'[u][b])
           /\ ledger[u][b] = "APPLIED" => ledger'[u][b] = "RESOLVED_APPLIED"
<1> DEFINE Forward == /\ Phase(ledger[u][b]) < Phase(ledger'[u][b])
                      /\ ledger[u][b] = "APPLIED" => ledger'[u][b] = "RESOLVED_APPLIED"
<1>0. TypeOK /\ CommitOK(u) /\ GrantOK(u)
  BY DEF IInv, CommitInv, GrantInv
<1>0a. u \in Tasks
  BY DEF InOrder
<1> USE <1>0, <1>0a DEF TypeOK, ledgerVars, rowVars, deviceVars
<1>1. CASE \E t \in Tasks, a \in Actions : Intent(t, a)
  BY <1>1 DEF Intent, Phase, ResolvedRows
<1>2. CASE \E t \in Tasks, a \in Actions, reported \in {"APPLIED", "UNKNOWN"} :
              Outcome(t, a, reported)
  BY <1>2 DEF Outcome, OutcomeGuard, Phase, ResolvedRows
<1>a. ASSUME biz[u] \notin TERMINAL_BUSINESS, ledger[u][b] # "NONE" PROVE ledger[u][b] \in OpenRows
  <2>1. PICK a \in Actions : ledger[u][a] \in OpenRows
    BY <1>a DEF CommitOK, ParkedOK, ConfirmedOK, HasRow, HasOpenRow, TERMINAL_BUSINESS
  <2>2. a = b
    BY <1>a, <2>1 DEF GrantOK, HasRow, OpenRows
  <2> QED BY <2>1, <2>2
<1>3. CASE \E t \in Tasks : ReconcileApplied(t)
  <2>1. biz[u] \notin TERMINAL_BUSINESS /\ ledger[u][b] # "NONE"
        /\ ledger'[u][b] = "RESOLVED_APPLIED"
    BY <1>3 DEF ReconcileApplied, Reconcilable, Settle
  <2> QED BY <1>a, <2>1 DEF Phase, OpenRows, ResolvedRows
<1>4. CASE \E t \in Tasks : ReconcileNotSubmitted(t)
  <2>1. /\ biz[u] \notin TERMINAL_BUSINESS /\ ledger[u][b] \notin {"NONE", "APPLIED"}
        /\ ledger'[u][b] = "RESOLVED_NOT_SUBMITTED"
    BY <1>4 DEF ReconcileNotSubmitted, Reconcilable, Settle
  <2> QED BY <1>a, <2>1 DEF Phase, OpenRows, ResolvedRows
<1>5. ASSUME NEW d \in Devices, ClaimStep(d) \/ DeviceStep(d) PROVE FALSE
  BY <1>5 DEF ClaimStep, ClaimCheck, ClaimSelect, ClaimNothing, ClaimCommit, ClaimAbort,
     DeviceStep, Enroll, RegisterSession, UnbindAccount, RevokeAccount, BlockStaleWork,
     AcquireLease, ReleaseLease, ExpireDeviceLease
<1>6. ASSUME NEW t \in Tasks, RunnerStep(t) PROVE <1>1!1 \/ <1>2!1
  BY <1>6 DEF RunnerStep, Release, Heartbeat, Event, Finish, AckCancelApplied, SettleCancelled,
     AckCancelDeferred, SetBiz
<1>7. ASSUME NEW t \in Tasks, OperatorStep(t) PROVE <1>3!1 \/ <1>4!1
  BY <1>7 DEF OperatorStep, Create, Retry, Insert, StampBusinessFields, CancelNow,
     SettleCancelled, CancelRequest,
     Pause, AckPaused, MarkUnknown, SetBiz, Resume, ExpireTaskLease, ConfirmTarget
<1>8. ASSUME NEW s \in Viewers, LiveStep(s) PROVE FALSE
  BY <1>8 DEF LiveStep, LiveEstablish, LiveTakeControl, Takeover, TakeoverState,
     LiveRelease, LiveClose, LiveWrite, LiveWriteLost
<1>9. ASSUME NEW s \in LegacyViewers, LegacyStep(s) PROVE FALSE
  BY <1>9 DEF LegacyStep, LegacyOpen, LegacyTakeControl, LegacyLeave
<1>10. ~UNCHANGED vars
  BY DEF vars
<1> QED BY <1>1, <1>2, <1>3, <1>4, <1>5, <1>6, <1>7, <1>8, <1>9, <1>10 DEF Next

\* The phase machine of controlled_actions.py is monotone, and reconcile()
\* never denies what a device reported as applied (LedgerMonotone).
THEOREM LedgerMonotoneCorrect == Spec => LedgerMonotone
<1> DEFINE A == \A t \in InOrder, a \in Actions : ledger'[t][a] # ledger[t][a] =>
        /\ Phase(ledger[t][a]) < Phase(ledger'[t][a])
        /\ ledger[t][a] = "APPLIED" => ledger'[t][a] = "RESOLVED_APPLIED"
<1>1. IInv /\ GrantInv /\ [Next]_vars => [A]_vars
  BY LedgerStep
<1> QED BY <1>1, Invariant, GrantInvariant, PTL DEF Spec, LedgerMonotone

-----------------------------------------------------------------------------
(* The device lease in force belongs to a task that still holds it. *)
HeldOK(d) == \A t \in Tasks :
    dl[d].owner = "AUTO" /\ dl[d].by = t /\ dl[d].st = "HELD" =>
        /\ t \in TasksOn(d)
        /\ lease[t] = dl[d].token
        /\ live[t]
        /\ status[t] \notin {"ABSENT", "QUEUED"}
        /\ biz[t] # "CANCELLED"

\* A step that neither replaces the row nor touches its owner keeps HeldOK.
LEMMA HeldFrame ==
    ASSUME NEW e \in Devices, HeldOK(e), dl'[e] = dl[e],
           \A t \in TasksOn(e) : dl[e].by = t /\ live[t] =>
                /\ lease'[t] = lease[t] /\ live'[t]
                /\ status[t] \notin {"ABSENT", "QUEUED"} => status'[t] \notin {"ABSENT", "QUEUED"}
                /\ biz[t] # "CANCELLED" => biz'[t] # "CANCELLED"
    PROVE  HeldOK(e)'
BY DEF HeldOK, TasksOn

\* Every handler that takes a lease from a task also gives up the AUTO lease.
LEMMA OccupationStep == IInv /\ OccupationOwned /\ [Next]_vars => OccupationOwned'
<1> SUFFICES ASSUME IInv, OccupationOwned, [Next]_vars, NEW e \in Devices PROVE HeldOK(e)'
    BY DEF OccupationOwned, HeldOK
<1>0. TypeOK /\ HeldOK(e) /\ SelectInv
  BY DEF IInv, OccupationOwned, HeldOK
<1> USE <1>0, ConstantsAssumption DEF TypeOK, TasksOn, rowVars, ledgerVars, deviceVars
<1>1. ASSUME NEW d \in Devices, ClaimStep(d) PROVE HeldOK(e)'
  <2>1. CASE ClaimCheck(d) \/ ClaimAbort(d)
          \/ \E row \in TasksOn(d), skip \in SUBSET TasksOn(d) : ClaimSelect(d, row, skip)
    BY <2>1, HeldFrame DEF ClaimCheck, ClaimAbort, ClaimSelect
  <2>2. CASE \E skip \in SUBSET TasksOn(d) : ClaimNothing(d, skip)
    <3>1. PICK skip \in SUBSET TasksOn(d) : ClaimNothing(d, skip)
      BY <2>2
    <3>2. ASSUME NEW t \in TasksOn(e), live[t], status[t] \notin {"ABSENT", "QUEUED"}
          PROVE  /\ t \notin Unleased(d, skip, NoTask) /\ status'[t] = status[t]
                 /\ biz[t] # "CANCELLED" => biz'[t] # "CANCELLED"
      BY <3>1, <3>2 DEF ClaimNothing, ScanGuard, Unleased, Dropped, Parked, Candidates, Queue,
         ScannedStatus, ScannedBiz, ActiveTasks, IsOldestActive
    <3>3. dl' = dl
      BY <3>1 DEF ClaimNothing
    <3> QED BY <3>1, <3>2, <3>3 DEF ClaimNothing, HeldOK
  <2>3. CASE ClaimCommit(d)
    <3> DEFINE row == claim[d].row
               skip == claim[d].skip
    <3>1. row \in TasksOn(d) /\ \A t \in TasksOn(d) : IsOldestActive(t) => ~live[t]
      BY <2>3 DEF ClaimCommit, SelectInv, SelectOK
    <3>2. CASE e = d
      BY <2>3, <3>1, <3>2 DEF ClaimCommit, NewLease, HeldOK, ScannedStatus, ScannedBiz
    <3>3. CASE e # d
      <4>1. ASSUME NEW t \in TasksOn(e)
            PROVE  t # row /\ t \notin Unleased(d, skip, row) /\ t \notin Dropped(d, skip, row)
                   /\ t \notin Parked(d, skip, row)
        BY <3>1, <3>3 DEF Unleased, Dropped, Parked, Candidates, Queue
      <4>2. ASSUME NEW t \in TasksOn(e)
            PROVE  lease'[t] = lease[t] /\ live'[t] = live[t] /\ status'[t] = status[t]
                   /\ biz'[t] = biz[t]
        BY <2>3, <3>3, <4>1 DEF ClaimCommit, ScannedStatus, ScannedBiz
      <4> QED BY <2>3, <3>3, <4>2, HeldFrame DEF ClaimCommit
    <3> QED BY <3>2, <3>3
  <2> QED BY <1>1, <2>1, <2>2, <2>3 DEF ClaimStep
<1>2. ASSUME NEW t \in Tasks, RunnerStep(t) PROVE HeldOK(e)'
  <2>1. CASE Release(t)
    BY <2>1 DEF Release, HeldBy, Ended, HeldOK, LeaseRows
  <2>2. CASE Heartbeat(t)
    BY <2>2, HeldFrame DEF Heartbeat, HeartbeatState
  <2>3. CASE (\E type \in EventTypes : Event(t, type)) \/ AckCancelDeferred(t)
    BY <2>3, HeldFrame, ZenonT(60) DEF Event, EventTypes, AckCancelDeferred, SetBiz
  <2>4. CASE \E code \in FinishCodes \cup {"NONE"} : \E outcome \in {"SUCCEEDED", "FAILED"} :
                Finish(t, outcome, code)
    BY <2>4 DEF Finish, RunnerToBusiness, Ended, HeldOK, LeaseRows
  <2>5. CASE AckCancelApplied(t)
    BY <2>5 DEF AckCancelApplied, SettleCancelled, ReleaseOccupation, Ended, HeldOK, LeaseRows
  <2>6. CASE \E a \in Actions : Intent(t, a)
    BY <2>6, HeldFrame DEF Intent
  <2>7. CASE \E a \in Actions, reported \in {"APPLIED", "UNKNOWN"} : Outcome(t, a, reported)
    BY <2>7, HeldFrame DEF Outcome
  <2> QED BY <1>2, <2>1, <2>2, <2>3, <2>4, <2>5, <2>6, <2>7 DEF RunnerStep
<1>3. ASSUME NEW t \in Tasks, OperatorStep(t) PROVE HeldOK(e)'
  <2>1. CASE Create(t) \/ \E source \in Tasks : Retry(source, t)
    <3>1. PICK source : Insert(t, source)
      BY <2>1 DEF Create, Retry
    <3>2. dl' = dl /\ lease' = lease /\ live' = live
      BY <3>1 DEF Insert
    <3>3. ASSUME NEW u \in Tasks
          PROVE  /\ status[u] \notin {"ABSENT", "QUEUED"} => status'[u] \notin {"ABSENT", "QUEUED"}
                 /\ biz[u] # "CANCELLED" => biz'[u] # "CANCELLED"
      BY <3>1 DEF Insert, NextNew
    <3> QED BY <3>2, <3>3, HeldFrame
  <2>2. CASE CancelNow(t)
    BY <2>2 DEF CancelNow, SettleCancelled, ReleaseOccupation, Ended, HeldOK, LeaseRows
  <2>3. CASE CancelRequest(t) \/ Pause(t) \/ AckPaused(t) \/ MarkUnknown(t)
    BY <2>3, HeldFrame DEF CancelRequest, Pause, AckPaused, MarkUnknown, SetBiz
  <2>4. CASE Resume(t)
    BY <2>4 DEF Resume, NewLease, Exists, HeldOK
  <2>5. CASE ReconcileApplied(t) \/ ReconcileNotSubmitted(t)
    <3>1. PICK outcome \in {"SUCCEEDED", "FAILED"}, code \in ErrorCodes, res \in ResolvedRows :
                Settle(t, outcome, code, res)
      BY <2>5 DEF ErrorCodes, ResolvedRows, ReconcileApplied, ReconcileNotSubmitted
    <3> QED BY <3>1, HeldFrame DEF Settle
  <2>6. CASE ExpireTaskLease(t)
    BY <2>6 DEF ExpireTaskLease, Ended, HeldOK, LeaseRows
  <2>7. CASE \E decision \in {"SUCCEEDED", "FAILED"} : ConfirmTarget(t, decision)
    BY <2>7, HeldFrame DEF ConfirmTarget
  <2>8. CASE StampBusinessFields(t)
    BY <2>8, HeldFrame DEF StampBusinessFields
  <2> QED BY <1>3, <2>1, <2>2, <2>3, <2>4, <2>5, <2>6, <2>7, <2>8 DEF OperatorStep
<1>4. ASSUME NEW d \in Devices, DeviceStep(d) PROVE HeldOK(e)'
  <2>1. CASE Enroll(d) \/ RegisterSession(d)
    BY <2>1, HeldFrame DEF Enroll, RegisterSession
  <2>2. CASE \E t \in TasksOn(d) : UnbindAccount(AccountOf[t], d) \/ RevokeAccount(AccountOf[t])
    BY <2>2 DEF UnbindAccount, RevokeAccount, BlockStaleWork, HeldOK
  <2>3. CASE ReleaseLease(d) \/ ExpireDeviceLease(d)
    <3>1. dl' = [dl EXCEPT ![d] = Ended(dl[d])] /\ UNCHANGED rowVars
      BY <2>3 DEF ReleaseLease, ExpireDeviceLease
    <3>2. CASE e = d
      BY <3>1, <3>2 DEF Ended, LeaseRows, HeldOK
    <3>3. CASE e # d
      BY <3>1, <3>3, HeldFrame
    <3> QED BY <3>2, <3>3
  <2>4. CASE \E w \in Workflows : AcquireLease(w, d)
    BY <2>4 DEF AcquireLease, NewLease, HeldOK
  <2> QED BY <1>4, <2>1, <2>2, <2>3, <2>4 DEF DeviceStep
<1>5. ASSUME NEW s \in Viewers, LiveStep(s) PROVE HeldOK(e)'
  <2> DEFINE d == ViewerDevice[s]
  <2>1. CASE LiveEstablish(s)
    <3>1. CASE e = d
      BY <2>1, <3>1 DEF LiveEstablish, NewLease, HeldOK
    <3>2. CASE e # d
      BY <2>1, <3>2, HeldFrame DEF LiveEstablish
    <3> QED BY <3>1, <3>2
  <2>2. CASE LiveTakeControl(s)
    <3>1. CASE e = d
      BY <2>2, <3>1 DEF LiveTakeControl, Takeover, TakeoverState, NewLease, HeldOK
    <3>2. CASE e # d
      BY <2>2, <3>2, HeldFrame DEF LiveTakeControl, Takeover, TakeoverState
    <3> QED BY <3>1, <3>2
  <2>3. CASE LiveRelease(s) \/ LiveClose(s) \/ LiveWriteLost(s)
    BY <2>3, HeldFrame DEF LiveRelease, LiveClose, LiveWriteLost
  <2>4. CASE LiveWrite(s)
    <3>1. CASE e = d
      BY <2>4, <3>1 DEF LiveWrite, Written, Downgraded, Ended, LeaseRows, HeldOK
    <3>2. CASE e # d
      BY <2>4, <3>2, HeldFrame DEF LiveWrite
    <3> QED BY <3>1, <3>2
  <2> QED BY <1>5, <2>1, <2>2, <2>3, <2>4 DEF LiveStep
<1>5a. ASSUME NEW s \in LegacyViewers, LegacyStep(s) PROVE HeldOK(e)'
  <2>1. /\ UNCHANGED <<dl, lease, live, status>>
        /\ \A t \in Tasks : biz[t] # "CANCELLED" => biz'[t] # "CANCELLED"
    BY <1>5a DEF LegacyStep, LegacyOpen, LegacyTakeControl, LegacyLeave, Takeover, TakeoverState
  <2> QED BY <2>1, HeldFrame
<1>6. CASE UNCHANGED vars
  BY <1>6, HeldFrame DEF vars
<1> QED BY <1>1, <1>2, <1>3, <1>4, <1>5, <1>5a, <1>6 DEF Next

\* A device lease in force for the automation always names a task that holds
\* exactly that lease and is neither queued nor cancelled (OccupationOwned).
THEOREM OccupationOwnedCorrect == Spec => []OccupationOwned
<1>1. Init => OccupationOwned
  BY DEF Init, OccupationOwned, NoLease
<1> QED BY <1>1, OccupationStep, Invariant, PTL DEF Spec
=============================================================================
