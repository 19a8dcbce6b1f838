-------------------------- MODULE PublishFlowProofs --------------------------
(***************************************************************************)
(* PublishFlow: the commit of a publish target happens at most once, under *)
(* a fencing token of its own, after the approval, and is not recorded as  *)
(* a failure behind an operator's back.  For all plans, targets, devices   *)
(* and numbers of redelivered start events.                                *)
(***************************************************************************)
EXTENDS PublishFlow, TLAPS

-----------------------------------------------------------------------------
(* Plans and their targets.                                                *)

\* PlanOf(t) is the plan that lists t.
LEMMA PlanOfTarget ==
    \A t \in Targets : /\ PlanOf(t) \in Plans
                       /\ \E i \in DOMAIN Order[PlanOf(t)] : Order[PlanOf(t)][i] = t
BY TargetRows DEF PlanOf, TargetsOf

\* No other plan lists it.
LEMMA PlanUnique ==
    ASSUME NEW p \in Plans, NEW i \in DOMAIN Order[p], Order[p][i] \in Targets
    PROVE  PlanOf(Order[p][i]) = p
BY PlanOfTarget, TargetRows

LEMMA OrderType ==
    ASSUME NEW p \in Plans, NEW i \in DOMAIN Order[p]
    PROVE  Order[p][i] \in Targets /\ i \in 1..Len(Order[p])
BY FlowAssumption

-----------------------------------------------------------------------------
(* The steps of a target's workflow that write only wf[t]: what they may   *)
(* do to it.                                                               *)

\* From the intent's write on.
Late == {"commit", "reconciling", "reconcile", "settle", "error", "cleanup", "release"}

LEMMA WfRecord ==
    ASSUME TypeOK, NEW t \in Targets
    PROVE  /\ wf[t].pc \in Steps /\ wf[t].token \in 0..MaxFence /\ wf[t].intent \in BOOLEAN
           /\ wf[t].final \in TargetStates /\ wf[t].raised \in BOOLEAN
BY DEF TypeOK, WfRecords

LEMMA StepNames ==
    /\ "validate" \in Steps /\ "queue" \in Steps /\ "acquire" \in Steps
    /\ "start" \in Steps /\ "preflight" \in Steps /\ "prepare" \in Steps
    /\ "wait" \in Steps /\ "intent" \in Steps /\ "reconciling" \in Steps
    /\ "reconcile" \in Steps /\ "settle" \in Steps /\ "cancel" \in Steps
    /\ "idle" \in Steps /\ "confirm" \in Steps /\ "commit" \in Steps
    /\ "error" \in Steps /\ "cleanup" \in Steps /\ "release" \in Steps
BY DEF Steps, TrySteps

LEMMA StateNames ==
    /\ "NONE" \in TargetStates /\ "DRAFT" \in TargetStates /\ "AWAITING_APPROVAL" \in TargetStates
    /\ "SCHEDULED" \in TargetStates /\ "COMMITTING" \in TargetStates /\ "SUCCEEDED" \in TargetStates
    /\ "FAILED" \in TargetStates /\ "UNKNOWN" \in TargetStates /\ "CANCELED" \in TargetStates
BY DEF TargetStates, PublishState

LEMMA WfType == TypeOK => wf \in [Targets -> WfRecords]
BY DEF TypeOK

Runs == [st : {"none", "running", "completed", "failed"}, n : Nat, next : Nat]

LEMMA RunType == TypeOK => run \in [Plans -> Runs]
BY DEF TypeOK, Runs

LEMMA LeaseType == TypeOK => dl \in [Devices -> LeaseRows]
BY DEF TypeOK

LEMMA RowType ==
    TypeOK => /\ tstate \in [Targets -> TargetStates] /\ pstate \in [Plans -> TargetStates]
              /\ intent \in [Targets -> [token : 0..MaxFence, evidence : Nat]]
              /\ commits \in [Targets -> Nat] /\ observed \in [Targets -> BOOLEAN]
BY DEF TypeOK

LEMMA WantedType ==
    ASSUME TypeOK, NEW t \in Targets
    PROVE  Wanted(t) \in TargetStates
<1>1. CASE wf[t].pc \in DOMAIN Marks
  BY <1>1 DEF Wanted, Marks, PublishState, TargetStates
<1>2. CASE wf[t].pc \notin DOMAIN Marks
  BY <1>2, WfRecord DEF Wanted
<1> QED BY <1>1, <1>2

\* What PublishTargetWorkflow.run() does to its own state has its type.
LEMMA GotoType ==
    ASSUME TypeOK, NEW t \in Targets, NEW s \in Steps, Goto(t, s)
    PROVE  wf' \in [Targets -> WfRecords]
BY WfType DEF Goto, WfRecords

LEMMA ExceptType ==
    ASSUME TypeOK, NEW t \in Targets, Except(t)
    PROVE  wf' \in [Targets -> WfRecords]
<1>1. ErrorState(t) \in TargetStates
  BY StateNames DEF ErrorState
<1> QED BY <1>1, WfType, StepNames DEF Except, WfRecords

LEMMA GiveUpType ==
    ASSUME TypeOK, NEW t \in Targets
    PROVE  [wf EXCEPT ![t] = GiveUp(t)] \in [Targets -> WfRecords]
BY WfType, StepNames DEF GiveUp, WfRecords

LEMMA FinishType ==
    ASSUME TypeOK, NEW t \in Targets, NEW raised \in BOOLEAN, FinishTarget(t, raised)
    PROVE  /\ wf' \in [Targets -> WfRecords]
           /\ signal' \in [Targets -> BOOLEAN]
           /\ run' \in [Plans -> Runs]
<1>1. Idle \in WfRecords
  BY StepNames, StateNames, FlowAssumption DEF Idle, Fresh, WfRecords
<1>2. AfterChild(PlanOf(t), raised) \in Runs
  BY PlanOfTarget, RunType DEF Runs, AfterChild
<1> QED BY <1>1, <1>2, PlanOfTarget, RunType DEF TypeOK, FinishTarget

LEMMA TypeInit == Init => TypeOK
BY StepNames, StateNames, FlowAssumption DEF Init, TypeOK, NoIntent, NoTx, NoLease, Idle, Fresh, WfRecords, LeaseRows

-----------------------------------------------------------------------------
\* Type correctness of what a step asks for.
LEMMA PlanActionsType ==
    ASSUME TypeOK, NEW p \in Plans,
           \/ CreatePlan(p) \/ SubmitPlan(p) \/ \E a \in BOOLEAN : DecideApproval(p, a)
           \/ CancelRead(p) \/ CancelWrite(p) \/ PauseForAccount(p)
           \/ StartWorkflow(p) \/ StartTarget(p)
    PROVE  TypeOK'
<1> USE FlowAssumption, StepNames, StateNames
<1>1. CASE CreatePlan(p)
  BY <1>1 DEF TypeOK, CreatePlan, rowVars, history
<1>2. CASE SubmitPlan(p)
  BY <1>2 DEF TypeOK, SubmitPlan, RequiresApproval, history
<1>3. ASSUME NEW a \in BOOLEAN, DecideApproval(p, a) PROVE TypeOK'
  BY <1>3 DEF TypeOK, DecideApproval, history
<1>4. CASE CancelRead(p)
  BY <1>4 DEF TypeOK, CancelRead, rowVars, history
<1>5. CASE CancelWrite(p)
  <2>1. ctx' \in [Plans -> [open : BOOLEAN, read : [Targets -> TargetStates]]]
    BY <1>5 DEF TypeOK, CancelWrite, NoTx
  <2>2. pstate' \in [Plans -> TargetStates] /\ tstate' \in [Targets -> TargetStates]
    BY <1>5, RowType, ZenonT(60) DEF CancelWrite
  <2> QED BY <1>5, <2>1, <2>2 DEF TypeOK, CancelWrite, history
<1>6. CASE PauseForAccount(p)
  BY <1>6 DEF TypeOK, PauseForAccount, rowVars, history
<1>7. CASE StartWorkflow(p)
  BY <1>7 DEF TypeOK, StartWorkflow, planVars, rowVars, history
<1>8. CASE StartTarget(p)
  <2> DEFINE t == Order[p][run[p].next]
  <2>1. wf' = [wf EXCEPT ![t] = Fresh("validate")]
    BY <1>8 DEF StartTarget
  <2>2. Fresh("validate") \in WfRecords
    BY DEF Idle, Fresh, WfRecords
  <2>3. wf' \in [Targets -> WfRecords]
    BY <2>1, <2>2, WfType
  <2> QED BY <1>8, <2>3 DEF TypeOK, StartTarget, planVars, rowVars, history
<1> QED BY <1>1, <1>2, <1>3, <1>4, <1>5, <1>6, <1>7, <1>8

LEMMA TargetActionsType ==
    ASSUME TypeOK, NEW t \in Targets, TargetStep(t) \/ Confirmed(t) \/ RequestCancel(t)
    PROVE  TypeOK'
<1> USE FlowAssumption, StepNames, StateNames
<1>1. CASE ReadStep(t)
  BY <1>1, GotoType, ExceptType, GiveUpType DEF TypeOK, ReadStep, SafePoint, Goto, planVars, rowVars, history
<1>2. ASSUME NEW ok \in BOOLEAN, MarkTarget(t, ok) PROVE TypeOK'
  <2>1. tstate' \in [Targets -> TargetStates]
    BY <1>2, WantedType DEF TypeOK, MarkTarget, UpdateTargetState
  <2>2. After[wf[t].pc] \in Steps
    BY <1>2 DEF MarkTarget, After
  <2>3. wf' \in [Targets -> WfRecords]
    BY <1>2, <2>2, GotoType, ExceptType, GiveUpType DEF MarkTarget, Goto
  <2> QED BY <1>2, <2>1, <2>3 DEF TypeOK, MarkTarget, planVars, history
<1>3. ASSUME NEW ok \in BOOLEAN, AcquireDeviceLease(t, ok) PROVE TypeOK'
  <2>1. dl' \in [Devices -> LeaseRows]
    <3>1. CASE UNCHANGED dl
      BY <3>1, LeaseType
    <3>2. CASE /\ dl[DeviceOf[t]].token < MaxFence
               /\ dl' = [dl EXCEPT ![DeviceOf[t]] = [token |-> NextToken(DeviceOf[t]), by |-> t, st |-> "HELD"]]
      BY <3>2, LeaseType DEF LeaseRows, NextToken
    <3> QED BY <1>3, <3>1, <3>2 DEF AcquireDeviceLease, AcquireLease
  <2>2. wf' \in [Targets -> WfRecords]
    <3>1. dl'[DeviceOf[t]].token \in 0..MaxFence
      BY <2>1 DEF LeaseRows
    <3>2. CASE wf' = [wf EXCEPT ![t].pc = "start", ![t].token = dl'[DeviceOf[t]].token]
      BY <3>1, <3>2, WfType DEF WfRecords
    <3> QED BY <1>3, <3>2, ExceptType DEF AcquireDeviceLease
  <2> QED BY <1>3, <2>1, <2>2 DEF TypeOK, AcquireDeviceLease, planVars, rowVars, history
<1>4. ASSUME NEW ok \in BOOLEAN, WriteCommitIntent(t, ok) PROVE TypeOK'
  <2>1. /\ intent' \in [Targets -> [token : 0..MaxFence, evidence : Nat]]
        /\ tstate' \in [Targets -> TargetStates]
    <3>1. [token |-> wf[t].token, evidence |-> run[PlanOf(t)].n] \in [token : 0..MaxFence, evidence : Nat]
      BY WfRecord, PlanOfTarget, RunType DEF Runs
    <3> DEFINE mine == [token |-> wf[t].token, evidence |-> run[PlanOf(t)].n]
    <3>2. \/ UNCHANGED rowVars
          \/ /\ intent' = [intent EXCEPT ![t] = mine]
             /\ tstate' = [tstate EXCEPT ![t] = "COMMITTING"]
      BY <1>4 DEF WriteCommitIntent, CreateCommitIntent
    <3>3. CASE UNCHANGED rowVars
      BY <3>3, RowType DEF rowVars
    <3>4. CASE /\ intent' = [intent EXCEPT ![t] = mine]
               /\ tstate' = [tstate EXCEPT ![t] = "COMMITTING"]
      <4>1. mine \in [token : 0..MaxFence, evidence : Nat]
        BY <3>1
      <4> HIDE DEF mine
      <4> QED BY <3>4, <4>1, RowType
    <3> QED BY <3>2, <3>3, <3>4
  <2>2. wf' \in [Targets -> WfRecords]
    <3>1. CASE wf' = [wf EXCEPT ![t].pc = "commit", ![t].intent = TRUE]
      BY <3>1, WfType DEF WfRecords
    <3> QED BY <1>4, <3>1, ExceptType DEF WriteCommitIntent
  <2> QED BY <1>4, <2>1, <2>2 DEF TypeOK, WriteCommitIntent, planVars, history
<1>5. ASSUME NEW ok \in BOOLEAN, CommitOnce(t, ok) PROVE TypeOK'
  <2>1. wf' \in [Targets -> WfRecords]
    BY <1>5, GotoType DEF CommitOnce, AfterCommit
  <2>2. commits' \in [Targets -> Nat]
    BY <1>5, RowType DEF CommitOnce
  <2> QED BY <1>5, <2>1, <2>2 DEF TypeOK, CommitOnce, planVars, rowVars
<1>6. ASSUME NEW fails \in BOOLEAN, Cleanup(t, fails) PROVE TypeOK'
  <2>1. wf[t].raised \in BOOLEAN
    BY WfRecord
  <2>2. CASE ~fails /\ wf[t].token # 0
    BY <1>6, <2>2, GotoType, ExceptType, GiveUpType DEF TypeOK, Cleanup, Goto, planVars, rowVars, history
  <2>3. CASE ~(~fails /\ wf[t].token # 0)
    <3>1. PICK r \in BOOLEAN : FinishTarget(t, r)
      BY <1>6, <2>1, <2>3 DEF Cleanup
    <3> QED BY <1>6, <3>1, FinishType DEF TypeOK, Runs, Cleanup, planVars, rowVars, history
  <2> QED BY <2>2, <2>3
<1>7. ASSUME NEW fails \in BOOLEAN, ReleaseDeviceLease(t, fails) PROVE TypeOK'
  <2>1. wf[t].raised \in BOOLEAN
    BY WfRecord
  <2>2. dl' \in [Devices -> LeaseRows]
    <3>1. dl' = dl \/ dl' = [dl EXCEPT ![DeviceOf[t]].st = "ENDED"]
      BY <1>7 DEF ReleaseDeviceLease, ReleaseLease
    <3>2. CASE dl' = [dl EXCEPT ![DeviceOf[t]].st = "ENDED"]
      BY <3>2, LeaseType DEF LeaseRows
    <3> QED BY <3>1, <3>2, LeaseType
  <2>3. PICK r \in BOOLEAN : FinishTarget(t, r)
    BY <1>7, <2>1 DEF ReleaseDeviceLease
  <2>4. UNCHANGED <<planVars, rowVars, history>>
    BY <1>7 DEF ReleaseDeviceLease
  <2>5. /\ wf' \in [Targets -> WfRecords] /\ signal' \in [Targets -> BOOLEAN]
        /\ run' \in [Plans -> Runs]
    BY <2>3, FinishType
  <2> QED BY <2>2, <2>4, <2>5 DEF TypeOK, Runs, planVars, rowVars, history
<1>8. ASSUME NEW s \in {"SUCCEEDED", "FAILED", "PENDING"}, ReconcileResult(t, s) PROVE TypeOK'
  <2>1. FinalState(s) \in TargetStates
    BY DEF FinalState
  <2>2. wf' \in [Targets -> WfRecords]
    BY <1>8, <2>1, WfType DEF ReconcileResult, WfRecords
  <2> QED BY <1>8, <2>2 DEF TypeOK, ReconcileResult, planVars, rowVars
<1>9. CASE ActivityFails(t)
  BY <1>9, GotoType, ExceptType, GiveUpType DEF TypeOK, ActivityFails, planVars, rowVars, history
<1>10. CASE Confirmed(t)
  BY <1>10, GotoType, ExceptType, GiveUpType DEF TypeOK, Confirmed, SafePoint, Goto, planVars, rowVars, history
<1>11. CASE RequestCancel(t)
  BY <1>11 DEF TypeOK, RequestCancel, planVars, rowVars, history
<1> QED BY <1>1, <1>2, <1>3, <1>4, <1>5, <1>6, <1>7, <1>8, <1>9, <1>10, <1>11 DEF TargetStep

LEMMA TypeStep == TypeOK /\ [Next]_vars => TypeOK'
<1> SUFFICES ASSUME TypeOK, [Next]_vars PROVE TypeOK'
  OBVIOUS
<1>1. ASSUME NEW t \in Targets, NEW s \in {"SUCCEEDED", "FAILED"}, ReconcileByHand(t, s) PROVE TypeOK'
  <2>1. tstate' \in [Targets -> TargetStates]
    BY <1>1, RowType, StateNames DEF ReconcileByHand, UpdateTargetState
  <2> QED BY <1>1, <2>1 DEF TypeOK, ReconcileByHand, planVars
<1>2. ASSUME NEW d \in Devices, LeaseExpires(d) PROVE TypeOK'
  <2>1. dl' \in [Devices -> LeaseRows]
    BY <1>2, LeaseType DEF LeaseExpires, LeaseRows
  <2> QED BY <1>2, <2>1 DEF TypeOK, LeaseExpires, planVars, rowVars, history
<1>3. CASE UNCHANGED vars
  BY <1>3 DEF TypeOK, vars, planVars, rowVars, history
<1> QED BY <1>1, <1>2, <1>3, PlanActionsType, TargetActionsType DEF Next

\* The rows, the leases and the workflow state have their types.
THEOREM FlowTypeCorrect == Spec => []TypeOK
BY TypeInit, TypeStep, PTL DEF Spec

-----------------------------------------------------------------------------
(* The inductive invariant.                                                *)

Listed(t) == run[PlanOf(t)].next \in DOMAIN Order[PlanOf(t)]
                /\ Order[PlanOf(t)][run[PlanOf(t)].next] = t
Passed(t) == \E i \in DOMAIN Order[PlanOf(t)] :
                i < run[PlanOf(t)].next /\ Order[PlanOf(t)][i] = t

\* A child works only while its plan's workflow stands at its target.
Owned(t) == wf[t].pc # "idle" => run[PlanOf(t)].st = "running" /\ Listed(t)

\* A plan that waits for its approval has started nothing.
Early(p) ==
    /\ pstate[p] \in {"NONE", "DRAFT", "AWAITING_APPROVAL"} => ~inbox[p] /\ run[p].n = 0
    /\ p \in Approval /\ (inbox[p] \/ run[p].n > 0) => approval[p] = "APPROVED"
    /\ run[p].st = "running" => run[p].n > 0
    /\ run[p].next > 0

\* An intent is dated with the run that wrote it, and a run that has written
\* one is past the point where it would write another.
Dated(t) ==
    /\ intent[t] = NoIntent \/ (intent[t].evidence > 0 /\ intent[t].token > 0)
    /\ intent[t].evidence <= run[PlanOf(t)].n
    /\ run[PlanOf(t)].st = "running" /\ run[PlanOf(t)].n > 0 /\ intent[t].evidence = run[PlanOf(t)].n
          => Passed(t) \/ wf[t].pc \in Late

\* The commit call follows the intent and is not repeated.
Committed(t) ==
    /\ commits[t] \in {0, 1}
    /\ commits[t] = 1 => intent[t] # NoIntent
    /\ wf[t].pc = "commit" => /\ commits[t] = 0 /\ intent[t] # NoIntent /\ wf[t].intent
                              /\ tstate[t] \in {"COMMITTING", "CANCELED"}

\* What a child is about to record of a commit.
Judged(t) ==
    /\ wf[t].pc = "error" => wf[t].final = ErrorState(t)
    /\ wf[t].pc = "settle" => observed[t]
    /\ run[PlanOf(t)].n = 1 /\ wf[t].pc # "idle" /\ commits[t] = 1 => wf[t].intent
    /\ tstate[t] = "FAILED" /\ commits[t] = 1 /\ run[PlanOf(t)].n = 1 => observed[t]

\* Fencing tokens count up, and the newest one belongs to the lease's owner.
Fenced(t) ==
    LET d == DeviceOf[t] IN
    /\ wf[t].token <= dl[d].token /\ intent[t].token <= dl[d].token
    /\ wf[t].token > 0 /\ wf[t].token = dl[d].token => dl[d].by = t
    /\ intent[t].token > 0 /\ intent[t].token = dl[d].token => dl[d].by = t
    /\ dl[d].st = "HELD" => dl[d].token > 0

FlowInv ==
    /\ TypeOK
    /\ \A p \in Plans : Early(p)
    /\ \A t \in Targets : Owned(t) /\ Dated(t) /\ Committed(t) /\ Judged(t) /\ Fenced(t)
    /\ IntentsFenced

LEMMA FlowInvInit == Init => FlowInv
<1> SUFFICES ASSUME Init PROVE FlowInv
  OBVIOUS
<1>1. TypeOK
  BY TypeInit
<1>2. ASSUME NEW p \in Plans PROVE Early(p)
  BY <1>2 DEF Init, Early
<1>3. ASSUME NEW t \in Targets PROVE Owned(t) /\ Dated(t) /\ Committed(t) /\ Judged(t) /\ Fenced(t)
  BY <1>3, PlanOfTarget, FlowAssumption
     DEF Init, Owned, Dated, Committed, Judged, Fenced, NoIntent, Idle, Fresh, NoLease
<1>4. IntentsFenced
  BY DEF Init, IntentsFenced
<1> QED BY <1>1, <1>2, <1>3, <1>4 DEF FlowInv

-----------------------------------------------------------------------------
(* Steps that leave the runs, the intents and the leases alone.            *)

\* Requests that write plan and target rows only.
LEMMA RowsOnly ==
    ASSUME FlowInv, TypeOK', UNCHANGED <<run, wf, intent, dl, commits>>,
           \A p \in Plans : Early(p)',
           \A t \in Targets : observed[t] => observed'[t],
           \A t \in Targets : tstate'[t] = "FAILED" /\ commits[t] = 1 /\ run[PlanOf(t)].n = 1
                                  => tstate[t] = "FAILED" \/ observed'[t],
           \A t \in Targets : wf[t].pc = "commit" => tstate'[t] \in {tstate[t], "CANCELED"}
    PROVE  FlowInv'
<1>1. ASSUME NEW t \in Targets PROVE (Owned(t) /\ Dated(t) /\ Committed(t) /\ Judged(t) /\ Fenced(t))'
  <2>1. Owned(t) /\ Dated(t) /\ Committed(t) /\ Judged(t) /\ Fenced(t)
    BY DEF FlowInv
  <2> QED BY <2>1 DEF Owned, Listed, Dated, Passed, Committed, Judged, ErrorState, Fenced
<1>2. IntentsFenced'
  BY DEF FlowInv, IntentsFenced
<1> QED BY <1>1, <1>2 DEF FlowInv

\* A child goes from one of its steps to another.
LEMMA ChildGoes ==
    ASSUME FlowInv, TypeOK', NEW t \in Targets,
           UNCHANGED <<pstate, approval, inbox, run, dl, intent, commits, observed>>,
           wf[t].pc # "idle", \A u \in Targets \ {t} : wf'[u] = wf[u] /\ tstate'[u] = tstate[u],
           wf'[t].pc \notin {"idle", "commit", "settle"},
           wf'[t].token = wf[t].token, wf'[t].intent = wf[t].intent,
           wf'[t].pc = "error" => wf'[t].final = ErrorState(t),
           wf[t].pc \in Late => wf'[t].pc \in Late,
           \A u \in Targets : tstate'[u] = "FAILED" /\ commits[u] = 1 /\ run[PlanOf(u)].n = 1
                                  => tstate[u] = "FAILED" \/ observed[u]
    PROVE  FlowInv'
<1>1. ASSUME NEW u \in Targets PROVE (Owned(u) /\ Dated(u) /\ Committed(u) /\ Judged(u) /\ Fenced(u))'
  <2>1. Owned(u) /\ Dated(u) /\ Committed(u) /\ Judged(u) /\ Fenced(u)
    BY DEF FlowInv
  <2>2. Owned(u)' /\ Committed(u)' /\ Fenced(u)'
    BY <2>1 DEF Owned, Listed, Committed, Fenced
  <2>3. Dated(u)'
    BY <2>1 DEF Dated, Passed
  <2>4. Judged(u)'
    BY <2>1 DEF Judged, ErrorState
  <2> QED BY <2>2, <2>3, <2>4
<1>2. ASSUME NEW p \in Plans PROVE Early(p)'
  BY <1>2 DEF FlowInv, Early
<1>3. IntentsFenced'
  BY DEF FlowInv, IntentsFenced
<1> QED BY <1>1, <1>2, <1>3 DEF FlowInv

\* A child ends: the plan's workflow passes its target.
LEMMA ChildEnds ==
    ASSUME FlowInv, TypeOK', NEW t \in Targets, NEW r \in BOOLEAN, FinishTarget(t, r),
           wf[t].pc # "idle",
           UNCHANGED <<planVars, rowVars, history>>,
           dl' = dl \/ dl' = [dl EXCEPT ![DeviceOf[t]].st = "ENDED"]
    PROVE  FlowInv'
<1> DEFINE p == PlanOf(t)
<1>0. /\ run[p].st = "running" /\ Listed(t) /\ run' = [run EXCEPT ![p] = AfterChild(p, r)]
      /\ wf' = [wf EXCEPT ![t] = Idle] /\ p \in Plans
  BY PlanOfTarget DEF FlowInv, Owned, FinishTarget
<1>1. /\ run'[p].n = run[p].n /\ run'[p].next = run[p].next + 1 /\ run[p].next \in Nat
      /\ run'[p].st \in {"running", "completed", "failed"}
      /\ \A q \in Plans \ {p} : run'[q] = run[q]
  BY <1>0, RunType DEF FlowInv, AfterChild, Runs
<1>2. ASSUME NEW u \in Targets PROVE (Owned(u) /\ Dated(u) /\ Committed(u) /\ Judged(u) /\ Fenced(u))'
  <2>1. Owned(u) /\ Dated(u) /\ Committed(u) /\ Judged(u) /\ Fenced(u) /\ PlanOf(u) \in Plans
    BY PlanOfTarget DEF FlowInv
  <2>2. wf'[t].pc = "idle" /\ wf'[t].token = 0 /\ (u # t => wf'[u] = wf[u])
    BY <1>0, WfType DEF FlowInv, Idle, Fresh
  <2>3. Owned(u)'
    <3>1. CASE PlanOf(u) # p
      BY <1>1, <2>1, <2>2, <3>1 DEF Owned, Listed
    <3>2. CASE PlanOf(u) = p /\ u # t
      BY <1>0, <2>1, <2>2, <3>2 DEF Owned, Listed
    <3> QED BY <2>2, <3>1, <3>2 DEF Owned
  <2>4. Dated(u)'
    <3>1. intent' = intent
      BY DEF rowVars
    <3>2. CASE PlanOf(u) # p
      BY <1>1, <2>1, <2>2, <3>1, <3>2 DEF Dated, Passed
    <3>3. CASE PlanOf(u) = p /\ u # t
      BY <1>0, <1>1, <2>1, <2>2, <3>1, <3>3, OrderType, FlowAssumption DEF Dated, Passed
    <3>4. CASE u = t
      <4>1. Passed(t)'
        BY <1>0, <1>1 DEF Listed, Passed
      <4> QED BY <1>1, <2>1, <3>1, <3>4, <4>1 DEF Dated
    <3> QED BY <3>2, <3>3, <3>4
  <2>5. Committed(u)'
    BY <2>1, <2>2 DEF Committed, rowVars, history
  <2>6. Judged(u)'
    <3>1. run'[PlanOf(u)].n = run[PlanOf(u)].n
      BY <1>1, <2>1
    <3> QED BY <2>1, <2>2, <3>1 DEF Judged, ErrorState, rowVars, history
  <2>7. Fenced(u)'
    <3>1. /\ dl'[DeviceOf[u]].token = dl[DeviceOf[u]].token /\ dl'[DeviceOf[u]].by = dl[DeviceOf[u]].by
          /\ dl'[DeviceOf[u]].st = "HELD" => dl[DeviceOf[u]].st = "HELD"
      <4>1. CASE dl' = [dl EXCEPT ![DeviceOf[t]].st = "ENDED"]
        BY <4>1, LeaseType, FlowAssumption DEF FlowInv, LeaseRows
      <4> QED BY <4>1
    <3>2. wf[u].token \in Nat /\ dl[DeviceOf[u]].token \in Nat
      BY WfRecord, LeaseType, FlowAssumption DEF FlowInv, LeaseRows
    <3> QED BY <2>1, <2>2, <3>1, <3>2 DEF Fenced, rowVars
  <2> QED BY <2>3, <2>4, <2>5, <2>6, <2>7
<1>3. ASSUME NEW q \in Plans PROVE Early(q)'
  <2>1. Early(q) /\ Early(p)
    BY <1>0 DEF FlowInv
  <2> QED BY <1>0, <1>1, <2>1 DEF Early, planVars
<1>4. IntentsFenced'
  BY DEF FlowInv, IntentsFenced, rowVars
<1> QED BY <1>2, <1>3, <1>4 DEF FlowInv

-----------------------------------------------------------------------------
(* Requests and the plan's workflow.                                       *)

\* Before the first run no child has started.
LEMMA NotStarted ==
    ASSUME FlowInv, NEW p \in Plans, run[p].n = 0, NEW t \in Targets, t \in TargetsOf(p)
    PROVE  PlanOf(t) = p /\ wf[t].pc # "commit" /\ commits[t] # 1
<1>1. PlanOf(t) = p
  BY PlanUnique DEF TargetsOf
<1>2. Owned(t) /\ Dated(t) /\ Committed(t) /\ Early(p) /\ intent[t].evidence \in Nat
  BY RowType DEF FlowInv
<1>3. wf[t].pc # "commit"
  BY <1>1, <1>2 DEF Owned, Early
<1>4. commits[t] # 1
  BY <1>1, <1>2 DEF Dated, Committed
<1> QED BY <1>1, <1>3, <1>4

LEMMA PlanActionsInv ==
    ASSUME FlowInv, TypeOK', NEW p \in Plans,
           \/ CreatePlan(p) \/ SubmitPlan(p) \/ \E a \in BOOLEAN : DecideApproval(p, a)
           \/ CancelRead(p) \/ CancelWrite(p) \/ PauseForAccount(p)
    PROVE  FlowInv'
<1>0. /\ TypeOK /\ (\A q \in Plans : Early(q)) /\ pstate \in [Plans -> TargetStates]
      /\ \A t \in Targets : Committed(t) /\ Dated(t)
  BY RowType DEF FlowInv
<1>1. CASE CreatePlan(p)
  <2>1. ASSUME NEW q \in Plans PROVE Early(q)'
    BY <1>0, <1>1 DEF CreatePlan, Early
  <2> QED BY <1>1, <2>1, RowsOnly DEF CreatePlan, rowVars, history
<1>2. CASE SubmitPlan(p)
  <2>1. ASSUME NEW q \in Plans PROVE Early(q)'
    BY <1>0, <1>2 DEF SubmitPlan, RequiresApproval, Early, TypeOK
  <2>2. \A t \in Targets : tstate'[t] = "FAILED" => tstate[t] = "FAILED"
    BY <1>2 DEF SubmitPlan
  <2>3. ASSUME NEW t \in Targets, wf[t].pc = "commit" PROVE tstate'[t] = tstate[t]
    <3>1. run[p].n = 0
      BY <1>0, <1>2 DEF SubmitPlan, Early
    <3> QED BY <1>2, <2>3, <3>1, NotStarted DEF SubmitPlan
  <2> QED BY <1>2, <2>1, <2>2, <2>3, RowsOnly DEF SubmitPlan, history
<1>3. ASSUME NEW a \in BOOLEAN, DecideApproval(p, a) PROVE FlowInv'
  <2>0. run[p].n = 0
    BY <1>0, <1>3 DEF DecideApproval, Early
  <2>1. ASSUME NEW q \in Plans PROVE Early(q)'
    BY <1>0, <1>3 DEF DecideApproval, Early, TypeOK
  <2>2. ASSUME NEW t \in Targets, tstate'[t] = "FAILED", commits[t] = 1
        PROVE  tstate[t] = "FAILED"
    BY <1>3, <2>0, <2>2, NotStarted DEF DecideApproval
  <2>3. ASSUME NEW t \in Targets, wf[t].pc = "commit" PROVE tstate'[t] = tstate[t]
    BY <1>3, <2>0, <2>3, NotStarted DEF DecideApproval
  <2> QED BY <1>3, <2>1, <2>2, <2>3, RowsOnly DEF DecideApproval, history
<1>4. CASE CancelRead(p)
  <2>1. ASSUME NEW q \in Plans PROVE Early(q)'
    BY <1>0, <1>4 DEF CancelRead, Early
  <2> QED BY <1>4, <2>1, RowsOnly DEF CancelRead, rowVars, history
<1>5. CASE CancelWrite(p)
  <2>1. \A q \in Plans : pstate'[q] = pstate[q] \/ pstate'[q] = "CANCELED"
    BY <1>0, <1>5 DEF CancelWrite
  <2>2. ASSUME NEW q \in Plans PROVE Early(q)'
    BY <1>0, <1>5, <2>1 DEF CancelWrite, Early
  <2>3. \A t \in Targets : /\ tstate'[t] = "FAILED" => tstate[t] = "FAILED"
                            /\ tstate'[t] \in {tstate[t], "CANCELED"}
    BY <1>5 DEF CancelWrite
  <2> QED BY <1>5, <2>2, <2>3, RowsOnly DEF CancelWrite, history
<1>6. CASE PauseForAccount(p)
  <2>1. ASSUME NEW q \in Plans PROVE Early(q)'
    BY <1>0, <1>6 DEF PauseForAccount, Early
  <2> QED BY <1>6, <2>1, RowsOnly DEF PauseForAccount, rowVars, history
<1> QED BY <1>1, <1>2, <1>3, <1>4, <1>5, <1>6

LEMMA StartWorkflowInv ==
    ASSUME FlowInv, TypeOK', NEW p \in Plans, StartWorkflow(p)
    PROVE  FlowInv'
<1>1. /\ run'[p].st = "running" /\ run'[p].n = run[p].n + 1 /\ run'[p].next = 1 /\ run[p].n \in Nat /\ run[p].st # "running"
      /\ inbox[p] /\ \A q \in Plans \ {p} : run'[q] = run[q]
      /\ UNCHANGED <<pstate, approval, inbox, tstate, intent, wf, dl, commits, observed>>
  BY RunType DEF StartWorkflow, FlowInv, Runs, planVars, rowVars, history
<1>2. ASSUME NEW u \in Targets PROVE (Owned(u) /\ Dated(u) /\ Committed(u) /\ Judged(u) /\ Fenced(u))'
  <2>1. Owned(u) /\ Dated(u) /\ Committed(u) /\ Judged(u) /\ Fenced(u) /\ PlanOf(u) \in Plans
        /\ intent[u].evidence \in Nat
    BY PlanOfTarget, RowType DEF FlowInv
  <2>2. Owned(u)' /\ Dated(u)'
    <3>1. CASE PlanOf(u) # p
      BY <1>1, <2>1, <3>1 DEF Owned, Listed, Dated, Passed
    <3>2. CASE PlanOf(u) = p
      BY <1>1, <2>1, <3>2 DEF Owned, Dated
    <3> QED BY <3>1, <3>2
  <2>3. Committed(u)' /\ Fenced(u)'
    BY <1>1, <2>1 DEF Committed, Fenced
  <2>4. Judged(u)'
    <3>1. CASE PlanOf(u) # p
      BY <1>1, <2>1, <3>1 DEF Judged, ErrorState
    <3>2. CASE PlanOf(u) = p
      <4>1. run'[p].n = 1 => commits[u] = 0
        BY <1>1, <2>1, <3>2 DEF Dated, Committed
      <4> QED BY <1>1, <2>1, <3>2, <4>1 DEF Judged, ErrorState
    <3> QED BY <3>1, <3>2
  <2> QED BY <2>2, <2>3, <2>4
<1>3. ASSUME NEW q \in Plans PROVE Early(q)'
  <2>1. Early(q) /\ Early(p)
    BY DEF FlowInv
  <2> QED BY <1>1, <2>1 DEF Early
<1>4. IntentsFenced'
  BY <1>1 DEF FlowInv, IntentsFenced
<1> QED BY <1>2, <1>3, <1>4 DEF FlowInv

LEMMA StartTargetInv ==
    ASSUME FlowInv, TypeOK', NEW p \in Plans, StartTarget(p)
    PROVE  FlowInv'
<1>0. TypeOK
  BY DEF FlowInv
<1>1. PICK i \in Nat : i = run[p].next
  BY <1>0, RunType DEF Runs
<1>2. run[p].st = "running" /\ i \in DOMAIN Order[p]
  BY <1>1, FlowAssumption DEF StartTarget, FlowInv, Early
<1>3. PICK t \in Targets : t = Order[p][i]
  BY <1>2, OrderType
<1>4. /\ wf[t].pc = "idle" /\ wf' = [wf EXCEPT ![t] = Fresh("validate")]
      /\ UNCHANGED <<pstate, approval, inbox, tstate, intent, run, dl, commits, observed>>
  BY <1>1, <1>3 DEF StartTarget, planVars, rowVars, history
<1>5. PlanOf(t) = p
  BY <1>2, <1>3, PlanUnique
<1>6. wf'[t] = Fresh("validate") /\ \A u \in Targets \ {t} : wf'[u] = wf[u]
  BY <1>0, <1>4, WfType
<1>7. ~Passed(t)
  BY <1>1, <1>2, <1>3, <1>5, TargetRows DEF Passed
<1>8. run[p].n > 0
  BY <1>2 DEF FlowInv, Early
<1>9. ASSUME NEW u \in Targets PROVE (Owned(u) /\ Dated(u) /\ Committed(u) /\ Judged(u) /\ Fenced(u))'
  <2>1. Owned(u) /\ Dated(u) /\ Committed(u) /\ Judged(u) /\ Fenced(u)
    BY DEF FlowInv
  <2>2. CASE u # t
    BY <1>4, <1>6, <2>1, <2>2 DEF Owned, Listed, Dated, Passed, Committed, Judged, ErrorState, Fenced
  <2>3. CASE u = t
    <3>1. ~(intent[t].evidence = run[p].n)
      BY <1>2, <1>4, <1>5, <1>7, <1>8, <2>1, <2>3 DEF Dated, Late
    <3>2. run[p].n = 1 => commits[t] = 0
      BY <1>0, <1>5, <2>1, <2>3, <3>1, RowType DEF Dated, Committed
    <3>3. Owned(t)'
      BY <1>1, <1>2, <1>3, <1>4, <1>5 DEF Owned, Listed
    <3>4. Dated(t)'
      BY <1>4, <1>5, <2>1, <2>3, <3>1 DEF Dated
    <3>5. wf'[t].pc = "validate" /\ wf'[t].token = 0
      BY <1>6 DEF Fresh
    <3>6. Committed(t)' /\ Judged(t)'
      BY <1>4, <1>5, <2>1, <2>3, <3>2, <3>5 DEF Committed, Judged
    <3>7. Fenced(t)'
      <4>1. dl[DeviceOf[t]].token \in Nat
        BY <1>0, LeaseType, FlowAssumption DEF LeaseRows
      <4> QED BY <1>4, <2>1, <2>3, <3>5, <4>1 DEF Fenced
    <3> QED BY <2>3, <3>3, <3>4, <3>6, <3>7
  <2> QED BY <2>2, <2>3
<1>10. ASSUME NEW q \in Plans PROVE Early(q)'
  BY <1>4 DEF FlowInv, Early
<1>11. IntentsFenced'
  BY <1>4 DEF FlowInv, IntentsFenced
<1> QED BY <1>9, <1>10, <1>11 DEF FlowInv

-----------------------------------------------------------------------------
(* The steps of a target's workflow.                                       *)

LEMMA MarkTargetInv ==
    ASSUME FlowInv, TypeOK', NEW t \in Targets, NEW ok \in BOOLEAN, MarkTarget(t, ok)
    PROVE  FlowInv'
<1>0. TypeOK /\ Judged(t) /\ Committed(t)
  BY DEF FlowInv
<1>1. wf[t].pc \in {"queue", "start", "wait", "reconciling", "cancel", "settle", "error"}
  BY DEF MarkTarget, After
<1>2. UNCHANGED <<pstate, approval, inbox, run, dl, intent, commits, observed>>
  BY DEF MarkTarget, planVars, history
<1>3. \A u \in Targets : tstate'[u] = "FAILED" /\ commits[u] = 1 /\ run[PlanOf(u)].n = 1
                              => tstate[u] = "FAILED" \/ observed[u]
  <2>1. \A u \in Targets \ {t} : tstate'[u] = tstate[u]
    BY <1>0, RowType DEF MarkTarget, UpdateTargetState
  <2>2. tstate'[t] = Wanted(t)
    BY <1>0, RowType DEF MarkTarget, UpdateTargetState
  <2>3. Wanted(t) = "FAILED" => wf[t].pc \in {"settle", "error"}
    BY <1>1 DEF Wanted, Marks
  <2>4. CASE wf[t].pc = "error"
    <3>1. Wanted(t) = wf[t].final
      BY <2>4 DEF Wanted, Marks
    <3> QED BY <1>0, <2>1, <2>2, <2>4, <3>1 DEF Judged, ErrorState
  <2>5. CASE wf[t].pc = "settle"
    BY <1>0, <2>1, <2>5 DEF Judged
  <2> QED BY <2>1, <2>2, <2>3, <2>4, <2>5
<1>3a. \A u \in Targets \ {t} : tstate'[u] = tstate[u]
  BY <1>0, RowType DEF MarkTarget, UpdateTargetState
<1>4. CASE Goto(t, After[wf[t].pc])
  <2>1. wf'[t].pc = After[wf[t].pc] /\ wf'[t].token = wf[t].token /\ wf'[t].intent = wf[t].intent
        /\ \A u \in Targets \ {t} : wf'[u] = wf[u]
    BY <1>0, <1>4, WfType DEF Goto, WfRecords
  <2>2. /\ After[wf[t].pc] \in {"acquire", "preflight", "confirm", "reconcile", "cleanup"}
        /\ wf[t].pc \in Late => After[wf[t].pc] \in Late
    BY <1>1 DEF After, Late
  <2> QED BY <1>1, <1>2, <1>3, <1>3a, <2>1, <2>2, ChildGoes
<1>5. CASE wf' = [wf EXCEPT ![t] = GiveUp(t)] \/ Except(t)
  <2>1. /\ wf'[t].pc \in {"cleanup", "error"} /\ wf'[t].token = wf[t].token /\ wf'[t].intent = wf[t].intent
        /\ wf'[t].pc = "error" => wf'[t].final = ErrorState(t)
        /\ \A u \in Targets \ {t} : wf'[u] = wf[u]
    BY <1>0, <1>5, WfType, ZenonT(60) DEF GiveUp, Except, WfRecords
  <2> QED BY <1>1, <1>2, <1>3, <1>3a, <2>1, ChildGoes DEF Late
<1> QED BY <1>4, <1>5 DEF MarkTarget

\* Steps that read, wait or fail.
LEMMA PlainStepsInv ==
    ASSUME FlowInv, TypeOK', NEW t \in Targets, ReadStep(t) \/ Confirmed(t) \/ ActivityFails(t)
    PROVE  FlowInv'
<1>0. TypeOK
  BY DEF FlowInv
<1>1. UNCHANGED <<pstate, approval, inbox, tstate, run, dl, intent, commits, observed>>
  BY DEF ReadStep, Confirmed, ActivityFails, planVars, rowVars, history
<1>2. CASE ReadStep(t) \/ Confirmed(t)
  <2>1. PICK s \in {"cancel", "queue", "prepare", "wait", "intent"} : Goto(t, s)
    BY <1>2 DEF ReadStep, Confirmed, SafePoint
  <2>2. wf'[t].pc = s /\ wf'[t].token = wf[t].token /\ wf'[t].intent = wf[t].intent
        /\ \A u \in Targets \ {t} : wf'[u] = wf[u]
    BY <1>0, <2>1, WfType DEF Goto, WfRecords
  <2>3. wf[t].pc \in {"validate", "preflight", "prepare", "confirm"}
    BY <1>2 DEF ReadStep, Confirmed
  <2> QED BY <1>1, <2>2, <2>3, ChildGoes DEF Late
<1>3. CASE ActivityFails(t)
  <2>1. wf' = [wf EXCEPT ![t] = GiveUp(t)] \/ Except(t)
    BY <1>3 DEF ActivityFails
  <2>2. /\ wf'[t].pc \in {"cleanup", "error"} /\ wf'[t].token = wf[t].token /\ wf'[t].intent = wf[t].intent
        /\ wf'[t].pc = "error" => wf'[t].final = ErrorState(t)
        /\ \A u \in Targets \ {t} : wf'[u] = wf[u]
    BY <1>0, <2>1, WfType, ZenonT(60) DEF GiveUp, Except, WfRecords
  <2>3. wf[t].pc # "idle"
    BY <1>3 DEF ActivityFails, TrySteps
  <2> QED BY <1>1, <2>2, <2>3, ChildGoes DEF Late
<1> QED BY <1>2, <1>3

\* The token of a new lease is newer than every token in use.
LEMMA AcquireInv ==
    ASSUME FlowInv, TypeOK', NEW t \in Targets, NEW ok \in BOOLEAN, AcquireDeviceLease(t, ok)
    PROVE  FlowInv'
<1> DEFINE d == DeviceOf[t]
<1>0. TypeOK /\ d \in Devices /\ wf[t].pc = "acquire"
  BY FlowAssumption DEF FlowInv, AcquireDeviceLease
<1>1. UNCHANGED <<pstate, approval, inbox, tstate, run, intent, commits, observed>>
  BY DEF AcquireDeviceLease, planVars, rowVars, history
<1>2. /\ dl'[d].st = "HELD" /\ dl'[d].by = t
      /\ \/ dl'[d].token = dl[d].token /\ dl[d].by = t /\ dl[d].st = "HELD"
         \/ dl'[d].token = dl[d].token + 1
      /\ \A e \in Devices \ {d} : dl'[e] = dl[e]
  <2>1. CASE dl[d].st = "HELD" /\ dl[d].by = t /\ UNCHANGED dl
    BY <2>1
  <2>2. CASE dl' = [dl EXCEPT ![d] = [token |-> NextToken(d), by |-> t, st |-> "HELD"]]
    <3>1. dl'[d] = [token |-> NextToken(d), by |-> t, st |-> "HELD"] /\ \A e \in Devices \ {d} : dl'[e] = dl[e]
      BY <1>0, <2>2, LeaseType
    <3> QED BY <3>1 DEF NextToken
  <2> QED BY <2>1, <2>2 DEF AcquireDeviceLease, AcquireLease
<1>3. /\ wf'[t].pc \in {"start", "error"} /\ wf'[t].intent = wf[t].intent
      /\ wf'[t].token = wf[t].token \/ wf'[t].token = dl'[d].token
      /\ wf'[t].pc = "error" => wf'[t].final = ErrorState(t)
      /\ \A u \in Targets \ {t} : wf'[u] = wf[u]
  <2>1. CASE Except(t)
    BY <1>0, <2>1, WfType DEF Except, WfRecords
  <2>2. CASE wf' = [wf EXCEPT ![t].pc = "start", ![t].token = dl'[d].token]
    BY <1>0, <2>2, WfType DEF WfRecords
  <2> QED BY <2>1, <2>2 DEF AcquireDeviceLease
<1>4. ASSUME NEW u \in Targets PROVE (Owned(u) /\ Dated(u) /\ Committed(u) /\ Judged(u) /\ Fenced(u))'
  <2>1. Owned(u) /\ Dated(u) /\ Committed(u) /\ Judged(u) /\ Fenced(u)
    BY DEF FlowInv
  <2>2. Owned(u)' /\ Committed(u)'
    BY <1>0, <1>1, <1>3, <2>1 DEF Owned, Listed, Committed
  <2>3. Dated(u)'
    BY <1>0, <1>1, <1>3, <2>1 DEF Dated, Passed, Late
  <2>4. Judged(u)'
    BY <1>0, <1>1, <1>3, <2>1 DEF Judged, ErrorState
  <2>5. Fenced(u)'
    <3>1. /\ wf[u].token \in Nat /\ intent[u].token \in Nat /\ dl[DeviceOf[u]].token \in Nat
          /\ DeviceOf[u] \in Devices
      BY <1>0, WfRecord, RowType, LeaseType, FlowAssumption DEF LeaseRows
    <3>2. CASE DeviceOf[u] # d
      BY <1>1, <1>2, <1>3, <2>1, <3>1, <3>2 DEF Fenced
    <3>3. CASE DeviceOf[u] = d /\ u # t
      BY <1>1, <1>2, <1>3, <2>1, <3>1, <3>3 DEF Fenced
    <3>4. CASE u = t
      BY <1>1, <1>2, <1>3, <2>1, <3>1, <3>4 DEF Fenced
    <3> QED BY <3>2, <3>3, <3>4
  <2> QED BY <2>2, <2>3, <2>4, <2>5
<1>5. ASSUME NEW q \in Plans PROVE Early(q)'
  BY <1>1 DEF FlowInv, Early
<1>6. IntentsFenced'
  BY <1>1 DEF FlowInv, IntentsFenced
<1> QED BY <1>4, <1>5, <1>6 DEF FlowInv

\* The intent is written once, with the token of the lease in force.
LEMMA WriteIntentInv ==
    ASSUME FlowInv, TypeOK', NEW t \in Targets, NEW ok \in BOOLEAN, WriteCommitIntent(t, ok)
    PROVE  FlowInv'
<1> DEFINE d == DeviceOf[t]
           p == PlanOf(t)
<1>0. /\ TypeOK /\ d \in Devices /\ p \in Plans /\ wf[t].pc = "intent"
      /\ Owned(t) /\ Dated(t) /\ Committed(t) /\ Fenced(t) /\ Judged(t)
  BY FlowAssumption, PlanOfTarget DEF FlowInv, WriteCommitIntent
<1>1. UNCHANGED <<pstate, approval, inbox, run, dl, commits, observed>>
  BY DEF WriteCommitIntent, planVars, history
<1>2. /\ run[p].st = "running" /\ run[p].n \in Nat /\ run[p].n > 0 /\ ~Passed(t)
      /\ wf[t].token \in Nat /\ intent[t].evidence \in Nat
  <2>1. run[p].st = "running" /\ Listed(t)
    BY <1>0 DEF Owned
  <2>2. ~Passed(t)
    <3>1. run[p].next \in Nat
      BY <1>0, RunType DEF Runs
    <3>2. ASSUME NEW i \in DOMAIN Order[p], i < run[p].next, Order[p][i] = t PROVE FALSE
      <4>1. i = run[p].next
        BY <1>0, <2>1, <3>2, TargetRows DEF Listed
      <4> QED BY <3>1, <3>2, <4>1
    <3> QED BY <3>2 DEF Passed
  <2>3. run[p].n > 0
    BY <1>0, <2>1 DEF FlowInv, Early
  <2> QED BY <1>0, <2>1, <2>2, <2>3, RunType, RowType, WfRecord DEF Runs
<1>3. intent[t].evidence # run[p].n
  BY <1>0, <1>2 DEF Dated, Late
<1>4. intent[t] # [token |-> wf[t].token, evidence |-> run[p].n]
  BY <1>3
<1>5. /\ intent[t] = NoIntent /\ dl[d].st = "HELD" /\ dl[d].token = wf[t].token
      /\ intent' = [intent EXCEPT ![t] = [token |-> wf[t].token, evidence |-> run[p].n]]
      /\ tstate' = [tstate EXCEPT ![t] = "COMMITTING"]
  BY <1>4 DEF WriteCommitIntent, CreateCommitIntent
<1>6. /\ intent'[t].token = wf[t].token /\ intent'[t].evidence = run[p].n
      /\ \A u \in Targets \ {t} : intent'[u] = intent[u] /\ tstate'[u] = tstate[u]
      /\ tstate'[t] = "COMMITTING"
  BY <1>0, <1>5, RowType
<1>7. dl[d].token > 0 /\ dl[d].by = t
  BY <1>0, <1>2, <1>5 DEF Fenced
<1>8. /\ wf'[t].pc \in {"commit", "error"} /\ wf'[t].token = wf[t].token
      /\ wf'[t].pc = "commit" => wf'[t].intent
      /\ wf'[t].pc = "error" => wf'[t].final = ErrorState(t) /\ wf'[t].intent = wf[t].intent
      /\ \A u \in Targets \ {t} : wf'[u] = wf[u]
  <2>1. CASE Except(t)
    BY <1>0, <2>1, WfType DEF Except, WfRecords
  <2>2. CASE wf' = [wf EXCEPT ![t].pc = "commit", ![t].intent = TRUE]
    BY <1>0, <2>2, WfType DEF WfRecords
  <2> QED BY <2>1, <2>2 DEF WriteCommitIntent
<1>9. commits[t] = 0
  BY <1>0, <1>5 DEF Committed
<1>10. intent'[t] # NoIntent
  BY <1>2, <1>6 DEF NoIntent
<1>11. ASSUME NEW u \in Targets PROVE (Owned(u) /\ Dated(u) /\ Committed(u) /\ Judged(u) /\ Fenced(u))'
  <2>1. Owned(u) /\ Dated(u) /\ Committed(u) /\ Judged(u) /\ Fenced(u)
    BY DEF FlowInv
  <2>2. CASE u # t
    BY <1>1, <1>6, <1>8, <2>1, <2>2 DEF Owned, Listed, Dated, Passed, Committed, Judged, ErrorState, Fenced
  <2>3. CASE u = t
    <3>1. Owned(t)' /\ Committed(t)' /\ Judged(t)'
      BY <1>0, <1>1, <1>6, <1>8, <1>9, <1>10 DEF Owned, Listed, Committed, Judged, ErrorState
    <3>2. Dated(t)'
      BY <1>1, <1>2, <1>5, <1>6, <1>7, <1>8 DEF Dated, Late
    <3>3. Fenced(t)'
      BY <1>0, <1>1, <1>5, <1>6, <1>7, <1>8 DEF Fenced
    <3> QED BY <2>3, <3>1, <3>2, <3>3
  <2> QED BY <2>2, <2>3
<1>12. ASSUME NEW q \in Plans PROVE Early(q)'
  BY <1>1 DEF FlowInv, Early
<1>13. IntentsFenced'
  <2>1. ASSUME NEW u \in Targets \ {t}, DeviceOf[u] = d, intent[u] # NoIntent
        PROVE  intent[u].token # wf[t].token
    BY <1>5, <1>7, <2>1 DEF FlowInv, Fenced, Dated
  <2> QED BY <1>6, <2>1 DEF FlowInv, IntentsFenced
<1> QED BY <1>11, <1>12, <1>13 DEF FlowInv

\* The commit call goes out; it is not tried again.
LEMMA CommitInv ==
    ASSUME FlowInv, TypeOK', NEW t \in Targets, NEW ok \in BOOLEAN, CommitOnce(t, ok)
    PROVE  FlowInv'
<1>0. TypeOK /\ wf[t].pc = "commit" /\ Committed(t)
  BY DEF FlowInv, CommitOnce
<1>1. UNCHANGED <<pstate, approval, inbox, tstate, run, dl, intent, observed>>
  BY DEF CommitOnce, planVars, rowVars
<1>2. /\ wf'[t].pc = "reconciling" /\ wf'[t].token = wf[t].token /\ wf'[t].intent = wf[t].intent
      /\ \A u \in Targets \ {t} : wf'[u] = wf[u]
  <2>1. Goto(t, "reconciling")
    BY DEF CommitOnce, AfterCommit
  <2> QED BY <1>0, <2>1, WfType DEF Goto, WfRecords
<1>3. commits'[t] \in {0, 1} /\ \A u \in Targets \ {t} : commits'[u] = commits[u]
  BY <1>0, RowType DEF CommitOnce, Committed
<1>4. ASSUME NEW u \in Targets PROVE (Owned(u) /\ Dated(u) /\ Committed(u) /\ Judged(u) /\ Fenced(u))'
  <2>1. Owned(u) /\ Dated(u) /\ Committed(u) /\ Judged(u) /\ Fenced(u)
    BY DEF FlowInv
  <2>2. Owned(u)' /\ Fenced(u)'
    BY <1>0, <1>1, <1>2, <2>1 DEF Owned, Listed, Fenced
  <2>3. Dated(u)'
    BY <1>0, <1>1, <1>2, <2>1 DEF Dated, Passed, Late
  <2>4. Committed(u)' /\ Judged(u)'
    BY <1>0, <1>1, <1>2, <1>3, <2>1 DEF Committed, Judged, ErrorState
  <2> QED BY <2>2, <2>3, <2>4
<1>5. ASSUME NEW q \in Plans PROVE Early(q)'
  BY <1>1 DEF FlowInv, Early
<1>6. IntentsFenced'
  BY <1>1 DEF FlowInv, IntentsFenced
<1> QED BY <1>4, <1>5, <1>6 DEF FlowInv

\* A reconciliation names the final state.
LEMMA ReconcileInv ==
    ASSUME FlowInv, TypeOK', NEW t \in Targets, NEW s \in {"SUCCEEDED", "FAILED", "PENDING"},
           ReconcileResult(t, s)
    PROVE  FlowInv'
<1>0. TypeOK /\ wf[t].pc = "reconcile"
  BY DEF FlowInv, ReconcileResult
<1>1. UNCHANGED <<pstate, approval, inbox, tstate, run, dl, intent, commits>>
  BY DEF ReconcileResult, planVars, rowVars
<1>2. /\ wf'[t].pc = "settle" /\ wf'[t].token = wf[t].token /\ wf'[t].intent = wf[t].intent
      /\ \A u \in Targets \ {t} : wf'[u] = wf[u]
  BY <1>0, WfType DEF ReconcileResult, WfRecords
<1>3. observed'[t] /\ \A u \in Targets \ {t} : observed'[u] = observed[u]
  BY <1>0, RowType DEF ReconcileResult
<1>4. ASSUME NEW u \in Targets PROVE (Owned(u) /\ Dated(u) /\ Committed(u) /\ Judged(u) /\ Fenced(u))'
  <2>1. Owned(u) /\ Dated(u) /\ Committed(u) /\ Judged(u) /\ Fenced(u)
    BY DEF FlowInv
  <2>2. Owned(u)' /\ Fenced(u)'
    BY <1>0, <1>1, <1>2, <2>1 DEF Owned, Listed, Fenced
  <2>3. Dated(u)'
    BY <1>0, <1>1, <1>2, <2>1 DEF Dated, Passed, Late
  <2>4. Committed(u)' /\ Judged(u)'
    BY <1>0, <1>1, <1>2, <1>3, <2>1 DEF Committed, Judged, ErrorState
  <2> QED BY <2>2, <2>3, <2>4
<1>5. ASSUME NEW q \in Plans PROVE Early(q)'
  BY <1>1 DEF FlowInv, Early
<1>6. IntentsFenced'
  BY <1>1 DEF FlowInv, IntentsFenced
<1> QED BY <1>4, <1>5, <1>6 DEF FlowInv

\* The finally clause.
LEMMA FinallyInv ==
    ASSUME FlowInv, TypeOK', NEW t \in Targets, NEW fails \in BOOLEAN,
           Cleanup(t, fails) \/ ReleaseDeviceLease(t, fails)
    PROVE  FlowInv'
<1>0. TypeOK /\ wf[t].pc \in {"cleanup", "release"} /\ wf[t].raised \in BOOLEAN
  BY WfRecord DEF FlowInv, Cleanup, ReleaseDeviceLease
<1>1. CASE Cleanup(t, fails) /\ ~fails /\ wf[t].token # 0
  <2>1. Goto(t, "release") /\ UNCHANGED <<planVars, rowVars, run, signal, dl, history>>
    BY <1>1 DEF Cleanup
  <2>2. wf'[t].pc = "release" /\ wf'[t].token = wf[t].token /\ wf'[t].intent = wf[t].intent
        /\ \A u \in Targets \ {t} : wf'[u] = wf[u]
    BY <1>0, <2>1, WfType DEF Goto, WfRecords
  <2> QED BY <1>0, <2>1, <2>2, ChildGoes DEF Late, planVars, rowVars, history
<1>2. CASE Cleanup(t, fails) /\ ~(~fails /\ wf[t].token # 0)
  <2>1. PICK r \in BOOLEAN : FinishTarget(t, r)
    BY <1>0, <1>2 DEF Cleanup
  <2>2. UNCHANGED <<planVars, rowVars, dl, history>>
    BY <1>2 DEF Cleanup
  <2> QED BY <1>0, <2>1, <2>2, ChildEnds
<1>3. CASE ReleaseDeviceLease(t, fails)
  <2>1. PICK r \in BOOLEAN : FinishTarget(t, r)
    BY <1>0, <1>3 DEF ReleaseDeviceLease
  <2>2. UNCHANGED <<planVars, rowVars, history>> /\ (dl' = dl \/ dl' = [dl EXCEPT ![DeviceOf[t]].st = "ENDED"])
    BY <1>3 DEF ReleaseDeviceLease, ReleaseLease
  <2> QED BY <1>0, <2>1, <2>2, ChildEnds
<1> QED BY <1>1, <1>2, <1>3

LEMMA ExpiryInv ==
    ASSUME FlowInv, TypeOK', NEW d \in Devices, LeaseExpires(d)
    PROVE  FlowInv'
<1>1. UNCHANGED <<pstate, approval, inbox, tstate, intent, run, wf, commits, observed>>
  BY DEF LeaseExpires, planVars, rowVars, history
<1>2. \A e \in Devices : /\ dl'[e].token = dl[e].token /\ dl'[e].by = dl[e].by
                         /\ dl'[e].st = "HELD" => dl[e].st = "HELD"
  <2>1. dl' = [dl EXCEPT ![d].st = "ENDED"]
    BY DEF LeaseExpires
  <2> QED BY <2>1, LeaseType DEF FlowInv, LeaseRows
<1>3. ASSUME NEW u \in Targets PROVE (Owned(u) /\ Dated(u) /\ Committed(u) /\ Judged(u) /\ Fenced(u))'
  <2>1. Owned(u) /\ Dated(u) /\ Committed(u) /\ Judged(u) /\ Fenced(u) /\ DeviceOf[u] \in Devices
    BY FlowAssumption DEF FlowInv
  <2>2. Owned(u)' /\ Dated(u)' /\ Committed(u)' /\ Judged(u)'
    BY <1>1, <2>1 DEF Owned, Listed, Dated, Passed, Committed, Judged, ErrorState
  <2>3. Fenced(u)'
    <3>1. PICK e \in Devices : e = DeviceOf[u]
      BY <2>1
    <3>2. /\ dl'[e].token = dl[e].token /\ dl'[e].by = dl[e].by
          /\ dl'[e].st = "HELD" => dl[e].st = "HELD"
      BY <1>2
    <3>3. wf' = wf /\ intent' = intent
      BY <1>1
    <3> QED BY <2>1, <3>1, <3>2, <3>3 DEF Fenced
  <2> QED BY <2>2, <2>3
<1>4. ASSUME NEW q \in Plans PROVE Early(q)'
  BY <1>1 DEF FlowInv, Early
<1>5. IntentsFenced'
  BY <1>1 DEF FlowInv, IntentsFenced
<1> QED BY <1>3, <1>4, <1>5 DEF FlowInv

LEMMA ByHandInv ==
    ASSUME FlowInv, TypeOK', NEW t \in Targets, NEW s \in {"SUCCEEDED", "FAILED"}, ReconcileByHand(t, s)
    PROVE  FlowInv'
<1>0. TypeOK /\ Committed(t) /\ tstate[t] = "UNKNOWN"
  BY DEF FlowInv, ReconcileByHand
<1>1. UNCHANGED <<pstate, approval, inbox, intent, run, wf, dl, commits>>
  BY DEF ReconcileByHand, planVars
<1>2. observed'[t] /\ \A u \in Targets \ {t} : observed'[u] = observed[u] /\ tstate'[u] = tstate[u]
  BY <1>0, RowType DEF ReconcileByHand, UpdateTargetState
<1>3. wf[t].pc # "commit"
  BY <1>0 DEF Committed
<1>4. ASSUME NEW q \in Plans PROVE Early(q)'
  BY <1>1 DEF FlowInv, Early
<1> QED BY <1>1, <1>2, <1>3, <1>4, RowsOnly

-----------------------------------------------------------------------------
LEMMA FlowInvStep == FlowInv /\ [Next]_vars => FlowInv'
<1> SUFFICES ASSUME FlowInv, [Next]_vars PROVE FlowInv'
  OBVIOUS
<1>0. TypeOK'
  BY TypeStep DEF FlowInv
<1>1. ASSUME NEW t \in Targets, TargetStep(t) \/ Confirmed(t) PROVE FlowInv'
  BY <1>0, <1>1, PlainStepsInv, MarkTargetInv, AcquireInv, WriteIntentInv, CommitInv, ReconcileInv,
     FinallyInv DEF TargetStep
<1>2. ASSUME NEW t \in Targets, RequestCancel(t) PROVE FlowInv'
  <2>1. UNCHANGED <<pstate, approval, inbox, tstate, intent, run, wf, dl, commits, observed>>
    BY <1>2 DEF RequestCancel, planVars, rowVars, history
  <2>2. ASSUME NEW q \in Plans PROVE Early(q)'
    BY <2>1 DEF FlowInv, Early
  <2> QED BY <1>0, <2>1, <2>2, RowsOnly
<1>3. CASE UNCHANGED vars
  <2>1. UNCHANGED <<pstate, approval, inbox, tstate, intent, run, wf, dl, commits, observed>>
    BY <1>3 DEF vars, planVars, rowVars, history
  <2>2. ASSUME NEW q \in Plans PROVE Early(q)'
    BY <2>1 DEF FlowInv, Early
  <2> QED BY <1>0, <2>1, <2>2, RowsOnly
<1> QED BY <1>0, <1>1, <1>2, <1>3, PlanActionsInv, StartWorkflowInv, StartTargetInv, ExpiryInv, ByHandInv
        DEF Next

\* The inductive invariant holds of every behaviour.
THEOREM FlowInvariant == Spec => []FlowInv
BY FlowInvInit, FlowInvStep, PTL DEF Spec

LEMMA FlowInvSafe == FlowInv => CommitSafe
<1> SUFFICES ASSUME FlowInv PROVE CommitSafe
  OBVIOUS
<1>1. ASSUME NEW t \in Targets
      PROVE  /\ Committed(t) /\ Dated(t) /\ Judged(t) /\ intent[t].evidence \in Nat
             /\ PlanOf(t) \in Plans /\ run[PlanOf(t)].n \in Nat
  BY PlanOfTarget, RowType, RunType DEF FlowInv, Runs
<1>2. CommitAtMostOnce
  BY <1>1 DEF CommitAtMostOnce, Committed
<1>3. FailedNotCommittedOnce
  BY <1>1 DEF FailedNotCommittedOnce, Committed, Judged
<1>4. ASSUME NEW p \in Approval, NEW t \in TargetsOf(p), commits[t] > 0
      PROVE  approval[p] = "APPROVED"
  <2>1. p \in Plans /\ t \in Targets /\ PlanOf(t) = p
    BY FlowAssumption, OrderType, PlanUnique DEF TargetsOf
  <2>2. run[p].n > 0
    BY <1>1, <1>4, <2>1 DEF Committed, Dated
  <2> QED BY <2>1, <2>2 DEF FlowInv, Early
<1> QED BY <1>2, <1>3, <1>4 DEF FlowInv, CommitSafe, ApprovedBeforeCommit

\* Every target is committed at most once, after its intent, with a fencing
\* token of its own, after the approval, and in the first run no commit is
\* recorded as a failure unobserved, whatever is redelivered, retried,
\* cancelled or lost.
THEOREM CommitSafeCorrect == Spec => []CommitSafe
BY FlowInvariant, FlowInvSafe, PTL
=============================================================================
