------------------------ MODULE OperationTaskProofs ------------------------
(***************************************************************************)
(* The safety properties of OperationTask, for every number of items,      *)
(* every set of concurrent publish() invocations and any number of faults. *)
(***************************************************************************)
EXTENDS OperationTask, TLAPS

\* What the status says of the approval and of the events written so far.
StatusHistory ==
    /\ status = "NONE" =>
         /\ emitted = {} /\ decision = "NONE"
         /\ \A i \in Items : item[i] = "QUEUED"
         /\ \A w \in Workers : run[w].phase = "IDLE"
    /\ status = "PENDING_APPROVAL" =>
         /\ risky /\ decision = "NONE" /\ emitted = {"created"}
         /\ \A i \in Items : item[i] = "QUEUED"
         /\ \A w \in Workers : run[w].phase \in {"IDLE", "READ"}
    /\ status \in {"QUEUED", "RUNNING"} /\ risky => decision = "APPROVED"
    /\ acked \subseteq emitted

\* A publish() carries an event of the outbox, and every item it has passed
\* is settled: when its list is empty, so is the task.
Progress ==
    \A w \in Workers :
        /\ run[w].phase # "IDLE" => run[w].ev \in emitted
        /\ run[w].phase \in {"LOOP", "EXEC"} =>
             \A i \in Items \ run[w].todo : item[i] \in TERMINAL_ITEM_STATES

\* The inductive invariant.
IInv ==
    /\ TypeOK
    /\ StatusFollowsItems
    /\ NoLostWork
    /\ ApprovedFirst
    /\ StatusHistory
    /\ Progress

States == OPEN_ITEM_STATES \cup TERMINAL_ITEM_STATES

-----------------------------------------------------------------------------
\* A task has at least one item.
LEMMA OneItem == 1 \in Items
  BY OperationAssumption DEF Items

\* _recalculate() ends a task exactly when every item has ended, and calls it
\* a success only if all of them are.
LEMMA RecalculatedFollows ==
  ASSUME NEW its \in [Items -> States]
  PROVE  /\ Recalculated(its) \in TaskStates \ {"NONE", "PENDING_APPROVAL"}
         /\ Recalculated(its) \in TERMINAL_TASK_STATES
              <=> \A i \in Items : its[i] \in TERMINAL_ITEM_STATES
         /\ Recalculated(its) \notin TERMINAL_TASK_STATES => Recalculated(its) = "RUNNING"
         /\ Recalculated(its) = "SUCCEEDED" => \A i \in Items : its[i] = "SUCCEEDED"
<1>1. CASE \E i \in Items : its[i] \in OPEN_ITEM_STATES
  <2>1. Recalculated(its) = "RUNNING"
    BY <1>1 DEF Recalculated, OPEN_ITEM_STATES
  <2> QED
    BY <1>1, <2>1 DEF TaskStates, TERMINAL_TASK_STATES, TERMINAL_ITEM_STATES, Results,
                      OPEN_ITEM_STATES
<1>2. CASE ~ \E i \in Items : its[i] \in OPEN_ITEM_STATES
  <2>1. \A i \in Items : its[i] \in TERMINAL_ITEM_STATES
    BY <1>2 DEF States
  <2>2. Recalculated(its) \in {"SUCCEEDED", "FAILED", "PARTIAL"}
    BY <1>2 DEF Recalculated
  <2>3. Recalculated(its) = "SUCCEEDED" => \A i \in Items : its[i] = "SUCCEEDED"
    BY <1>2 DEF Recalculated
  <2> QED
    BY <2>1, <2>2, <2>3 DEF TaskStates, TERMINAL_TASK_STATES
<1> QED BY <1>1, <1>2

\* Recording a result of an open item of a running task keeps the invariant.
\* Both record_item_result() and _record_result() do it.
LEMMA RecordPreserves ==
  ASSUME IInv, NEW i \in Items, NEW result \in Results,
         Record(i, result), item[i] \in OPEN_ITEM_STATES,
         status \in {"QUEUED", "RUNNING"},
         UNCHANGED <<risky, decision, emitted, acked, faults>>
  PROVE  /\ status' \in TaskStates /\ item' \in [Items -> States]
         /\ StatusFollowsItems' /\ NoLostWork'
         /\ status' \notin {"NONE", "PENDING_APPROVAL"}
         /\ (status' \in {"QUEUED", "RUNNING"} /\ risky' => decision' = "APPROVED")
         /\ \A j \in Items : item[j] \in TERMINAL_ITEM_STATES => item'[j] = item[j]
<1> USE DEF Record
<1>1. item \in [Items -> States] /\ result \in States
  BY DEF IInv, TypeOK, States, TERMINAL_ITEM_STATES
<1>2. item' \in [Items -> States] /\ status' = Recalculated(item')
  BY <1>1
<1>3. /\ status' \in TaskStates \ {"NONE", "PENDING_APPROVAL"}
      /\ status' \in TERMINAL_TASK_STATES
           <=> \A j \in Items : item'[j] \in TERMINAL_ITEM_STATES
      /\ status' \notin TERMINAL_TASK_STATES => status' = "RUNNING"
      /\ status' = "SUCCEEDED" => \A j \in Items : item'[j] = "SUCCEEDED"
  BY <1>2, RecalculatedFollows
<1>4. NoLostWork'
  BY DEF IInv, NoLostWork
<1>5. status' \in {"QUEUED", "RUNNING"} /\ risky' => decision' = "APPROVED"
  BY DEF IInv, StatusHistory
<1>6. \A j \in Items : item[j] \in TERMINAL_ITEM_STATES => item'[j] = item[j]
  BY <1>1 DEF OPEN_ITEM_STATES, TERMINAL_ITEM_STATES, Results
<1> QED
  BY <1>2, <1>3, <1>4, <1>5, <1>6 DEF StatusFollowsItems

\* While a task is not over, neither are all its items: an executor that holds
\* or walks a list never sees it NONE or PENDING_APPROVAL.
LEMMA Walking ==
  ASSUME IInv, NEW w \in Workers, run[w].phase \in {"LOOP", "EXEC"}
  PROVE  status \in {"QUEUED", "RUNNING"} \cup TERMINAL_TASK_STATES
BY DEF IInv, TypeOK, TaskStates, StatusHistory

-----------------------------------------------------------------------------
\* The invariant holds before the task is created.
LEMMA InitInvariant == Init => IInv
<1> SUFFICES ASSUME Init PROVE IInv OBVIOUS
<1> USE DEF Init
<1>1. TypeOK
  BY OperationAssumption DEF TypeOK, TaskStates, OPEN_ITEM_STATES, Runs, Idle, Events, NoEvent
<1>2. StatusFollowsItems
  BY OneItem DEF StatusFollowsItems, TERMINAL_TASK_STATES, TERMINAL_ITEM_STATES, Results
<1>3. NoLostWork /\ ApprovedFirst /\ StatusHistory /\ Progress
  BY DEF NoLostWork, ApprovedFirst, StatusHistory, Progress, Idle
<1> QED BY <1>1, <1>2, <1>3 DEF IInv

\* create_task()
LEMMA CreateTaskPreserves == IInv /\ CreateTask => IInv'
<1> SUFFICES ASSUME IInv, CreateTask PROVE IInv' OBVIOUS
<1> USE DEF IInv, CreateTask
<1>1. TypeOK'
  BY DEF TypeOK, TaskStates, Events
<1>2. StatusFollowsItems'
  BY OneItem DEF StatusFollowsItems, StatusHistory, TERMINAL_TASK_STATES,
                 TERMINAL_ITEM_STATES, Results
<1>3. NoLostWork' /\ StatusHistory'
  BY DEF NoLostWork, StatusHistory, TypeOK
<1>4. ApprovedFirst' /\ Progress'
  BY DEF ApprovedFirst, Progress
<1> QED BY <1>1, <1>2, <1>3, <1>4

\* decide_task(approved=True)
LEMMA ApprovePreserves == IInv /\ Approve => IInv'
<1> SUFFICES ASSUME IInv, Approve PROVE IInv' OBVIOUS
<1> USE DEF IInv, Approve
<1>1. TypeOK'
  BY DEF TypeOK, TaskStates, Events
<1>2. StatusFollowsItems'
  BY DEF StatusFollowsItems, TERMINAL_TASK_STATES
<1>3. NoLostWork' /\ StatusHistory'
  BY DEF NoLostWork, StatusHistory
<1>4. ApprovedFirst' /\ Progress'
  BY DEF ApprovedFirst, Progress
<1> QED BY <1>1, <1>2, <1>3, <1>4

\* decide_task(approved=False)
LEMMA RejectPreserves == IInv /\ Reject => IInv'
<1> SUFFICES ASSUME IInv, Reject PROVE IInv' OBVIOUS
<1> USE DEF IInv, Reject
<1>1. TypeOK'
  BY DEF TypeOK, TaskStates, TERMINAL_TASK_STATES, TERMINAL_ITEM_STATES, Results
<1>2. StatusFollowsItems'
  BY DEF StatusFollowsItems, TERMINAL_TASK_STATES, TERMINAL_ITEM_STATES, Results
<1>3. NoLostWork' /\ StatusHistory'
  BY DEF NoLostWork, StatusHistory
<1>4. ApprovedFirst' /\ Progress'
  BY DEF ApprovedFirst, Progress, StatusHistory, TERMINAL_ITEM_STATES, Results
<1> QED BY <1>1, <1>2, <1>3, <1>4

\* cancel_task()
LEMMA CancelPreserves == IInv /\ CancelTask => IInv'
<1> SUFFICES ASSUME IInv, CancelTask PROVE IInv' OBVIOUS
<1> USE DEF IInv, CancelTask, CanceledItem
<1>0. \A i \in Items : /\ item[i] \in States
                       /\ item'[i] \in TERMINAL_ITEM_STATES
                       /\ item'[i] \in {item[i], "CANCELED"}
  BY DEF TypeOK, States, TERMINAL_ITEM_STATES
<1>1. TypeOK'
  BY <1>0 DEF TypeOK, TaskStates, TERMINAL_TASK_STATES
<1>2. StatusFollowsItems'
  BY <1>0 DEF StatusFollowsItems, TERMINAL_TASK_STATES
<1>3. NoLostWork' /\ StatusHistory'
  BY DEF NoLostWork, StatusHistory
<1>4. ApprovedFirst' /\ Progress'
  BY <1>0 DEF ApprovedFirst, Progress
<1> QED BY <1>1, <1>2, <1>3, <1>4

\* record_item_result()
LEMMA RecordItemResultPreserves ==
  ASSUME IInv, NEW i \in Items, NEW result \in Results, RecordItemResult(i, result)
  PROVE  IInv'
<1> USE DEF RecordItemResult, Recordable
<1>1. status \in {"QUEUED", "RUNNING"}
  BY DEF IInv, TypeOK, TaskStates
<1>2. /\ status' \in TaskStates /\ item' \in [Items -> States]
      /\ StatusFollowsItems' /\ NoLostWork'
      /\ status' \notin {"NONE", "PENDING_APPROVAL"}
      /\ (status' \in {"QUEUED", "RUNNING"} /\ risky' => decision' = "APPROVED")
      /\ \A j \in Items : item[j] \in TERMINAL_ITEM_STATES => item'[j] = item[j]
  BY <1>1, RecordPreserves
<1>3. TypeOK'
  BY <1>2 DEF IInv, TypeOK, States
<1>4. ApprovedFirst'
  BY <1>1 DEF IInv, ApprovedFirst, StatusHistory
<1>5. StatusHistory' /\ Progress'
  BY <1>2 DEF IInv, StatusHistory, Progress
<1> QED BY <1>2, <1>3, <1>4, <1>5 DEF IInv

\* The outbox hands an event to publish().
LEMMA DeliverPreserves ==
  ASSUME IInv, NEW w \in Workers, NEW e \in Events, Deliver(w, e)
  PROVE  IInv'
<1> USE DEF IInv, Deliver, taskVars
<1>1. TypeOK'
  BY DEF TypeOK, Runs
<1>2. StatusFollowsItems' /\ NoLostWork'
  BY DEF StatusFollowsItems, NoLostWork
<1>3. ApprovedFirst' /\ StatusHistory' /\ Progress'
  BY DEF ApprovedFirst, StatusHistory, Progress, TypeOK
<1> QED BY <1>1, <1>2, <1>3

\* publish() that returns acknowledges an event whose work, if any, is done.
LEMMA ReturnPreserves ==
  ASSUME IInv, NEW w \in Workers, run[w].phase # "IDLE", Return(w), UNCHANGED taskVars,
         status \in TERMINAL_TASK_STATES \cup {"PENDING_APPROVAL"}
  PROVE  IInv'
<1> USE DEF IInv, Return, taskVars
<1>0. run[w] \in Runs /\ run[w].ev \in emitted
  BY DEF TypeOK, Progress
<1>1. TypeOK'
  BY <1>0 DEF TypeOK, Runs, Idle
<1>2. StatusFollowsItems' /\ NoLostWork'
  BY DEF StatusFollowsItems, NoLostWork, TERMINAL_TASK_STATES
<1>3. ApprovedFirst' /\ StatusHistory' /\ Progress'
  BY <1>0 DEF ApprovedFirst, StatusHistory, Progress, TypeOK, Idle
<1> QED BY <1>1, <1>2, <1>3

\* publish() finds nothing to do.
LEMMA ReadNothingPreserves ==
  ASSUME IInv, NEW w \in Workers, ReadNothing(w) PROVE IInv'
BY ReturnPreserves DEF ReadNothing

\* publish() reaches the end of its list: the task is over.
LEMMA CompletePreserves ==
  ASSUME IInv, NEW w \in Workers, Complete(w) PROVE IInv'
<1>1. \A i \in Items : item[i] \in TERMINAL_ITEM_STATES
  BY DEF IInv, Progress, Complete
<1>2. status \in TERMINAL_TASK_STATES
  BY <1>1 DEF IInv, StatusFollowsItems
<1> QED BY <1>2, ReturnPreserves DEF Complete

\* publish() takes the list of items.
LEMMA ReadItemsPreserves ==
  ASSUME IInv, NEW w \in Workers, ReadItems(w) PROVE IInv'
<1> USE DEF IInv, ReadItems, taskVars
<1>1. TypeOK'
  BY DEF TypeOK, Runs
<1>2. StatusFollowsItems' /\ NoLostWork'
  BY DEF StatusFollowsItems, NoLostWork
<1>3. ApprovedFirst' /\ StatusHistory' /\ Progress'
  BY DEF ApprovedFirst, StatusHistory, Progress, TypeOK, Runs
<1> QED BY <1>1, <1>2, <1>3

\* _claim_item() starts or restarts an item.
LEMMA ClaimItemPreserves ==
  ASSUME IInv, NEW w \in Workers, NEW i \in Items, ClaimItem(w, i) PROVE IInv'
<1> USE DEF IInv, ClaimItem
<1>0. /\ status \in {"QUEUED", "RUNNING"}
      /\ item[i] \in OPEN_ITEM_STATES
  BY Walking DEF Executable
<1>1. TypeOK'
  BY DEF TypeOK, TaskStates, OPEN_ITEM_STATES, Runs
<1>2. StatusFollowsItems'
  <2>1. item'[i] \notin TERMINAL_ITEM_STATES
    BY DEF TypeOK, TERMINAL_ITEM_STATES, Results
  <2> QED
    BY <2>1 DEF StatusFollowsItems, TERMINAL_TASK_STATES
<1>3. NoLostWork' /\ StatusHistory'
  BY <1>0 DEF NoLostWork, StatusHistory
<1>4. ApprovedFirst'
  BY <1>0 DEF ApprovedFirst, StatusHistory
<1>5. Progress'
  <2>1. item[i] \notin TERMINAL_ITEM_STATES
    BY <1>0 DEF OPEN_ITEM_STATES, TERMINAL_ITEM_STATES, Results
  <2> QED
    BY <2>1 DEF Progress, TypeOK, Runs
<1> QED BY <1>1, <1>2, <1>3, <1>4, <1>5

\* _claim_item() passes an item over: it, or the whole task, is settled.
LEMMA SkipItemPreserves ==
  ASSUME IInv, NEW w \in Workers, NEW i \in Items, SkipItem(w, i) PROVE IInv'
<1> USE DEF IInv, SkipItem, taskVars
<1>0. item[i] \in TERMINAL_ITEM_STATES
  <2>1. CASE status \in TERMINAL_TASK_STATES
    BY <2>1 DEF StatusFollowsItems
  <2>2. CASE status \in {"QUEUED", "RUNNING"}
    BY <2>2 DEF Executable, TypeOK, TERMINAL_TASK_STATES
  <2> QED BY <2>1, <2>2, Walking
<1>1. TypeOK'
  BY DEF TypeOK, Runs
<1>2. StatusFollowsItems' /\ NoLostWork'
  BY DEF StatusFollowsItems, NoLostWork
<1>3. ApprovedFirst' /\ StatusHistory'
  BY DEF ApprovedFirst, StatusHistory, TypeOK, Runs
<1>4. Progress'
  BY <1>0 DEF Progress, TypeOK, Runs
<1> QED BY <1>1, <1>2, <1>3, <1>4

\* _record_result() records an executor's result or discards it.
LEMMA RecordResultPreserves ==
  ASSUME IInv, NEW w \in Workers, NEW i \in Items, NEW result \in Results,
         RecordResult(w, i, result)
  PROVE  IInv'
<1> USE DEF RecordResult
<1>0. run' \in [Workers -> Runs] /\ run[w] \in Runs
  BY DEF IInv, TypeOK, Runs
<1>1. CASE Accepts(i)
  <2>1. status \in {"QUEUED", "RUNNING"}
    BY <1>1, Walking DEF IInv, StatusFollowsItems, Accepts, OPEN_ITEM_STATES,
                         TERMINAL_ITEM_STATES, Results
  <2>2. /\ status' \in TaskStates /\ item' \in [Items -> States]
        /\ StatusFollowsItems' /\ NoLostWork'
        /\ status' \notin {"NONE", "PENDING_APPROVAL"}
        /\ (status' \in {"QUEUED", "RUNNING"} /\ risky' => decision' = "APPROVED")
        /\ \A j \in Items : item[j] \in TERMINAL_ITEM_STATES => item'[j] = item[j]
    BY <1>1, <2>1, RecordPreserves DEF Accepts
  <2>3. item'[i] \in TERMINAL_ITEM_STATES
    BY <1>1 DEF Record, IInv, TypeOK, TERMINAL_ITEM_STATES
  <2>4. TypeOK'
    BY <1>0, <2>2 DEF IInv, TypeOK, States
  <2>5. ApprovedFirst'
    BY <2>1 DEF IInv, ApprovedFirst, StatusHistory
  <2>6. StatusHistory'
    BY <2>2 DEF IInv, StatusHistory
  <2>7. Progress'
    BY <2>2, <2>3 DEF IInv, TypeOK, Runs, Progress
  <2> QED BY <2>2, <2>4, <2>5, <2>6, <2>7 DEF IInv
<1>2. CASE ~Accepts(i)
  <2>1. item[i] \in TERMINAL_ITEM_STATES
    BY <1>2 DEF Accepts, IInv, TypeOK, StatusFollowsItems, TERMINAL_TASK_STATES
  <2>2. TypeOK' /\ StatusFollowsItems' /\ NoLostWork'
    BY <1>0, <1>2 DEF IInv, TypeOK, StatusFollowsItems, NoLostWork
  <2>3. ApprovedFirst' /\ StatusHistory'
    BY <1>2 DEF IInv, ApprovedFirst, StatusHistory, TypeOK, Runs
  <2>4. Progress'
    BY <1>2, <2>1 DEF IInv, TypeOK, Runs, Progress
  <2> QED BY <2>2, <2>3, <2>4 DEF IInv
<1> QED BY <1>1, <1>2

\* The executor fails or the dispatcher dies.
LEMMA FaultPreserves ==
  ASSUME IInv, NEW w \in Workers, Fault(w) PROVE IInv'
<1> USE DEF IInv, Fault, taskVars
<1>1. TypeOK'
  BY DEF TypeOK, Runs, Idle, NoEvent
<1>2. StatusFollowsItems' /\ NoLostWork'
  BY DEF StatusFollowsItems, NoLostWork
<1>3. ApprovedFirst' /\ StatusHistory' /\ Progress'
  BY DEF ApprovedFirst, StatusHistory, Progress, TypeOK, Idle
<1> QED BY <1>1, <1>2, <1>3

\* Every step of every interleaving keeps the invariant.
LEMMA NextInvariant == IInv /\ [Next]_vars => IInv'
<1> SUFFICES ASSUME IInv, [Next]_vars PROVE IInv' OBVIOUS
<1>1. CASE Api
  BY <1>1, CreateTaskPreserves, ApprovePreserves, RejectPreserves, CancelPreserves,
     RecordItemResultPreserves DEF Api
<1>2. CASE \E w \in Workers : Publish(w) \/ Fault(w)
  BY <1>2, ReadNothingPreserves, ReadItemsPreserves, ClaimItemPreserves, SkipItemPreserves,
     RecordResultPreserves, CompletePreserves, FaultPreserves DEF Publish
<1>3. CASE \E w \in Workers, e \in Events : Deliver(w, e)
  BY <1>3, DeliverPreserves
<1>4. CASE UNCHANGED vars
  BY <1>4 DEF IInv, TypeOK, StatusFollowsItems, NoLostWork, ApprovedFirst, StatusHistory,
              Progress, vars, taskVars
<1> QED BY <1>1, <1>2, <1>3, <1>4 DEF Next

\* The inductive invariant holds in every reachable state.
THEOREM OperationInvariant == Spec => []IInv
<1> QED BY InitInvariant, NextInvariant, PTL DEF Spec

\* Every reachable state of a task and of its executors is well typed.
THEOREM OperationTypeCorrect == Spec => []TypeOK
<1>1. IInv => TypeOK BY DEF IInv
<1> QED BY <1>1, OperationInvariant, PTL

\* A task's status agrees with its items, whoever settles them:
\* record_item_result(), _record_result(), cancel_task() or a rejection.
THEOREM StatusFollowsItemsCorrect == Spec => []StatusFollowsItems
<1>1. IInv => StatusFollowsItems BY DEF IInv
<1> QED BY <1>1, OperationInvariant, PTL

\* publish() never acknowledges the event a task with open items depends on.
THEOREM NoLostWorkCorrect == Spec => []NoLostWork
<1>1. IInv => NoLostWork BY DEF IInv
<1> QED BY <1>1, OperationInvariant, PTL

\* A risky operation is neither executed nor given a result before decide_task()
\* approved it.
THEOREM ApprovedFirstCorrect == Spec => []ApprovedFirst
<1>1. IInv => ApprovedFirst BY DEF IInv
<1> QED BY <1>1, OperationInvariant, PTL

\* What a task shows follows from its items, the work it has left is not
\* lost with an event, and a risky task waits for its approval.
THEOREM TaskTruthfulCorrect == Spec => []TaskTruthful
<1>1. IInv => TaskTruthful
  BY DEF IInv, TaskTruthful
<1> QED BY <1>1, OperationInvariant, PTL

\* No step replaces the result of an item.
LEMMA NextResultFinal ==
  ASSUME IInv, Next, NEW i \in Items, item[i] \in TERMINAL_ITEM_STATES
  PROVE  item'[i] = item[i]
<1>0. item[i] \notin OPEN_ITEM_STATES /\ item \in [Items -> States]
  BY DEF IInv, TypeOK, OPEN_ITEM_STATES, TERMINAL_ITEM_STATES, Results, States
<1>1. CASE UNCHANGED item
  BY <1>1
<1>2. CASE Reject
  BY <1>0, <1>2 DEF Reject, IInv, StatusHistory, OPEN_ITEM_STATES
<1>3. CASE CancelTask
  BY <1>0, <1>3 DEF CancelTask, CanceledItem
<1>4. ASSUME NEW j \in Items, NEW v, item[j] \in OPEN_ITEM_STATES,
             item' = [item EXCEPT ![j] = v]
      PROVE  item'[i] = item[i]
  BY <1>0, <1>4
<1>5. CASE \E j \in Items, result \in Results : RecordItemResult(j, result)
  BY <1>5, <1>4 DEF RecordItemResult, Record
<1>6. CASE \E w \in Workers, j \in Items : ClaimItem(w, j)
  BY <1>6, <1>4 DEF ClaimItem, Executable
<1>7. CASE \E w \in Workers, j \in Items, result \in Results : RecordResult(w, j, result)
  BY <1>7, <1>4, <1>1 DEF RecordResult, Accepts, Record
<1> QED
  BY <1>1, <1>2, <1>3, <1>5, <1>6, <1>7
     DEF Next, Api, Publish, CreateTask, Approve, ReadNothing, ReadItems, SkipItem, Complete,
         Fault, Deliver, taskVars

\* The result of an item is immutable, through redeliveries, concurrent
\* executors of one item, cancellations and late posts.
THEOREM ResultFinalCorrect == Spec => ResultFinal
<1>1. IInv /\ [Next]_vars =>
        [\A i \in Items : item[i] \in TERMINAL_ITEM_STATES => item'[i] = item[i]]_vars
  BY NextResultFinal
<1> QED BY <1>1, OperationInvariant, PTL DEF Spec, ResultFinal
=============================================================================
