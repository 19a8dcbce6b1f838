--------------------------- MODULE OperationTask ---------------------------
(***************************************************************************)
(* One operation task with its items: OperationService (create, approve,   *)
(* reject, cancel, record_item_result) against any number of invocations   *)
(* of OperationExecutionSink.publish(), which run in outbox dispatchers.   *)
(*                                                                         *)
(* Every transaction locks the task row and is one action.  publish() is   *)
(* several of them: it reads the task without a lock, then claims,         *)
(* executes and records item after item.  What it is given is what         *)
(* EventDelivery promises: an emitted event is delivered again and again   *)
(* until one publish() of it returns, and possibly to two at a time.       *)
(***************************************************************************)
EXTENDS Naturals

CONSTANTS
    NumItems,   \* items of the task, in the order of their resource_id
    Workers,    \* concurrent invocations of publish()
    MaxFaults   \* bound: executor failures and dying dispatchers

Items == 1..NumItems
Events == {"created", "approved"}
NoEvent == "none"

ASSUME OperationAssumption == NumItems \in Nat \ {0} /\ MaxFaults \in Nat

OPEN_ITEM_STATES == {"QUEUED", "RUNNING"}
Results == {"SUCCEEDED", "FAILED", "BLOCKED"}
TERMINAL_ITEM_STATES == Results \cup {"CANCELED"}
TERMINAL_TASK_STATES == {"SUCCEEDED", "PARTIAL", "FAILED", "CANCELED", "REJECTED"}
TaskStates == {"NONE", "PENDING_APPROVAL", "QUEUED", "RUNNING"} \cup TERMINAL_TASK_STATES

VARIABLES
    risky,      \* the operation's risk is "approval"
    status,     \* operation_task.status, NONE before create_task()
    decision,   \* approval_decision
    item,       \* operation_item.status
    emitted,    \* events in the outbox
    acked,      \* events the outbox has marked published
    run,        \* the state of each publish()
    faults

taskVars == <<risky, status, decision, item>>
vars == <<taskVars, emitted, acked, run, faults>>

Idle == [phase |-> "IDLE", ev |-> NoEvent, todo |-> {}]

Init ==
    /\ risky \in BOOLEAN
    /\ status = "NONE" /\ decision = "NONE"
    /\ item = [i \in Items |-> "QUEUED"]
    /\ emitted = {} /\ acked = {}
    /\ run = [w \in Workers |-> Idle]
    /\ faults = 0

-----------------------------------------------------------------------------
(* OperationService. *)

\* create_task(): a repeated Idempotency-Key returns the same task.
CreateTask ==
    /\ status = "NONE"
    /\ status' = IF risky THEN "PENDING_APPROVAL" ELSE "QUEUED"
    /\ emitted' = emitted \cup {"created"}
    /\ UNCHANGED <<risky, decision, item, acked, run, faults>>

\* decide_task()
Approve ==
    /\ status = "PENDING_APPROVAL"
    /\ status' = "QUEUED" /\ decision' = "APPROVED"
    /\ emitted' = emitted \cup {"approved"}
    /\ UNCHANGED <<risky, item, acked, run, faults>>

Reject ==
    /\ status = "PENDING_APPROVAL"
    /\ status' = "REJECTED" /\ decision' = "REJECTED"
    /\ item' = [i \in Items |-> "BLOCKED"]
    /\ UNCHANGED <<risky, emitted, acked, run, faults>>

\* cancel_task(): items already settled keep their result.
\* Mutant: it writes a spelling no reader knows.
CanceledItemSpelled(s) == IF s \in OPEN_ITEM_STATES THEN "CANCELLED" ELSE s
CanceledItem(s) == IF s \in OPEN_ITEM_STATES THEN "CANCELED" ELSE s

CancelTask ==
    /\ status \notin TERMINAL_TASK_STATES \cup {"NONE"}
    /\ status' = "CANCELED"
    /\ item' = [i \in Items |-> CanceledItem(item[i])]
    /\ UNCHANGED <<risky, decision, emitted, acked, run, faults>>

\* _recalculate().  Mutant: only queued items keep a task open.
RecalculatedQueuedOnly(its) ==
    CASE \E i \in Items : its[i] = "QUEUED" -> "RUNNING"
      [] \A i \in Items : its[i] = "SUCCEEDED" -> "SUCCEEDED"
      [] \A i \in Items : its[i] \notin {"QUEUED", "SUCCEEDED"} -> "FAILED"
      [] OTHER -> "PARTIAL"
Recalculated(its) ==
    CASE \E i \in Items : its[i] \in OPEN_ITEM_STATES -> "RUNNING"
      [] \A i \in Items : its[i] = "SUCCEEDED" -> "SUCCEEDED"
      [] \A i \in Items : its[i] \notin OPEN_ITEM_STATES \cup {"SUCCEEDED"} -> "FAILED"
      [] OTHER -> "PARTIAL"

Record(i, result) ==
    /\ item' = [item EXCEPT ![i] = result]
    /\ status' = Recalculated(item')

\* record_item_result(): a service posts the result of an item it was never
\* asked for, or has just finished.  Mutant: the approval is not looked at.
RecordableUnapproved == status \notin TERMINAL_TASK_STATES \cup {"NONE"}
Recordable == status \notin TERMINAL_TASK_STATES \cup {"NONE", "PENDING_APPROVAL"}

RecordItemResult(i, result) ==
    /\ Recordable
    /\ item[i] \in OPEN_ITEM_STATES
    /\ Record(i, result)
    /\ UNCHANGED <<risky, decision, emitted, acked, run, faults>>

-----------------------------------------------------------------------------
(* OperationExecutionSink.publish() in worker w. *)

\* The outbox hands out an event; a dispatcher whose claim went stale may
\* still do so after another one acknowledged it.
Deliver(w, e) ==
    /\ e \in emitted
    /\ run[w].phase = "IDLE"
    /\ run' = [run EXCEPT ![w] = [phase |-> "READ", ev |-> e, todo |-> {}]]
    /\ UNCHANGED <<taskVars, emitted, acked, faults>>

\* publish() returns, and the outbox is done with the event.
Return(w) ==
    /\ run' = [run EXCEPT ![w] = Idle]
    /\ acked' = acked \cup {run[w].ev}
    /\ UNCHANGED <<emitted, faults>>

\* _task_state(), read without a lock: nothing to do (yet).
ReadNothing(w) ==
    /\ run[w].phase = "READ"
    /\ status \in TERMINAL_TASK_STATES \cup {"PENDING_APPROVAL"}
    /\ Return(w)
    /\ UNCHANGED taskVars

\* _task_state() and _item_ids()
ReadItems(w) ==
    /\ run[w].phase = "READ"
    /\ status \notin TERMINAL_TASK_STATES \cup {"PENDING_APPROVAL"}
    /\ run' = [run EXCEPT ![w].phase = "LOOP", ![w].todo = Items]
    /\ UNCHANGED <<taskVars, emitted, acked, faults>>

NextItem(w, i) == i \in run[w].todo /\ \A j \in run[w].todo : i <= j

\* _claim_item(): RUNNING is claimed again, its executor may be gone.
\* Mutant: a RUNNING item is left to whoever runs it.
ExecutableQueuedOnly(i) ==
    /\ status \notin TERMINAL_TASK_STATES \cup {"PENDING_APPROVAL"}
    /\ item[i] = "QUEUED"
Executable(i) ==
    /\ status \notin TERMINAL_TASK_STATES \cup {"PENDING_APPROVAL"}
    /\ item[i] \in OPEN_ITEM_STATES

ClaimItem(w, i) ==
    /\ run[w].phase = "LOOP" /\ NextItem(w, i)
    /\ Executable(i)
    /\ item' = [item EXCEPT ![i] = "RUNNING"]
    /\ status' = "RUNNING"
    /\ run' = [run EXCEPT ![w].phase = "EXEC"]
    /\ UNCHANGED <<risky, decision, emitted, acked, faults>>

SkipItem(w, i) ==
    /\ run[w].phase = "LOOP" /\ NextItem(w, i)
    /\ ~Executable(i)
    /\ run' = [run EXCEPT ![w].todo = @ \ {i}]
    /\ UNCHANGED <<taskVars, emitted, acked, faults>>

\* _record_result(): after a cancellation, or once the item has a result, the
\* result is discarded.  Mutant: the later result wins.
AcceptsAlways(i) == status # "CANCELED"
Accepts(i) == status # "CANCELED" /\ item[i] \in OPEN_ITEM_STATES

RecordResult(w, i, result) ==
    /\ run[w].phase = "EXEC" /\ NextItem(w, i)
    /\ IF Accepts(i) THEN Record(i, result) ELSE UNCHANGED <<item, status>>
    /\ run' = [run EXCEPT ![w].phase = "LOOP", ![w].todo = @ \ {i}]
    /\ UNCHANGED <<risky, decision, emitted, acked, faults>>

Complete(w) ==
    /\ run[w].phase = "LOOP" /\ run[w].todo = {}
    /\ Return(w)
    /\ UNCHANGED taskVars

\* The executor raises (_record_retry only audits), or the dispatcher dies:
\* publish() does not return and the event stays in the outbox.
Fault(w) ==
    /\ run[w].phase # "IDLE"
    /\ faults < MaxFaults
    /\ faults' = faults + 1
    /\ run' = [run EXCEPT ![w] = Idle]
    /\ UNCHANGED <<taskVars, emitted, acked>>

-----------------------------------------------------------------------------
Publish(w) ==
    \/ ReadNothing(w)
    \/ ReadItems(w)
    \/ \E i \in Items : ClaimItem(w, i) \/ SkipItem(w, i)
    \/ \E i \in Items, result \in Results : RecordResult(w, i, result)
    \/ Complete(w)

Api ==
    \/ CreateTask
    \/ Approve
    \/ Reject
    \/ CancelTask
    \/ \E i \in Items, result \in Results : RecordItemResult(i, result)

Next ==
    \/ Api
    \/ \E w \in Workers : Publish(w) \/ Fault(w)
    \/ \E w \in Workers, e \in Events : Deliver(w, e)

Spec == Init /\ [][Next]_vars

\* A publish() under way goes on, and an event that was not acknowledged is
\* delivered again (what Outbox guarantees for healthy events).
Redeliver(e) == e \notin acked /\ \E w \in Workers : Deliver(w, e)
Fairness ==
    /\ \A w \in Workers : WF_vars(Publish(w))
    /\ \A e \in Events : SF_vars(Redeliver(e))

FairSpec == Spec /\ Fairness

-----------------------------------------------------------------------------
(* Properties. *)

Runs == [phase : {"IDLE", "READ", "LOOP", "EXEC"}, ev : Events \cup {NoEvent},
         todo : SUBSET Items]

\* Every column and every invocation is in a state the code can produce.
TypeOK ==
    /\ risky \in BOOLEAN
    /\ status \in TaskStates
    /\ decision \in {"NONE", "APPROVED", "REJECTED"}
    /\ item \in [Items -> OPEN_ITEM_STATES \cup TERMINAL_ITEM_STATES]
    /\ emitted \in SUBSET Events /\ acked \in SUBSET Events
    /\ run \in [Workers -> Runs]
    /\ faults \in Nat

\* The task is over exactly when all its items are, and SUCCEEDED only when
\* all of them succeeded, whichever of the concurrent writers settled them.
StatusFollowsItems ==
    /\ status \in TERMINAL_TASK_STATES <=> \A i \in Items : item[i] \in TERMINAL_ITEM_STATES
    /\ status = "SUCCEEDED" => \A i \in Items : item[i] = "SUCCEEDED"

\* While a task has open items that may be executed, an event that will start
\* publish() on it is still in the outbox: no crash, no failed executor and no
\* early return on PENDING_APPROVAL loses the work.
NoLostWork ==
    status \in {"QUEUED", "RUNNING"} =>
        (IF risky THEN "approved" ELSE "created") \in emitted \ acked

\* Nothing of an operation that needs approval is executed or given a result
\* without one, although publish() of its creation event may be under way when
\* the decision falls.
ApprovedFirst ==
    risky /\ decision # "APPROVED" =>
        /\ \A i \in Items : item[i] \in {"QUEUED", "BLOCKED", "CANCELED"}
        /\ \A w \in Workers : run[w].phase # "EXEC"

\* What a task shows is true and what it has left to do is not lost.
TaskTruthful == StatusFollowsItems /\ NoLostWork /\ ApprovedFirst

\* A result is immutable: a redelivered event, a second executor of the same
\* item, a cancellation or a late post never replaces it.
ResultFinal ==
    [][\A i \in Items : item[i] \in TERMINAL_ITEM_STATES => item'[i] = item[i]]_vars

\* Every task that may run is settled in the end.
Settles == status \in {"QUEUED", "RUNNING"} ~> status \in TERMINAL_TASK_STATES
=============================================================================
