---------------------------- MODULE PublishQueue ----------------------------
(***************************************************************************)
(* The serial Xianyu publish queue (XianyuPublishQueueService).  A queue   *)
(* is a list of targets; one target at a time is handed to the device as a *)
(* mobile task, and a human confirmation with evidence settles it.         *)
(* dispatch() locks every row of the queue and report_failure() and        *)
(* confirm() lock the target, so each request is one step.                 *)
(***************************************************************************)
EXTENDS ApiRequests, FiniteSets

CONSTANTS QueueLength,   \* targets of the queue
          MaxAttempts    \* bound: tasks minted for one target

ASSUME QueueAssumption == QueueLength \in Nat \ {0} /\ MaxAttempts \in Nat \ {0}

VARIABLES target,        \* target[p]: the row at position p
          qtask          \* qtask[p][n]: status of the task of attempt n

queueVars == <<target, qtask>>

Positions == 1..QueueLength
Attempts == 1..MaxAttempts
QueueTerminal == {"SUCCEEDED_CONFIRMED", "FAILED_CONFIRMED", "CANCELLED"}
Eligible == {"PENDING", "FAILED_UNCONFIRMED"}
TargetStates == {"NONE", "IN_FLIGHT"} \cup Eligible \cup QueueTerminal

(* A completion boundary is the set of the steps done by a human.          *)
Manual == {"price", "commit"}
Boundaries == SUBSET Manual

(* Evidence flags; "form" is description, media, fields and success seen,  *)
(* which every boundary requires.                                          *)
EvidenceFlags == {"form", "priceEnteredByMachine", "priceHumanConfirmed",
                  "commitClickedByMachine", "commitHumanConfirmed"}

QueueInit ==
    /\ target = [p \in Positions |-> [state |-> "NONE", claimed |-> {}, recorded |-> {},
                                      attempts |-> 0, item |-> FALSE, proof |-> {}]]
    /\ qtask = [p \in Positions |-> [n \in Attempts |-> "NONE"]]

(* judge_completion_boundary()                                             *)
EvidenceBoundary(ev) ==
    (IF "priceEnteredByMachine" \in ev THEN {} ELSE {"price"}) \cup
    (IF "commitClickedByMachine" \in ev THEN {} ELSE {"commit"})
(* Mutant: the evidence may lift the run above the boundary it claimed.    *)
EnvelopeShown(claimed, ev) == EvidenceBoundary(ev)
Envelope(claimed, ev) == claimed \cup EvidenceBoundary(ev)

RequiredEvidence(b) ==
    {"form", IF "price" \in b THEN "priceHumanConfirmed" ELSE "priceEnteredByMachine",
             IF "commit" \in b THEN "commitHumanConfirmed" ELSE "commitClickedByMachine"}

(* create_queue(): all rows or, for a queueId that exists, none.  The      *)
(* unique position constraint refuses the slower of two first requests.    *)
CreateQueue(w) ==
    /\ AtOnce(w)
    /\ \A p \in Positions : target[p].state = "NONE"
    /\ \E c \in [Positions -> Boundaries] :
          target' = [p \in Positions |-> [target[p] EXCEPT !.state = "PENDING",
                                                           !.claimed = c[p]]]
    /\ UNCHANGED qtask

(* Mutant: a target that failed unconfirmed does not hold back the next.   *)
FirstEligibleSkipping(p) ==
    /\ target[p].state \in Eligible
    /\ \A q \in 1..(p - 1) : target[q].state # "PENDING"
FirstEligible(p) ==
    /\ target[p].state \in Eligible
    /\ \A q \in 1..(p - 1) : target[q].state \notin Eligible

(* dispatch(): the task, its frozen boundary and the target's link to it   *)
(* are one transaction; the key xianyu-publish:<target>:<attempt> finds no *)
(* task, since an attempt is counted with the task it mints.               *)
Dispatch(w, p) ==
    /\ AtOnce(w)
    /\ FirstEligible(p)
    /\ \A q \in Positions : target[q].state # "IN_FLIGHT"
    /\ target[p].attempts < MaxAttempts
    /\ target' = [target EXCEPT ![p].state = "IN_FLIGHT", ![p].attempts = @ + 1]
    /\ qtask' = [qtask EXCEPT ![p][target[p].attempts + 1] = "OPEN"]

(* report_failure(): the target may be issued again; its task is left as   *)
(* it is.                                                                  *)
ReportFailure(w, p) ==
    /\ AtOnce(w)
    /\ target[p].state = "IN_FLIGHT"
    /\ target' = [target EXCEPT ![p].state = "FAILED_UNCONFIRMED"]
    /\ UNCHANGED qtask

(* confirm() settles the task of the last attempt unless it is settled.    *)
SettleTask(p, s) ==
    qtask' = [qtask EXCEPT ![p][target[p].attempts] =
                 IF @ \in {"SUCCEEDED", "FAILED"} THEN @ ELSE s]

ConfirmSucceeded(w, p, ev) ==
    /\ AtOnce(w)
    /\ target[p].state \in {"IN_FLIGHT", "FAILED_UNCONFIRMED"}
    /\ RequiredEvidence(Envelope(target[p].claimed, ev)) \subseteq ev
    /\ target' = [target EXCEPT ![p] =
          [@ EXCEPT !.state = "SUCCEEDED_CONFIRMED", !.item = TRUE, !.proof = ev,
                    !.recorded = Envelope(target[p].claimed, ev)]]
    /\ SettleTask(p, "SUCCEEDED")

ConfirmFailed(w, p, ev) ==
    /\ AtOnce(w)
    /\ target[p].state \in {"IN_FLIGHT", "FAILED_UNCONFIRMED"}
    /\ target' = [target EXCEPT ![p] =
          [@ EXCEPT !.state = "FAILED_CONFIRMED",
                    !.recorded = Envelope(target[p].claimed, ev)]]
    /\ SettleTask(p, "FAILED")

(* The device settles a task it still runs, without looking at the queue.  *)
DeviceSettles(p, n) ==
    /\ qtask[p][n] = "OPEN"
    /\ \E s \in {"SUCCEEDED", "FAILED", "CANCELLED"} : qtask' = [qtask EXCEPT ![p][n] = s]
    /\ UNCHANGED <<reqVars, target>>

QueueNext ==
    \/ \E w \in Workers :
          \/ CreateQueue(w)
          \/ \E p \in Positions :
                \/ Dispatch(w, p) \/ ReportFailure(w, p)
                \/ \E ev \in SUBSET EvidenceFlags :
                      ConfirmSucceeded(w, p, ev) \/ ConfirmFailed(w, p, ev)
    \/ \E p \in Positions, n \in Attempts : DeviceSettles(p, n)

-----------------------------------------------------------------------------
(* The queue is serial: a later listing is only issued once every earlier  *)
(* one is settled by a confirmation, a failure report included, and a      *)
(* target that is not issued yet has no task.                              *)
SerialOrder ==
    \A p, q \in Positions : p < q /\ target[q].state \notin {"NONE", "PENDING"}
                               => target[p].state \in QueueTerminal

(* A listing is recorded as more automatic neither than was claimed nor    *)
(* than the confirmation showed, and a success names every proof its       *)
(* recorded boundary asks for.                                             *)
DowngradeOnly ==
    \A p \in Positions :
       /\ target[p].state \in QueueTerminal => target[p].claimed \subseteq target[p].recorded
       /\ target[p].item =>
             /\ "price" \notin target[p].recorded => "priceEnteredByMachine" \in target[p].proof
             /\ "commit" \notin target[p].recorded => "commitClickedByMachine" \in target[p].proof
             /\ RequiredEvidence(target[p].recorded) \subseteq target[p].proof

(* A publish queue issues its listings one after another and records them  *)
(* no more favourably than they were claimed and shown.                    *)
QueueHonest == SerialOrder /\ DowngradeOnly
=============================================================================
