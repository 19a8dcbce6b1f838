---------------------------- MODULE Maintenance ----------------------------
(***************************************************************************)
(* Xianyu maintenance: a run fans out into one mobile task per target      *)
(* (xianyu_maintenance.py; xianyu_orders.py does the same for its single   *)
(* task), and deleting a listing takes an approval that is spent on one    *)
(* task and resolved through the controlled-action ledger                  *)
(* (xianyu_delete_evidence.py).  All approvals here name one listing.      *)
(***************************************************************************)
EXTENDS ApiRequests, FiniteSets

CONSTANTS RunTargets,    \* number of targets _expand_targets() returns
          Approvals      \* delete approvals of one target key

ASSUME MaintenanceAssumption == RunTargets \in Nat \ {0}

VARIABLES fanned,        \* fanned[i]: tasks inserted for target i, and their stamp
          answered,      \* some request of the run was answered
          orphaned,      \* history: targets whose stamping request died
          approval,      \* approval[a]: state and validity window
          strike,        \* strike[a]: ledger row of the task a was issued for
          verdict        \* verdict[a]: the delete result row

maintVars == <<fanned, answered, orphaned, approval, strike, verdict>>
runVars == <<fanned, answered, orphaned>>
deleteVars == <<approval, strike, verdict>>

MaintInit ==
    /\ fanned = [i \in 1..RunTargets |-> [tasks |-> 0, stamped |-> FALSE]]
    /\ answered = FALSE /\ orphaned = {}
    /\ approval = [a \in Approvals |-> "NONE"]
    /\ strike = [a \in Approvals |-> "NONE"]
    /\ verdict = [a \in Approvals |-> "NONE"]

(* run(): also the retry of a run, with the same Idempotency-Key.          *)
RunStart(w) ==
    /\ Begin(w, [op |-> "INSERT", i |-> 1])
    /\ UNCHANGED maintVars

Advance(w, i) ==
    /\ IF i < RunTargets
       THEN /\ req' = [req EXCEPT ![w] = [op |-> "INSERT", i |-> i + 1]]
            /\ UNCHANGED <<left, answered>>
       ELSE End(w) /\ answered' = TRUE

(* _insert_task(): the key names action, device, target and run, so a task *)
(* that exists is returned and not created.                                *)
(* Mutant: the key of a retry is new.                                      *)
TaskKeyFresh(i) == FALSE
TaskKeyTaken(i) == fanned[i].tasks > 0

RunInsert(w) ==
    LET i == req[w].i IN
    /\ req[w].op = "INSERT"
    /\ IF TaskKeyTaken(i)
       THEN Advance(w, i) /\ UNCHANGED fanned
       ELSE /\ fanned' = [fanned EXCEPT ![i].tasks = @ + 1]
            /\ req' = [req EXCEPT ![w] = [op |-> "STAMP", i |-> i]]
            /\ UNCHANGED <<left, answered>>
    /\ UNCHANGED <<orphaned, deleteVars>>

(* _stamp_run_fields(), in a transaction of its own, for a created task.   *)
RunStamp(w) ==
    /\ req[w].op = "STAMP"
    /\ fanned' = [fanned EXCEPT ![req[w].i].stamped = TRUE]
    /\ Advance(w, req[w].i)
    /\ UNCHANGED <<orphaned, deleteVars>>

RunDies(w) ==
    /\ req[w].op \in {"INSERT", "STAMP"}
    /\ orphaned' = IF req[w].op = "STAMP" THEN orphaned \cup {req[w].i} ELSE orphaned
    /\ End(w)
    /\ UNCHANGED <<fanned, answered, deleteVars>>

-----------------------------------------------------------------------------
(* create_approval(): refused while a CONSUMED approval of the target is   *)
(* unresolved; the approvals are read without a lock.                      *)
ApproveRead(w, a) ==
    /\ approval[a] = "NONE"
    /\ \A b \in Approvals : approval[b] # "CONSUMED"
    /\ Begin(w, [op |-> "APPROVE", a |-> a])
    /\ UNCHANGED maintVars

ApproveCommit(w) ==
    /\ req[w].op = "APPROVE"
    /\ approval' = [approval EXCEPT ![req[w].a] = IF @ = "NONE" THEN "APPROVED" ELSE @]
    /\ End(w)
    /\ UNCHANGED <<runVars, strike, verdict>>

(* issue_confirm_once() and abort() lock the approval.                     *)
IssueConfirm(w, a) ==
    /\ AtOnce(w)
    /\ approval[a] = "APPROVED"
    /\ approval' = [approval EXCEPT ![a] = "CONSUMED"]
    /\ UNCHANGED <<runVars, strike, verdict>>

AbortApproval(w, a) ==
    /\ AtOnce(w)
    /\ approval[a] = "APPROVED"
    /\ approval' = [approval EXCEPT ![a] = "ABORTED"]
    /\ UNCHANGED <<runVars, strike, verdict>>

(* The ledger row of the confirm-delete action moves as MobileTask has it: *)
(* intent, reported outcome, resolution with proof.                        *)
StrikeMoves(a) ==
    /\ approval[a] = "CONSUMED"
    /\ \E s \in {"INTENT", "APPLIED", "UNKNOWN", "PROVEN_APPLIED", "PROVEN_NOT"} :
          /\ <<strike[a], s>> \in
                {<<"NONE", "INTENT">>, <<"INTENT", "APPLIED">>, <<"INTENT", "UNKNOWN">>,
                 <<"APPLIED", "PROVEN_APPLIED">>, <<"UNKNOWN", "PROVEN_APPLIED">>,
                 <<"UNKNOWN", "PROVEN_NOT">>}
          /\ strike' = [strike EXCEPT ![a] = s]
    /\ UNCHANGED <<reqVars, runVars, approval, verdict>>

(* report_result(): only after the strike was reported; a replay is        *)
(* answered, a different one refused.                                      *)
ReportResult(w, a) ==
    /\ AtOnce(w)
    /\ approval[a] = "CONSUMED" /\ verdict[a] = "NONE"
    /\ strike[a] \in {"APPLIED", "UNKNOWN", "PROVEN_APPLIED"}
    /\ verdict' = [verdict EXCEPT ![a] = "REPORTED"]
    /\ UNCHANGED <<runVars, approval, strike>>

(* resolve(): the ledger row must be proven, and say what is decided.      *)
ResolveApproval(w, a) ==
    /\ AtOnce(w)
    /\ approval[a] = "CONSUMED" /\ strike[a] \in {"PROVEN_APPLIED", "PROVEN_NOT"}
    /\ approval' = [approval EXCEPT ![a] = "RESOLVED"]
    /\ verdict' = [verdict EXCEPT ![a] = IF @ = "NONE" THEN @ ELSE "RESOLVED"]
    /\ UNCHANGED <<runVars, strike>>

MaintNext ==
    \/ \E w \in Workers :
          \/ RunStart(w) \/ RunInsert(w) \/ RunStamp(w) \/ RunDies(w) \/ ApproveCommit(w)
          \/ \E a \in Approvals : \/ ApproveRead(w, a) \/ IssueConfirm(w, a)
                                  \/ AbortApproval(w, a) \/ ReportResult(w, a)
                                  \/ ResolveApproval(w, a)
    \/ \E a \in Approvals : StrikeMoves(a)

-----------------------------------------------------------------------------
(* However a run is retried and its requests overlap or die, a target gets *)
(* one task, an answered run has them all, and a task that get_run() does  *)
(* not list belongs to a request that is still to stamp it or that died.   *)
RunFannedOut ==
    /\ answered => \A i \in 1..RunTargets : fanned[i].tasks = 1
    /\ \A i \in 1..RunTargets :
          /\ fanned[i].tasks <= 1
          /\ fanned[i].tasks = 1 /\ ~fanned[i].stamped =>
                i \in orphaned \/ \E w \in Workers : req[w] = [op |-> "STAMP", i |-> i]

(* "The target is protected exactly while a confirm was issued and the     *)
(* outcome has not been resolved by the operator": a listing has at most   *)
(* one delete confirmation that is not resolved.                           *)
OneStrike == \A a, b \in Approvals : approval[a] = "CONSUMED" /\ approval[b] = "CONSUMED" => a = b
=============================================================================
