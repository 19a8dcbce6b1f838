------------------------------ MODULE Accounts ------------------------------
(***************************************************************************)
(* Registration of edges, devices and platform accounts, and the binding   *)
(* of accounts to devices that every task freezes (services.py), with the  *)
(* part of a task's life that depends on it (mobile_service.py).  The      *)
(* accounts here are all of one platform.  bind, unbind and a change of    *)
(* status lock the account, create_task() locks the binding and claim()    *)
(* the device and the task: each is one step.                              *)
(***************************************************************************)
EXTENDS ApiRequests, FiniteSets

CONSTANTS Accts,         \* external subjects of the platform
          Devs,          \* devices, all on one edge
          MaxTasks       \* bound: tasks created

ASSUME AccountAssumption == MaxTasks \in Nat

VARIABLES edge,          \* the edge is registered
          devices,       \* registered devices
          account,       \* account[a]: status, version of the row, expired
          binding,       \* binding[a][d]: status and binding_version
          bindings,      \* history: times the binding became BOUND
          tasks,         \* tasks created, with what they froze
          schedule       \* schedule[a]: an enabled schedule of the account

accountVars == <<edge, devices, account, binding, bindings, tasks, schedule>>

NoAccount == [status |-> "NONE", expired |-> FALSE]
Unbound == [status |-> "NONE", version |-> 0]

AccountsInit ==
    /\ edge = FALSE /\ devices = {}
    /\ account = [a \in Accts |-> NoAccount]
    /\ binding = [a \in Accts |-> [d \in Devs |-> Unbound]]
    /\ bindings = [a \in Accts |-> [d \in Devs |-> 0]]
    /\ tasks = {} /\ schedule = [a \in Accts |-> FALSE]

Bound(a, d) == binding[a][d].status = "BOUND"

(* create_edge()                                                           *)
CreateEdge(w) ==
    /\ AtOnce(w) /\ ~edge /\ edge' = TRUE
    /\ UNCHANGED <<devices, account, binding, bindings, tasks, schedule>>

(* create_device()                                                         *)
CreateDevice(w, d) ==
    /\ AtOnce(w) /\ edge /\ d \notin devices /\ devices' = devices \cup {d}
    /\ UNCHANGED <<edge, account, binding, bindings, tasks, schedule>>

(* create_platform_account(): the subject is looked up, then inserted; the *)
(* unique constraint refuses the slower of two requests.                   *)
CreateAccountRead(w, a) ==
    /\ account[a] = NoAccount
    /\ Begin(w, [op |-> "ACCOUNT", a |-> a])
    /\ UNCHANGED accountVars

CreateAccountCommit(w) ==
    /\ req[w].op = "ACCOUNT"
    /\ account' = IF account[req[w].a] = NoAccount
                  THEN [account EXCEPT ![req[w].a] = [NoAccount EXCEPT !.status = "AUTHORIZED"]]
                  ELSE account
    /\ End(w)
    /\ UNCHANGED <<edge, devices, binding, bindings, tasks, schedule>>

(* The authorisation runs out.                                             *)
AccountExpires(a) ==
    /\ account[a].status = "AUTHORIZED" /\ ~account[a].expired
    /\ account' = [account EXCEPT ![a].expired = TRUE]
    /\ UNCHANGED <<reqVars, edge, devices, binding, bindings, tasks, schedule>>

(* _block_stale_account_work(): queued tasks of the accounts on the device *)
(* fail.                                                                   *)
BlockStale(as, d) ==
    {IF t.a \in as /\ t.d = d /\ t.status = "QUEUED" THEN [t EXCEPT !.status = "FAILED"] ELSE t :
        t \in tasks}

(* The version of a binding that is confirmed (again).                     *)
(* Mutant: a binding keeps its version when it is bound again.             *)
VersionKept(a, d) == IF binding[a][d] = Unbound THEN 1 ELSE binding[a][d].version
NextVersion(a, d) == IF Bound(a, d) THEN binding[a][d].version ELSE binding[a][d].version + 1

(* bind_account_device(): another account of the platform on the device is *)
(* displaced: unbound, its queued work failed, its schedules paused.       *)
Displaced(a, d) == {b \in Accts \ {a} : Bound(b, d)}

BindAccount(w, a, d) ==
    /\ AtOnce(w)
    /\ d \in devices /\ account[a].status = "AUTHORIZED" /\ ~account[a].expired
    /\ binding' = [b \in Accts |->
          IF b = a THEN [binding[a] EXCEPT ![d] = [status |-> "BOUND", version |-> NextVersion(a, d)]]
          ELSE IF b \in Displaced(a, d) THEN [binding[b] EXCEPT ![d].status = "UNBOUND"]
          ELSE binding[b]]
    /\ bindings' = IF Bound(a, d) THEN bindings ELSE [bindings EXCEPT ![a][d] = @ + 1]
    /\ tasks' = BlockStale(Displaced(a, d), d)
    /\ schedule' = [b \in Accts |-> schedule[b] /\ b \notin Displaced(a, d)]
    /\ UNCHANGED <<edge, devices, account>>

(* unbind_account_device(): schedules stay enabled.                        *)
UnbindAccount(w, a, d) ==
    /\ AtOnce(w)
    /\ Bound(a, d)
    /\ binding' = [binding EXCEPT ![a][d].status = "UNBOUND"]
    /\ tasks' = BlockStale({a}, d)
    /\ UNCHANGED <<edge, devices, account, bindings, schedule>>

(* update_account_status(): an account that is not authorised loses every  *)
(* binding.                                                                *)
UpdateStatus(w, a, st) ==
    /\ AtOnce(w)
    /\ account[a] # NoAccount /\ account' = [account EXCEPT ![a].status = st]
    /\ IF st = "AUTHORIZED" THEN UNCHANGED <<binding, tasks>>
       ELSE /\ binding' = [binding EXCEPT ![a] = [d \in Devs |->
                  IF Bound(a, d) THEN [@[d] EXCEPT !.status = "UNBOUND"] ELSE @[d]]]
            /\ tasks' = {IF t.a = a /\ t.status = "QUEUED" /\ Bound(a, t.d)
                         THEN [t EXCEPT !.status = "FAILED"] ELSE t : t \in tasks}
    /\ UNCHANGED <<edge, devices, bindings, schedule>>

(* A schedule of the account is enabled.                                   *)
EnableSchedule(w, a) ==
    /\ AtOnce(w)
    /\ ~schedule[a] /\ \E d \in Devs : Bound(a, d)
    /\ schedule' = [schedule EXCEPT ![a] = TRUE]
    /\ UNCHANGED <<edge, devices, account, binding, bindings, tasks>>

-----------------------------------------------------------------------------
(* create_task(): the task freezes the version of the binding.             *)
CreateTask(w, a, d) ==
    /\ AtOnce(w)
    /\ Bound(a, d) /\ Cardinality(tasks) < MaxTasks
    /\ tasks' = tasks \cup {[id |-> Cardinality(tasks) + 1, a |-> a, d |-> d, status |-> "QUEUED",
                             version |-> binding[a][d].version,
                             created |-> bindings[a][d], ran |-> {}]}
    /\ UNCHANGED <<edge, devices, account, binding, bindings, schedule>>

(* _account_binding_mismatch()                                             *)
(* Mutant: it only asks whether the account is bound.                      *)
AnyBinding(t) == Bound(t.a, t.d)
BindingMatches(t) == Bound(t.a, t.d) /\ binding[t.a][t.d].version = t.version

(* claim(): a task whose binding changed fails instead of running.         *)
ClaimTask(t) ==
    /\ t.status = "QUEUED"
    /\ tasks' = (tasks \ {t}) \cup
         {IF BindingMatches(t)
          THEN [t EXCEPT !.status = "CLAIMED", !.ran = @ \cup {bindings[t.a][t.d]}]
          ELSE [t EXCEPT !.status = "FAILED"]}
    /\ UNCHANGED <<reqVars, edge, devices, account, binding, bindings, schedule>>

(* The lease of a claimed task runs out (it is queued again, whatever its  *)
(* binding is by now) or the task succeeds.                                *)
BoundTaskMoves(t) ==
    /\ t.status = "CLAIMED"
    /\ \E st \in {"QUEUED", "SUCCEEDED"} :
          tasks' = (tasks \ {t}) \cup {[t EXCEPT !.status = st]}
    /\ UNCHANGED <<reqVars, edge, devices, account, binding, bindings, schedule>>

AccountsNext ==
    \/ \E w \in Workers :
          \/ CreateEdge(w) \/ \E d \in Devs : CreateDevice(w, d)
          \/ CreateAccountCommit(w)
          \/ \E a \in Accts :
                \/ CreateAccountRead(w, a) \/ EnableSchedule(w, a)
                \/ \E st \in {"AUTHORIZED", "REVOKED"} : UpdateStatus(w, a, st)
                \/ \E d \in Devs : BindAccount(w, a, d) \/ UnbindAccount(w, a, d) \/ CreateTask(w, a, d)
    \/ \E a \in Accts : AccountExpires(a)
    \/ \E t \in tasks : ClaimTask(t) \/ BoundTaskMoves(t)

-----------------------------------------------------------------------------
(* A task runs only under the binding it was created for: once the account *)
(* was unbound, displaced or revoked, binding it again does not bring the  *)
(* old work back, not even work queued again after its lease ran out.  A   *)
(* device has one bound account of the platform.                           *)
BindingHonoured ==
    /\ \A t \in tasks : t.ran \subseteq {t.created}
    /\ \A d \in Devs : Cardinality({a \in Accts : Bound(a, d)}) <= 1
=============================================================================
