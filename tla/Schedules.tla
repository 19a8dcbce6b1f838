----------------------------- MODULE Schedules -----------------------------
(***************************************************************************)
(* One recurring schedule: manual fires (TaskScheduleService), the fleet   *)
(* mint of due periods (FleetScheduleService), and the Temporal tick that  *)
(* polls for due periods and calls the mint (temporal-worker).  A period   *)
(* is its position in the occurrence grid; a ONCE schedule has one.        *)
(*                                                                         *)
(* mint_due() and fire() decide under the lock of the schedule row, then   *)
(* let go of it and create tasks and ledger rows in transactions of their  *)
(* own, one device after the other.                                        *)
(***************************************************************************)
EXTENDS Naturals, Sequences, FiniteSets, FiniteSetsExt, SequencesExt

CONSTANTS NumDevices,   \* how many device_ids the schedule names
          Workers,      \* requests the API serves at the same time
          MaxPeriods,   \* bound: periods that become due
          Kind,         \* ONCE or RECURRING
          Policy,       \* resolve_miss_policy(): COALESCE_LATEST or SKIP
          MaxTicks,     \* max_ticks: polls the tick workflow makes before it returns
          MaxFaults,    \* bound: crashed workers, activity timeouts and lost polls
          MaxFires      \* bound: manual fires

ASSUME ScheduleAssumption ==
    /\ MaxPeriods \in Nat \ {0} /\ MaxTicks \in Nat /\ MaxFaults \in Nat /\ MaxFires \in Nat
    /\ Kind \in {"ONCE", "RECURRING"} /\ (Kind = "ONCE" => MaxPeriods = 1)
    /\ Policy \in {"COALESCE_LATEST", "SKIP"}
    /\ NumDevices \in Nat \ {0}

VARIABLES
    now,        \* periods whose time has come
    enabled,    \* task_schedule.enabled
    cancelled,  \* fleet_schedule_control.status is CANCELLED
    task,       \* task[p, d]: mobile tasks created for period p on device d
    fire,       \* fire[p, d]: status of the ledger row, NONE is no row
    req,        \* what a request has left to do, or Idle
    tick,       \* the tick workflow: POLL, the child and its activity, or FAILED
    ticks,      \* polls it has made
    faults, fires

vars == <<now, enabled, cancelled, task, fire, req, tick, faults, fires, ticks>>

Periods == 1 .. MaxPeriods

(* device_ids, without repeats: a device is its place in the list.         *)
DeviceIds == [i \in 1 .. NumDevices |-> i]
Devices == ToSet(DeviceIds)
Occurrences == Periods \X Devices
Nobody == "NONE"
Idle == [op |-> "IDLE"]
Poll == [phase |-> "POLL"]

Init ==
    /\ now = 0 /\ enabled = TRUE /\ cancelled = FALSE
    /\ task = [o \in Occurrences |-> 0] /\ fire = [o \in Occurrences |-> "NONE"]
    /\ req = [w \in Workers |-> Idle] /\ tick = Poll /\ ticks = 0
    /\ faults = 0 /\ fires = 0
-----------------------------------------------------------------------------
(* The missed-fire policy                                                  *)

(* Mutant: a period counts as due only once the next one has begun.        *)
DueThroughPast(moment) == {p \in Periods : p < moment}

(* _due_occurrences()                                                      *)
DueThrough(moment) == {p \in Periods : p <= moment}

(* _attempted_markers(): a ledger row of any device decides the period.    *)
Attempted == {p \in Periods : \E d \in Devices : fire[<<p, d>>] # "NONE"}

Unminted == DueThrough(now) \ Attempted

(* classify_due_occurrences(): one period is minted late or not; of a      *)
(* backlog, the newest or none.                                            *)
ToMint(backlog) ==
    IF backlog = {} \/ (Cardinality(backlog) > 1 /\ Policy = "SKIP") THEN {} ELSE {Max(backlog)}

(* Every device of each period, oldest period first.                       *)
Items(periods, kind) ==
    LET ps == SetToSortSeq(periods, LAMBDA a, b : a < b)
        n == Len(DeviceIds)
    IN  [k \in 1 .. Len(ps) * n |->
            [p |-> ps[(k - 1) \div n + 1], d |-> DeviceIds[((k - 1) % n) + 1], kind |-> kind]]
-----------------------------------------------------------------------------
(* Requests                                                                *)

Work(op, todo) == IF todo = <<>> THEN Idle
                  ELSE [op |-> op, todo |-> todo,
                        step |-> IF Head(todo).kind = "MINT" THEN "LOOK" ELSE "ROW",
                        seen |-> FALSE, status |-> "SKIPPED"]

Becomes(w, r) == req' = [req EXCEPT ![w] = r]

(* The request is done with an occurrence.                                 *)
Advance(w) == Becomes(w, Work(req[w].op, Tail(req[w].todo)))

(* mint_due(), its first transaction: _mint_guard(), what was attempted,   *)
(* and the decision.                                                       *)
MintRead(w) ==
    /\ req[w] = Idle /\ enabled /\ ~ cancelled
    /\ LET mint == ToMint(Unminted)
       IN  Becomes(w, Work("MINT", Items(Unminted \ mint, "SKIPPED") \o Items(mint, "MINT")))

(* Whether a late manual fire may find its period no longer to be queued.  *)
Overdue == Kind = "ONCE" \/ Policy = "COALESCE_LATEST"

(* fire(): an operator names the period and one device or all of them;     *)
(* those with a ledger row are left alone.  A period whose start deadline  *)
(* is over is not queued: the only one of a ONCE schedule is EXPIRED under *)
(* any policy, an older one of a RECURRING schedule SKIPPED under          *)
(* QUEUE_ONE, which is COALESCE_LATEST.                                    *)
Fire(w, p, ds) ==
    /\ fires < MaxFires /\ fires' = fires + 1
    /\ req[w] = Idle /\ enabled
    /\ LET new == SelectSeq(DeviceIds, LAMBDA d : d \in ds /\ fire[<<p, d>>] = "NONE")
       IN  \E kind \in {"MINT"} \cup (IF p <= now /\ Overdue THEN {"SKIPPED"} ELSE {}) :
              Becomes(w, Work("FIRE", [k \in 1 .. Len(new) |->
                                          [p |-> p, d |-> new[k], kind |-> kind]]))
    /\ UNCHANGED <<now, enabled, cancelled, task, fire, tick, faults, ticks>>

(* PlatformTaskService.create(): is there a task with this fire_key()?     *)
TaskLook(w) ==
    /\ req[w] # Idle /\ req[w].step = "LOOK"
    /\ LET o == Head(req[w].todo)
       IN  Becomes(w, [req[w] EXCEPT !.step = "INSERT", !.seen = task[<<o.p, o.d>>] > 0])
    /\ UNCHANGED <<now, enabled, cancelled, task, fire, tick, faults, fires, ticks>>

(* Mutant: the fire key differs from request to request.                   *)
KeyTakenNever(o) == FALSE

(* Unique (tenant_id, idempotency_key) of mobile_task.                     *)
KeyTaken(o) == task[<<o.p, o.d>>] > 0

(* Mutant: a device that could not mint is recorded as queued.             *)
ErrorRowQueued == "QUEUED"

(* _mint_occurrence(): the row of a device that cannot mint.               *)
ErrorRow == "ERROR"

(* A create() that fails: mint_due() records ERROR, fire() ends.           *)
TaskRefused(w) ==
    /\ UNCHANGED task
    /\ Becomes(w, IF req[w].op = "FIRE" THEN Idle
                  ELSE [req[w] EXCEPT !.step = "ROW", !.status = ErrorRow])

(* The insert: a known task is returned, a key taken meanwhile is a        *)
(* conflict, and the account may no longer be bound to the device.         *)
TaskInsert(w) ==
    /\ req[w] # Idle /\ req[w].step = "INSERT"
    /\ LET o == Head(req[w].todo)
           ok == Becomes(w, [req[w] EXCEPT !.step = "ROW", !.status = "QUEUED"])
       IN  \/ req[w].seen /\ ok /\ UNCHANGED task
           \/ /\ ~ req[w].seen /\ ~ KeyTaken(o)
              /\ task' = [task EXCEPT ![<<o.p, o.d>>] = @ + 1] /\ ok
           \/ ~ req[w].seen /\ TaskRefused(w)
    /\ UNCHANGED <<now, enabled, cancelled, fire, tick, faults, fires, ticks>>

(* _upsert_fire_row(): unique (schedule_id, scheduled_for, device_id); the *)
(* first row stays.  fire() gives up when it loses the race for it.        *)
RowWrite(w) ==
    /\ req[w] # Idle /\ req[w].step = "ROW"
    /\ LET o == Head(req[w].todo)
       IN  \/ /\ fire[<<o.p, o.d>>] = "NONE" /\ Advance(w)
              /\ fire' = [fire EXCEPT ![<<o.p, o.d>>] = req[w].status]
           \/ fire[<<o.p, o.d>>] # "NONE" /\ Advance(w) /\ UNCHANGED fire
           \/ /\ fire[<<o.p, o.d>>] # "NONE" /\ req[w].op = "FIRE"
              /\ Becomes(w, Idle) /\ UNCHANGED fire
    /\ UNCHANGED <<now, enabled, cancelled, task, tick, faults, fires, ticks>>

Request(w) == TaskLook(w) \/ TaskInsert(w) \/ RowWrite(w)

(* set_enabled(), pause_account_schedules()                                *)
SetEnabled(value) ==
    /\ enabled # value /\ enabled' = value
    /\ UNCHANGED <<now, cancelled, task, fire, req, tick, faults, fires, ticks>>

(* cancel(): final; tasks that exist stay.                                 *)
Cancel ==
    /\ ~ cancelled /\ cancelled' = TRUE /\ enabled' = FALSE
    /\ UNCHANGED <<now, task, fire, req, tick, faults, fires, ticks>>
-----------------------------------------------------------------------------
(* The tick                                                                *)

Clock ==
    /\ now < MaxPeriods /\ now' = now + 1
    /\ UNCHANGED <<enabled, cancelled, task, fire, req, tick, faults, fires, ticks>>

(* The loop of run() polls max_ticks times; then the workflow returns, and *)
(* nothing starts another one.                                             *)
Polling == tick = Poll /\ ticks < MaxTicks
Listed == enabled /\ ~ cancelled /\ ToMint(Unminted) # {}

(* poll_due() lists the schedule when there is a period to mint, and the   *)
(* tick starts its child.                                                  *)
PollDue ==
    /\ Polling /\ Listed /\ ticks' = ticks + 1
    /\ tick' = [phase |-> "CHILD", w |-> Nobody]
    /\ UNCHANGED <<now, enabled, cancelled, task, fire, req, faults, fires>>

PollNothing ==
    /\ Polling /\ ~ Listed /\ ticks' = ticks + 1
    /\ UNCHANGED <<now, enabled, cancelled, task, fire, req, tick, faults, fires>>

(* The attempts of POLL_RETRY are used up: the error ends the workflow.    *)
PollFails ==
    /\ Polling /\ faults < MaxFaults /\ faults' = faults + 1
    /\ tick' = [phase |-> "FAILED"]
    /\ UNCHANGED <<now, enabled, cancelled, task, fire, req, fires, ticks>>

(* The child's activity calls mint_due().                                  *)
MintDue(w) ==
    /\ tick.phase = "CHILD" /\ tick.w = Nobody /\ MintRead(w)
    /\ tick' = [tick EXCEPT !.w = w]
    /\ UNCHANGED <<now, enabled, cancelled, task, fire, faults, fires, ticks>>

Answered ==
    /\ tick.phase = "CHILD" /\ tick.w # Nobody /\ req[tick.w] = Idle
    /\ tick' = Poll
    /\ UNCHANGED <<now, enabled, cancelled, task, fire, req, faults, fires, ticks>>

(* The API refuses until the attempts of MINT_RETRY are used up; the child *)
(* returns all the same.                                                   *)
GiveUp ==
    /\ tick.phase = "CHILD" /\ tick.w = Nobody /\ (~ enabled \/ cancelled)
    /\ tick' = Poll
    /\ UNCHANGED <<now, enabled, cancelled, task, fire, req, faults, fires, ticks>>

(* An attempt fails: the worker dies, or the activity times out while the  *)
(* request goes on.  It is retried.                                        *)
Fails(w) ==
    /\ faults < MaxFaults /\ faults' = faults + 1
    /\ req[w] # Idle
    /\ \/ Becomes(w, Idle)
       \/ tick.phase = "CHILD" /\ tick.w = w /\ UNCHANGED req
    /\ tick' = IF tick.phase = "CHILD" /\ tick.w = w THEN [tick EXCEPT !.w = Nobody] ELSE tick
    /\ UNCHANGED <<now, enabled, cancelled, task, fire, fires, ticks>>
-----------------------------------------------------------------------------
Next ==
    \/ Clock \/ PollDue \/ PollNothing \/ PollFails \/ Answered \/ GiveUp \/ Cancel
    \/ \E v \in BOOLEAN : SetEnabled(v)
    \/ \E w \in Workers :
          \/ MintDue(w) \/ TaskLook(w) \/ TaskInsert(w) \/ RowWrite(w) \/ Fails(w)
          \/ \E p \in Periods, ds \in {Devices} \cup {{d} : d \in Devices} : Fire(w, p, ds)

Spec == Init /\ [][Next]_vars

(* The tick workflow polls while it lasts, its child keeps calling, and    *)
(* requests are served.  Time need not pass and no operator has to act.    *)
Fairness ==
    /\ WF_vars(PollDue) /\ WF_vars(\E w \in Workers : MintDue(w))
    /\ WF_vars(Answered) /\ WF_vars(GiveUp)
    /\ \A w \in Workers : WF_vars(Request(w))

FairSpec == Spec /\ Fairness
-----------------------------------------------------------------------------
(* One task for a period on a device, whatever is repeated, retried or     *)
(* fired by hand at the same time: fire_key() names the occurrence.        *)
MintedOnce == \A o \in Occurrences : task[o] <= 1

(* A ledger row that says QUEUED stands for a task that exists.            *)
QueuedHasTask == \A o \in Occurrences : fire[o] = "QUEUED" => task[o] > 0

(* An occurrence has one task, and the ledger does not claim one it lacks. *)
OccurrencesSound == MintedOnce /\ QueuedHasTask

(* A period that is due while the tick workflow has a poll left is decided *)
(* (minted or skipped), unless the schedule is disabled or cancelled or    *)
(* the poll's retries are used up: under COALESCE_LATEST a backlog is not  *)
(* left lying, whatever is fired, crashed or timed out meanwhile.  SKIP    *)
(* promises less: poll_due() never lists a backlog of two periods.         *)
PeriodsDecided ==
    \A p \in Periods :
        (p <= now /\ ticks < MaxTicks) ~>
            (p \in Attempted \/ ~ enabled \/ cancelled \/ tick.phase = "FAILED")
=============================================================================
