--------------------------- MODULE ScheduleProofs ---------------------------
(***************************************************************************)
(* An occurrence of a schedule has at most one task, and its ledger row    *)
(* never claims one that does not exist, for any number of devices,        *)
(* periods, workers, crashes, retries and manual fires, under either       *)
(* missed-fire policy.                                                     *)
(*                                                                         *)
(* OccurrencesSound is not inductive: between the insert of the task and   *)
(* the ledger row the request only remembers that the task exists.         *)
(* Remembered says that what it remembers is so, and stays so, because     *)
(* tasks are never deleted.                                                *)
(***************************************************************************)
EXTENDS Schedules, TLAPS

Steps == {"LOOK", "INSERT", "ROW"}
RowStates == {"SKIPPED", "ERROR", "QUEUED"}

(* A request between two of its steps.                                     *)
Shaped(r) ==
    \/ r = Idle
    \/ /\ DOMAIN r = {"op", "todo", "step", "seen", "status"}
       /\ r.step \in Steps /\ r.status \in RowStates

ReqOK == DOMAIN req = Workers /\ \A w \in Workers : Shaped(req[w])

RowsOK ==
    /\ task \in [Occurrences -> Nat]
    /\ fire \in [Occurrences -> {"NONE"} \cup RowStates]

(* The task a request believes in exists.                                  *)
Remembers(r) ==
    r # Idle /\ (r.seen \/ r.status = "QUEUED") =>
        LET o == <<Head(r.todo).p, Head(r.todo).d>>
        IN  o \in Occurrences => task[o] > 0

Remembered == \A w \in Workers : Remembers(req[w])

ScheduleInv == ReqOK /\ RowsOK /\ Remembered /\ OccurrencesSound

LEMMA WorkShaped ==
  ASSUME NEW op, NEW todo
  PROVE  Shaped(Work(op, todo)) /\ Remembers(Work(op, todo))
BY DEF Shaped, Work, Remembers, Idle, Steps, RowStates

LEMMA ScheduleInit == Init => ScheduleInv
BY DEF Init, ScheduleInv, ReqOK, RowsOK, Remembered, Remembers, Shaped, Idle, RowStates,
       OccurrencesSound, MintedOnce, QueuedHasTask

\* A step that only replaces the request of one worker.
LEMMA OneRequest ==
  ASSUME ScheduleInv, NEW w \in Workers, NEW r, Shaped(r), Becomes(w, r), Remembers(r),
         UNCHANGED <<task, fire>>
  PROVE  ScheduleInv'
<1>1. ReqOK'
  BY DEF ScheduleInv, ReqOK, Becomes
<1>2. Remembered'
  BY DEF ScheduleInv, ReqOK, Becomes, Remembered, Remembers
<1>3. RowsOK' /\ OccurrencesSound'
  BY DEF ScheduleInv, RowsOK, OccurrencesSound, MintedOnce, QueuedHasTask
<1> QED BY <1>1, <1>2, <1>3 DEF ScheduleInv
LEMMA TaskLookInv ==
  ASSUME ScheduleInv, NEW w \in Workers, TaskLook(w)
  PROVE  ScheduleInv'
<1> DEFINE o == Head(req[w].todo)
           r == [req[w] EXCEPT !.step = "INSERT", !.seen = task[<<o.p, o.d>>] > 0]
<1>1. Becomes(w, r) /\ UNCHANGED <<task, fire>> /\ req[w] # Idle /\ Shaped(req[w])
  BY DEF TaskLook, ScheduleInv, ReqOK
<1>2. Remembers(req[w])
  BY DEF ScheduleInv, Remembered
<1>3. /\ DOMAIN r = DOMAIN req[w] /\ r.step = "INSERT" /\ r.status = req[w].status
      /\ r.seen = (task[<<o.p, o.d>>] > 0) /\ r.todo = req[w].todo
  BY <1>1 DEF Shaped
<1>4. Shaped(r)
  BY <1>1, <1>3 DEF Shaped, Steps
<1>5. Remembers(r)
  BY <1>1, <1>2, <1>3 DEF Remembers
<1> QED BY <1>1, <1>4, <1>5, OneRequest

LEMMA TaskInsertInv ==
  ASSUME ScheduleInv, NEW w \in Workers, TaskInsert(w)
  PROVE  ScheduleInv'
<1> DEFINE o == Head(req[w].todo)
           q == [req[w] EXCEPT !.step = "ROW", !.status = "QUEUED"]
           e == [req[w] EXCEPT !.step = "ROW", !.status = ErrorRow]
<1>1. UNCHANGED fire /\ req[w] # Idle /\ Shaped(req[w]) /\ Remembers(req[w])
  BY DEF TaskInsert, ScheduleInv, ReqOK, Remembered
<1>2. /\ q.step = "ROW" /\ q.status = "QUEUED" /\ q.seen = req[w].seen /\ q.todo = req[w].todo
      /\ DOMAIN q = DOMAIN req[w]
  BY <1>1 DEF Shaped
<1>3. /\ e.step = "ROW" /\ e.status = "ERROR" /\ e.seen = req[w].seen /\ e.todo = req[w].todo
      /\ DOMAIN e = DOMAIN req[w]
  BY <1>1 DEF Shaped, ErrorRow
<1>4. Shaped(q) /\ Shaped(e) /\ Shaped(Idle) /\ Remembers(Idle)
  BY <1>1, <1>2, <1>3 DEF Shaped, Steps, RowStates, Remembers
<1>5. CASE req[w].seen /\ Becomes(w, q) /\ UNCHANGED task
  <2>1. Remembers(q)
    BY <1>1, <1>2, <1>5 DEF Remembers
  <2> QED BY <1>1, <1>4, <1>5, <2>1, OneRequest
<1>6. CASE ~req[w].seen /\ TaskRefused(w)
  <2>1. Remembers(e)
    BY <1>3, <1>6 DEF Remembers
  <2>2. UNCHANGED task /\ (Becomes(w, Idle) \/ Becomes(w, e))
    BY <1>6 DEF TaskRefused
  <2> QED BY <1>1, <1>4, <2>1, <2>2, OneRequest
<1>7. CASE ~KeyTaken(o) /\ task' = [task EXCEPT ![<<o.p, o.d>>] = @ + 1] /\ Becomes(w, q)
  <2>1. PICK k : k = <<o.p, o.d>>
    OBVIOUS
  <2>2. task' = [task EXCEPT ![k] = task[k] + 1] /\ ~(task[k] > 0)
    BY <1>7, <2>1 DEF KeyTaken
  <2>3. /\ task' \in [Occurrences -> Nat]
        /\ \A x \in Occurrences : task[x] > 0 \/ x = k => task'[x] > 0
        /\ \A x \in Occurrences : task'[x] <= 1
    <3>1. task \in [Occurrences -> Nat] /\ \A x \in Occurrences : task[x] <= 1
      BY DEF ScheduleInv, RowsOK, OccurrencesSound, MintedOnce
    <3>2. task' \in [Occurrences -> Nat]
      <4>1. CASE k \in Occurrences
        <5>1. task[k] + 1 \in Nat
          BY <3>1, <4>1
        <5> QED BY <2>2, <3>1, <5>1
      <4>2. CASE k \notin Occurrences
        BY <2>2, <3>1, <4>2
      <4> QED BY <4>1, <4>2
    <3>3. ASSUME NEW x \in Occurrences
          PROVE  (task[x] > 0 \/ x = k => task'[x] > 0) /\ task'[x] <= 1
      <4>1. CASE x = k
        <5>1. task[x] = 0 /\ task'[x] = task[x] + 1
          BY <2>2, <3>1, <4>1
        <5> QED BY <5>1
      <4>2. CASE x # k
        BY <2>2, <3>1, <4>2
      <4> QED BY <4>1, <4>2
    <3> QED BY <3>2, <3>3
  <2>4. ReqOK'
    BY <1>4, <1>7 DEF ScheduleInv, ReqOK, Becomes
  <2>5. \A v \in Workers \ {w} : req'[v] = req[v]
    BY <1>7 DEF Becomes, ScheduleInv, ReqOK
  <2>6. req'[w] = q
    BY <1>7 DEF Becomes, ScheduleInv, ReqOK
  <2>7. ASSUME NEW v \in Workers PROVE Remembers(req[v])'
    <3>1. CASE v = w
      BY <1>2, <2>1, <2>3, <2>6, <3>1 DEF Remembers
    <3>2. CASE v # w
      <4>1. Remembers(req[v])
        BY DEF ScheduleInv, Remembered
      <4> QED BY <2>3, <2>5, <3>2, <4>1 DEF Remembers
    <3> QED BY <3>1, <3>2
  <2>8. RowsOK' /\ OccurrencesSound'
    BY <1>1, <2>3 DEF ScheduleInv, RowsOK, OccurrencesSound, MintedOnce, QueuedHasTask
  <2> QED BY <2>4, <2>7, <2>8 DEF ScheduleInv, Remembered
<1> QED BY <1>5, <1>6, <1>7 DEF TaskInsert

LEMMA RowWriteInv ==
  ASSUME ScheduleInv, NEW w \in Workers, RowWrite(w)
  PROVE  ScheduleInv'
<1> DEFINE o == Head(req[w].todo)
           r == Work(req[w].op, Tail(req[w].todo))
<1>1. UNCHANGED task /\ req[w] # Idle /\ Shaped(req[w]) /\ Remembers(req[w])
  BY DEF RowWrite, ScheduleInv, ReqOK, Remembered
<1>2. Shaped(r) /\ Remembers(r) /\ Shaped(Idle) /\ Remembers(Idle)
  BY WorkShaped DEF Shaped, Remembers
<1>3. CASE UNCHANGED fire /\ (Advance(w) \/ Becomes(w, Idle))
  BY <1>1, <1>2, <1>3, OneRequest DEF Advance
<1>4. CASE Advance(w) /\ fire' = [fire EXCEPT ![<<o.p, o.d>>] = req[w].status]
  <2>1. PICK k : k = <<o.p, o.d>>
    OBVIOUS
  <2>2. req[w].status \in RowStates /\ (req[w].status = "QUEUED" /\ k \in Occurrences => task[k] > 0)
    BY <1>1, <2>1 DEF Shaped, Remembers
  <2>3. RowsOK' /\ OccurrencesSound'
    BY <1>1, <1>4, <2>1, <2>2 DEF ScheduleInv, RowsOK, OccurrencesSound, MintedOnce, QueuedHasTask
  <2>4. Becomes(w, r)
    BY <1>4 DEF Advance
  <2>5. ReqOK'
    BY <1>2, <2>4 DEF ScheduleInv, ReqOK, Becomes
  <2>6. Remembered'
    BY <1>1, <1>2, <2>4 DEF ScheduleInv, ReqOK, Becomes, Remembered, Remembers
  <2> QED BY <2>3, <2>5, <2>6 DEF ScheduleInv
<1> QED BY <1>3, <1>4 DEF RowWrite

LEMMA ScheduleStep == ScheduleInv /\ [Next]_vars => ScheduleInv'
<1> SUFFICES ASSUME ScheduleInv, [Next]_vars PROVE ScheduleInv'
  OBVIOUS
<1>1. CASE UNCHANGED <<task, fire, req>>
  BY <1>1 DEF ScheduleInv, ReqOK, RowsOK, Remembered, Remembers, OccurrencesSound, MintedOnce, QueuedHasTask
<1>2. ASSUME NEW w \in Workers, MintDue(w) PROVE ScheduleInv'
  BY <1>2, WorkShaped, OneRequest DEF MintDue, MintRead
<1>3. ASSUME NEW w \in Workers, NEW p \in Periods, NEW ds, Fire(w, p, ds) PROVE ScheduleInv'
  BY <1>3, WorkShaped, OneRequest DEF Fire
<1>4. ASSUME NEW w \in Workers, Fails(w) PROVE ScheduleInv'
  <2>1. Shaped(Idle) /\ Remembers(Idle)
    BY DEF Shaped, Remembers
  <2> QED BY <1>1, <1>4, <2>1, OneRequest DEF Fails
<1>5. CASE Clock \/ PollDue \/ PollNothing \/ PollFails \/ Answered \/ GiveUp \/ Cancel \/ \E v \in BOOLEAN : SetEnabled(v)
  BY <1>1, <1>5 DEF Clock, PollDue, PollNothing, PollFails, Answered, GiveUp, Cancel, SetEnabled
<1>6. CASE UNCHANGED vars
  BY <1>1, <1>6 DEF vars
<1> QED BY <1>2, <1>3, <1>4, <1>5, <1>6, TaskLookInv, TaskInsertInv, RowWriteInv DEF Next

\* Requests remember true things about tasks, in every reachable state.
THEOREM ScheduleInvariant == Spec => []ScheduleInv
BY ScheduleInit, ScheduleStep, PTL DEF Spec

\* One task for a period on a device, and a ledger row that says QUEUED
\* stands for a task: for every number of devices, periods and workers,
\* whatever is crashed, timed out, retried or fired by hand at the same time.
THEOREM OccurrencesSoundCorrect == Spec => []OccurrencesSound
<1>1. ScheduleInv => OccurrencesSound
  BY DEF ScheduleInv
<1> QED BY <1>1, ScheduleInvariant, PTL
=============================================================================
