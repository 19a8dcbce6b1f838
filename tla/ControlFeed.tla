----------------------------- MODULE ControlFeed -----------------------------
(***************************************************************************)
(* The control events of one device: operators cancel, pause and resume    *)
(* tasks (platform_tasks.py), the API derives one stream per device from   *)
(* the events kept on the task rows (mobile_service.py,                    *)
(* fleet_identity.py), and the Companion follows it with a cursor, inline  *)
(* events of its heartbeat and a snapshot (ControlSyncClient.kt,           *)
(* ControlStateStore.kt).  A request takes its time of day before it waits *)
(* for the device row; no two requests here have the same millisecond, so  *)
(* the time is the deviceControlSeq.                                       *)
(***************************************************************************)
EXTENDS ApiRequests, Sequences, FiniteSets, FiniteSetsExt

CONSTANTS FeedTasks,     \* tasks of the device
          MaxOpen,       \* control requests open at the same time
          MaxKeep,       \* events kept per task (MAX_CONTROL_EVENTS)
          MaxInline,     \* events of a heartbeat (MAX_INLINE_CONTROL_EVENTS)
          PullLimit      \* events of a page

ASSUME FeedAssumption ==
    /\ IsFiniteSet(FeedTasks)
    /\ MaxOpen \in Nat /\ MaxKeep \in Nat \ {0} /\ MaxInline \in Nat /\ PullLimit \in Nat \ {0}

VARIABLES stamp,         \* the clock, in milliseconds given out
          kept,          \* kept[t]: control events on the task row, by controlRevision
          business,      \* business[t]: LIVE, CANCEL_REQUESTED or FINAL
          wire,          \* the answer the Companion is about to apply
          cursor,        \* lastAppliedControlSeq
          mirror,        \* mirror[t]: state in the Companion's task_inbox
          acks,          \* cancel acknowledgements waiting for upload
          applied,       \* history: seqs applied, or there when a snapshot was taken
          behind,        \* history: seqs written when a later one was applied or answered
          omitted        \* history: seqs a heartbeat had no room for

feedVars == <<stamp, kept, business, wire, cursor, mirror, acks, applied, behind, omitted>>
gaps == <<behind, omitted>>

NoAnswer == [kind |-> "NONE", events |-> {}, through |-> 0, final |-> {}]

FeedInit ==
    /\ stamp = 1 /\ kept = [t \in FeedTasks |-> {}]
    /\ business = [t \in FeedTasks |-> "LIVE"]
    /\ wire = NoAnswer /\ cursor = 0 /\ mirror = [t \in FeedTasks |-> "NONE"]
    /\ acks = {} /\ applied = {} /\ behind = {} /\ omitted = {}

(* controlRevision of the next event: the newest event is always kept.     *)
NextControlRevision(t) == 1 + Max({e.rev : e \in kept[t]} \cup {0})

(* _retain_control_events(): the newest events of the task, and the        *)
(* protected ones, which mark an unknown result.                           *)
Retained(es) ==
    {e \in es : e.type = "UNKNOWN" \/ Cardinality({f \in es : f.rev > e.rev}) < MaxKeep}

(* _record_control_event()                                                 *)
Kept(t, seq, type) ==
    Retained(kept[t] \cup {[rev |-> NextControlRevision(t), seq |-> seq, t |-> t, type |-> type]})

(* The bound on open requests that write control events.                   *)
RequestSlot == Cardinality({v \in Workers : req[v] # Idle}) < MaxOpen

(* cancel(), pause() and resume(): the time first, the device row later.   *)
ControlStart(w, t, type) ==
    /\ RequestSlot
    /\ Begin(w, [op |-> "CONTROL", t |-> t, type |-> type, at |-> stamp])
    /\ stamp' = stamp + 1
    /\ UNCHANGED <<kept, business, wire, cursor, mirror, acks, applied, gaps>>

(* CANCEL is the cancellation of a task the device executes, TERMINAL that *)
(* of one it does not, PAUSE stands for pause and resume, UNKNOWN for      *)
(* mark-unknown and the verdicts on it.                                    *)
ControlCommit(w) ==
    LET r == req[w] IN
    /\ r # Idle
    /\ IF \/ business[r.t] = "FINAL"
          \/ business[r.t] = "CANCEL_REQUESTED" /\ r.type # "TERMINAL"
       THEN UNCHANGED <<kept, business, behind>>
       ELSE /\ behind' = behind \cup {n \in {r.at} : n <= cursor \/ n <= wire.through}
            /\ kept' = [kept EXCEPT ![r.t] = Kept(r.t, r.at, r.type)]
            /\ business' = [business EXCEPT ![r.t] =
                  CASE r.type = "CANCEL" -> "CANCEL_REQUESTED"
                    [] r.type = "TERMINAL" -> "FINAL"
                    [] OTHER -> @]
    /\ End(w)
    /\ UNCHANGED <<stamp, wire, cursor, mirror, acks, applied, omitted>>

-----------------------------------------------------------------------------
(* _device_control_entries()                                               *)
Entries == UNION {kept[t] : t \in FeedTasks}
Seqs == {e.seq : e \in Entries}
Watermark == IF Seqs = {} THEN 0 ELSE Max(Seqs)
Unseen == {e \in Entries : e.seq > cursor}

(* The n entries of a set with the smallest, or the largest, seq.          *)
Oldest(n, es) == {e \in es : Cardinality({f \in es : f.seq < e.seq}) < n}
Newest(n, es) == {e \in es : Cardinality({f \in es : f.seq > e.seq}) < n}

(* Where control_pull() refuses the cursor.                                *)
TooOld == IF Seqs = {} THEN cursor > 0 ELSE cursor < Min(Seqs)

(* The page of control_pull(): what comes next after the cursor.           *)
(* Mutant: the page is cut off at the wrong end.                           *)
NextPageNewest == Newest(PullLimit, Unseen)
NextPage == Oldest(PullLimit, Unseen)

Pull ==
    /\ wire = NoAnswer /\ ~TooOld
    /\ wire' = [kind |-> "EVENTS", events |-> NextPage, final |-> {},
                through |-> IF NextPage = {} THEN cursor ELSE Max({e.seq : e \in NextPage})]
    /\ UNCHANGED <<reqVars, stamp, kept, business, cursor, mirror, acks, applied, gaps>>

(* reconcile_snapshot(), after a refused cursor or when it is forced       *)
Snapshot ==
    /\ wire = NoAnswer
    /\ wire' = [kind |-> "SNAPSHOT", events |-> Entries, through |-> Watermark,
                final |-> {t \in FeedTasks : business[t] = "FINAL"}]
    /\ UNCHANGED <<reqVars, stamp, kept, business, cursor, mirror, acks, applied, gaps>>

(* device_heartbeat(): the newest events the Companion has not applied.    *)
Heartbeat ==
    LET inline == Newest(MaxInline, Unseen) IN
    /\ wire = NoAnswer
    /\ wire' = [kind |-> "EVENTS", events |-> inline, final |-> {},
                through |-> IF inline = {} THEN cursor ELSE Max({e.seq : e \in inline})]
    /\ omitted' = omitted \cup {e.seq : e \in Unseen \ inline}
    /\ UNCHANGED <<reqVars, stamp, kept, business, cursor, mirror, acks, applied, behind>>

-----------------------------------------------------------------------------
(* The events of an answer that are ahead of the cursor.                   *)
Fresh == {e \in wire.events : e.seq > cursor}

(* applyOne(): a held task is finished by CANCEL or TERMINAL, a running    *)
(* one goes on.                                                            *)
Mirrored(t) ==
    IF mirror[t] = "HELD" /\ \E e \in Fresh : e.t = t /\ e.type \in {"CANCEL", "TERMINAL"}
    THEN "DONE" ELSE mirror[t]

(* applyEvents(): one transaction over mirror, acks and cursor.            *)
ApplyEvents ==
    /\ wire.kind = "EVENTS"
    /\ mirror' = [t \in FeedTasks |-> Mirrored(t)]
    /\ acks' = acks \cup {e.t : e \in {f \in Fresh : f.type = "CANCEL"}}
    /\ applied' = applied \cup {e.seq : e \in Fresh}
    /\ cursor' = Max({cursor, wire.through})
    /\ wire' = NoAnswer
    /\ UNCHANGED <<reqVars, stamp, kept, business, gaps>>

(* applyReconcileSnapshot(): what is final on the server is finished, and  *)
(* the cursor jumps.                                                       *)
ApplySnapshot ==
    /\ wire.kind = "SNAPSHOT"
    /\ mirror' = [t \in FeedTasks |->
                    IF t \in wire.final /\ mirror[t] # "NONE" THEN "DONE" ELSE mirror[t]]
    /\ applied' = applied \cup {e.seq : e \in wire.events}
    /\ cursor' = Max({cursor, wire.through})
    /\ wire' = NoAnswer
    /\ UNCHANGED <<reqVars, stamp, kept, business, acks, gaps>>

(* An answer is lost, or the Companion dies before its transaction.        *)
AnswerLost ==
    /\ wire # NoAnswer /\ wire' = NoAnswer
    /\ UNCHANGED <<reqVars, stamp, kept, business, cursor, mirror, acks, applied, gaps>>

(* _append_control_event(): the event of an acknowledged cancel, kept by   *)
(* the same rule.                                                          *)
AckEvent(t) == Kept(t, stamp, "TERMINAL")

(* deliverPendingAcks() and the server's answer to it: a requested cancel  *)
(* is final.  Not while the task is running locally.                       *)
DeliverAck(t) ==
    /\ t \in acks /\ mirror[t] # "RUNNING" /\ RequestSlot
    /\ acks' = acks \ {t}
    /\ IF business[t] = "CANCEL_REQUESTED"
       THEN /\ business' = [business EXCEPT ![t] = "FINAL"] /\ stamp' = stamp + 1
            /\ kept' = [kept EXCEPT ![t] = AckEvent(t)]
       ELSE UNCHANGED <<business, stamp, kept>>
    /\ UNCHANGED <<reqVars, wire, cursor, mirror, applied, gaps>>

(* The task reaches the Companion, runs and is over or paused.             *)
MirrorMoves(t) ==
    /\ \/ mirror[t] = "NONE" /\ business[t] = "LIVE" /\ mirror' = [mirror EXCEPT ![t] = "HELD"]
       \/ mirror[t] = "HELD" /\ mirror' = [mirror EXCEPT ![t] = "RUNNING"]
       \/ mirror[t] = "RUNNING" /\ \E st \in {"HELD", "DONE"} : mirror' = [mirror EXCEPT ![t] = st]
    /\ UNCHANGED <<reqVars, stamp, kept, business, wire, cursor, acks, applied, gaps>>

FeedNext ==
    \/ \E w \in Workers :
          \/ \E t \in FeedTasks, type \in {"CANCEL", "TERMINAL", "PAUSE", "UNKNOWN"} : ControlStart(w, t, type)
          \/ ControlCommit(w)
    \/ Pull \/ Snapshot \/ Heartbeat
    \/ ApplyEvents \/ ApplySnapshot \/ AnswerLost
    \/ \E t \in FeedTasks : DeliverAck(t) \/ MirrorMoves(t)

-----------------------------------------------------------------------------
(* Pages, snapshots and lost answers pass over no control event: what the  *)
(* stream holds at or below the Companion's cursor was applied, or was     *)
(* there when it took a snapshot, or came to be passed over in one of the  *)
(* two ways the code has.  A request that took its time of day before      *)
(* another one, and committed after it, writes behind what the Companion   *)
(* was told; a heartbeat carries the newest events only, and its watermark *)
(* covers the older ones it leaves out.                                    *)
SkipsExplained == \A s \in Seqs : s <= cursor => s \in applied \cup behind \cup omitted

(* No control event is passed over at all.                                 *)
(* compose_device_control_seqs() says that a client cursor can never       *)
(* silently skip a newer event.                                            *)
NothingSkipped == \A s \in Seqs : s <= cursor => s \in applied
=============================================================================
