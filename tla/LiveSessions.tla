---------------------------- MODULE LiveSessions ----------------------------
(***************************************************************************)
(* Remote viewing and control of one device.  FleetLiveService keeps its   *)
(* sessions in memory and one lease row in the database; an operator's     *)
(* inputs travel as messages that may be late, repeated or out of order    *)
(* and pass check_input() before they are relayed to the Companion.        *)
(* LiveService, the first slice, is still mounted beside it and keeps its  *)
(* sessions and by_device in memory only.                                  *)
(***************************************************************************)
EXTENDS ApiRequests, FiniteSets

CONSTANTS LiveIds,        \* fleet session ids
          LegacyIds,      \* session ids of the first slice
          MaxSeq,         \* bound: sequence numbers of inputs
          RateLimit,      \* maxInputRatePerSecond, INPUT_RATE_PER_S
          DropAfter       \* SEQ_REGRESSION_DROP_AFTER

ASSUME LiveAssumption ==
    {MaxSeq, RateLimit, DropAfter} \subseteq Nat /\ "TASK" \notin LiveIds /\ "NONE" \notin LegacyIds

VARIABLES live,           \* the fleet sessions
          liveRow,        \* device_lease: owner, type, not expired or cancelled
          liveEpoch,      \* fencing counter of the device
          inputs,           \* inputs an operator has sent
          relayed,        \* history: inputs relayed, with the epoch they met
          misled,         \* history: an input was relayed that must not be
          resumed,        \* history: resume() of a task replaced a REMOTE row
          legacy,         \* the sessions of the first slice
          byDevice,       \* its entry for the device ("NONE")
          popped          \* history: the end of one session removed another's entry

fleetLive == <<live, liveRow, liveEpoch, inputs, relayed, misled, resumed>>
legacyLive == <<legacy, byDevice, popped>>
liveVars == <<fleetLive, legacyLive>>

NoLive == [state |-> "NONE"]

NewLive(tier, epoch) ==
    [state |-> "VIEWING", tier |-> tier, confirmed |-> FALSE, epoch |-> epoch, mark |-> 0,
     regressions |-> 0, companion |-> FALSE, old |-> FALSE]

LiveInit ==
    /\ live = [s \in LiveIds |-> NoLive]
    /\ liveRow = [owner |-> "NONE", type |-> "NONE", active |-> FALSE] /\ liveEpoch = 0
    /\ inputs = {} /\ relayed = {} /\ misled = FALSE /\ resumed = FALSE
    /\ legacy = [s \in LegacyIds |-> NoLive] /\ byDevice = "NONE" /\ popped = FALSE

Open(s) == live[s].state \in {"VIEWING", "REMOTE"}

(* establish(): only an active row of the live lane refuses; any other row *)
(* is replaced.                                                            *)
LaneTaken == liveRow.active /\ liveRow.owner \in LiveIds

Establish(w, s, tier) ==
    /\ AtOnce(w) /\ live[s] = NoLive /\ ~LaneTaken
    /\ liveEpoch' = liveEpoch + 1
    /\ live' = [live EXCEPT ![s] = NewLive(tier, liveEpoch + 1)]
    /\ liveRow' = [owner |-> s, type |-> "LIVE", active |-> TRUE]
    /\ UNCHANGED <<inputs, relayed, misled, resumed, legacyLive>>

(* _close_locked() and _release_locked() on a session and on the row       *)
Closed == [state |-> "CLOSED"]
RowClosed(s, row) == IF row.owner = s THEN [row EXCEPT !.active = FALSE] ELSE row
Viewing(l) == [l EXCEPT !.state = "VIEWING"]
RowViewing(s, row) == IF row.owner = s THEN [row EXCEPT !.type = "LIVE"] ELSE row

(* _sweep_locked(): past the limit a session is closed; a silent stream or *)
(* a lost end releases it or, some seconds later, closes it.               *)
SweepMay(s) ==
    IF live[s].old THEN {"CLOSE"}
    ELSE IF live[s].state = "REMOTE" THEN {"KEEP", "RELEASE", "CLOSE"} ELSE {"KEEP", "CLOSE"}
Swept(s, how) ==
    CASE how = "CLOSE" -> Closed [] how = "RELEASE" -> Viewing(live[s]) [] OTHER -> live[s]
RowSwept(s, how) ==
    CASE how = "CLOSE" -> RowClosed(s, liveRow)
      [] how = "RELEASE" -> RowViewing(s, liveRow) [] OTHER -> liveRow

(* status(), and the sweep every refused request leaves behind             *)
LiveStatus(w, s) ==
    /\ AtOnce(w) /\ Open(s)
    /\ \E how \in SweepMay(s) \ {"KEEP"} :
          live' = [live EXCEPT ![s] = Swept(s, how)] /\ liveRow' = RowSwept(s, how)
    /\ UNCHANGED <<liveEpoch, inputs, relayed, misled, resumed, legacyLive>>

(* ack_projection()                                                        *)
AckProjection(w, s, granted) ==
    /\ AtOnce(w) /\ Open(s) /\ ~live[s].confirmed
    /\ live' = [live EXCEPT ![s] = IF granted THEN [@ EXCEPT !.confirmed = TRUE] ELSE Closed]
    /\ liveRow' = IF granted THEN liveRow ELSE RowClosed(s, liveRow)
    /\ UNCHANGED <<liveEpoch, inputs, relayed, misled, resumed, legacyLive>>

(* Mutant: the tier decides, whether or not the user has agreed.           *)
MayControlUnconfirmed(l) == l.tier = "INTERACTIVE"
MayControl(l) == l.tier = "INTERACTIVE" /\ l.confirmed

HeldByOther(s) == liveRow.active /\ liveRow.type = "REMOTE" /\ liveRow.owner # s

TakeControl(w, s) ==
    /\ AtOnce(w) /\ Open(s) /\ live[s].state = "VIEWING" /\ ~live[s].old
    /\ MayControl(live[s]) /\ ~HeldByOther(s)
    /\ liveEpoch' = liveEpoch + 1
    /\ live' = [live EXCEPT ![s].state = "REMOTE", ![s].epoch = liveEpoch + 1,
                            ![s].mark = 0, ![s].regressions = 0]
    /\ liveRow' = [owner |-> s, type |-> "REMOTE", active |-> TRUE]
    /\ UNCHANGED <<inputs, relayed, misled, resumed, legacyLive>>

ReleaseControl(w, s) ==
    /\ AtOnce(w) /\ live[s].state = "REMOTE" /\ ~live[s].old
    /\ live' = [live EXCEPT ![s] = Viewing(@)]
    /\ liveRow' = RowViewing(s, liveRow)
    /\ UNCHANGED <<liveEpoch, inputs, relayed, misled, resumed, legacyLive>>

Stop(w, s) ==
    /\ AtOnce(w) /\ Open(s)
    /\ live' = [live EXCEPT ![s] = Closed]
    /\ liveRow' = RowClosed(s, liveRow)
    /\ UNCHANGED <<liveEpoch, inputs, relayed, misled, resumed, legacyLive>>

(* notify_disconnect(): REMOTE is given up at once.                        *)
NotifyDisconnect(w, s, who) ==
    /\ AtOnce(w) /\ Open(s) /\ ~live[s].old
    /\ live' = [live EXCEPT ![s] = [Viewing(live[s]) EXCEPT !.companion = @ /\ who = "OPERATOR"]]
    /\ liveRow' = IF live[s].state = "REMOTE" THEN RowViewing(s, liveRow) ELSE liveRow
    /\ UNCHANGED <<liveEpoch, inputs, relayed, misled, resumed, legacyLive>>

-----------------------------------------------------------------------------
(* An input of the operator; naming the epoch is optional (0).             *)
Compose(s, seq, named) ==
    /\ live[s].state = "REMOTE"
    /\ inputs' = inputs \cup {[session |-> s, seq |-> seq, epoch |-> IF named THEN live[s].epoch ELSE 0]}
    /\ inputs' # inputs
    /\ UNCHANGED <<reqVars, live, liveRow, liveEpoch, relayed, misled, resumed, legacyLive>>

EpochMatches(l, msg) == msg.epoch \in {0, l.epoch}

(* Mutant: an equal sequence number counts as new.                         *)
RegressionOnly(l, msg) == msg.seq < l.mark
Regression(l, msg) == msg.seq <= l.mark

(* check_input(): after state and order the age of the frame aimed at and  *)
(* the inputs of the last second decide.                                   *)
Verdicts(l, msg) ==
    IF l.state # "REMOTE" \/ l.tier # "INTERACTIVE" THEN {"FORBIDDEN"}
    ELSE IF Regression(l, msg) THEN {"REGRESSION"}
    ELSE {"EXPIRED", "ACCEPTED"}
         \cup IF Cardinality({a \in relayed : a[2] = l.epoch}) >= RateLimit THEN {"RATE"} ELSE {}

(* should_drop_remote()                                                    *)
Judged(l, msg, verdict) ==
    CASE verdict = "ACCEPTED" -> [l EXCEPT !.mark = msg.seq]
      [] verdict = "RATE" -> Viewing(l)
      [] verdict = "REGRESSION" ->
            IF l.regressions + 1 >= DropAfter THEN Viewing(l) ELSE [l EXCEPT !.regressions = @ + 1]
      [] OTHER -> l

(* route_input(): an accepted input is relayed if the Companion is there,  *)
(* and its number is used up either way.                                   *)
RouteInput(w, msg) ==
    LET s == msg.session  l == live[s]  this == <<s, l.epoch, msg.seq>> IN
    /\ AtOnce(w) /\ Open(s) /\ ~l.old /\ EpochMatches(l, msg)
    /\ \E verdict \in Verdicts(l, msg) :
          /\ live' = [live EXCEPT ![s] = Judged(l, msg, verdict)]
          /\ liveRow' = IF l.state = "REMOTE" /\ Judged(l, msg, verdict).state = "VIEWING"
                        THEN RowViewing(s, liveRow) ELSE liveRow
          /\ IF verdict = "ACCEPTED" /\ l.companion
             THEN /\ relayed' = relayed \cup {this}
                  /\ misled' = (misled \/ this \in relayed \/ ~l.confirmed
                                 \/ msg.epoch \notin {0, l.epoch}
                                 \/ \E a \in relayed : a[1] = s /\ a[2] = l.epoch /\ a[3] > msg.seq)
             ELSE UNCHANGED <<relayed, misled>>
    /\ UNCHANGED <<liveEpoch, inputs, resumed, legacyLive>>

(* attach_companion()                                                      *)
AttachCompanion(w, s) ==
    /\ AtOnce(w) /\ Open(s) /\ ~live[s].companion
    /\ live' = [live EXCEPT ![s].companion = TRUE]
    /\ UNCHANGED <<liveRow, liveEpoch, inputs, relayed, misled, resumed, legacyLive>>

(* Thirty minutes: the row has expired, and the session, if the process    *)
(* still knows it, will be swept.                                          *)
LiveLimit(s) ==
    /\ \/ Open(s) /\ ~live[s].old /\ live' = [live EXCEPT ![s].old = TRUE]
       \/ live[s].state = "GONE" /\ liveRow.owner = s /\ liveRow.active /\ UNCHANGED live
    /\ liveRow' = RowClosed(s, liveRow)
    /\ UNCHANGED <<reqVars, liveEpoch, inputs, relayed, misled, resumed, legacyLive>>

(* A task is claimed beside a viewer, or resumed over anybody.             *)
TaskLease(w, type) ==
    /\ AtOnce(w) /\ liveRow.owner # "TASK"
    /\ \/ type = "CLAIM" /\ ~(liveRow.active /\ liveRow.type = "REMOTE") /\ UNCHANGED resumed
       \/ type = "RESUME" /\ resumed' = (resumed \/ (liveRow.active /\ liveRow.type = "REMOTE"))
    /\ liveRow' = [owner |-> "TASK", type |-> "AUTO", active |-> TRUE]
    /\ liveEpoch' = liveEpoch + 1
    /\ UNCHANGED <<live, inputs, relayed, misled, legacyLive>>

(* The API process restarts: the sessions are gone, the row is not.        *)
LiveRestart ==
    /\ \E s \in LiveIds : Open(s)
    /\ live' = [s \in LiveIds |-> IF live[s] = NoLive THEN NoLive ELSE [state |-> "GONE"]]
    /\ UNCHANGED <<reqVars, liveRow, liveEpoch, inputs, relayed, misled, resumed, legacyLive>>

-----------------------------------------------------------------------------
(* The first slice.                                                        *)
LegacyRunning(s) == legacy[s].state \in {"VIEWING", "REMOTE"}
Expired(s) == LegacyRunning(s) /\ legacy[s].old

(* Mutant: an entry never refuses another session.                         *)
EntryFree == FALSE
EntryTaken == byDevice # "NONE" /\ legacy[byDevice].state # "NONE" /\ ~Expired(byDevice)

LegacyOpen(w, s) ==
    /\ AtOnce(w) /\ legacy[s] = NoLive /\ ~EntryTaken
    /\ legacy' = [legacy EXCEPT ![s] = [state |-> "VIEWING", mark |-> 0, rate |-> 0, old |-> FALSE]]
    /\ byDevice' = s
    /\ UNCHANGED <<fleetLive, popped>>

(* The entry goes with whichever session ends.                             *)
EntryRemoved(s) ==
    /\ byDevice' = "NONE"
    /\ popped' = (popped \/ byDevice \notin {"NONE", s})

LegacySwept(s) == IF Expired(s) THEN "CLOSED" ELSE legacy[s].state

LegacyTouch(w, s) ==
    /\ AtOnce(w) /\ LegacyRunning(s)
    /\ \/ /\ Expired(s)
          /\ legacy' = [legacy EXCEPT ![s].state = "CLOSED"] /\ EntryRemoved(s)
       \/ /\ LegacySwept(s) = "VIEWING"
          /\ legacy' = [legacy EXCEPT ![s].state = "REMOTE", ![s].mark = 0, ![s].rate = 0]
          /\ UNCHANGED <<byDevice, popped>>
    /\ UNCHANGED fleetLive

(* release() does not sweep; stop() and a refused projection end it.       *)
LegacyLeave(w, s) ==
    /\ AtOnce(w)
    /\ \/ /\ legacy[s].state = "REMOTE" /\ legacy' = [legacy EXCEPT ![s].state = "VIEWING"]
          /\ UNCHANGED <<byDevice, popped>>
       \/ /\ legacy[s].state \in {"VIEWING", "REMOTE", "CLOSED"}
          /\ legacy' = [legacy EXCEPT ![s].state = "CLOSED"] /\ EntryRemoved(s)
    /\ UNCHANGED fleetLive

(* route_input() of the first slice: every refusal for order or rate ends  *)
(* the control.                                                            *)
LegacyInput(w, s, seq) ==
    LET l == legacy[s] IN
    /\ AtOnce(w) /\ l.state = "REMOTE"
    /\ legacy' = [legacy EXCEPT ![s] =
          IF seq <= l.mark \/ l.rate >= RateLimit THEN [l EXCEPT !.state = "VIEWING"]
          ELSE [l EXCEPT !.mark = seq, !.rate = l.rate + 1]]
    /\ UNCHANGED <<byDevice, popped, fleetLive>>

LegacyTime(s) ==
    /\ LegacyRunning(s) /\ ~legacy[s].old
    /\ legacy' = [legacy EXCEPT ![s].old = TRUE]
    /\ UNCHANGED <<reqVars, byDevice, popped, fleetLive>>

(* has_remote(): what the claim of a task asks.                            *)
HasRemote == byDevice # "NONE" /\ legacy[byDevice].state = "REMOTE"

LegacyRestart ==
    /\ \E s \in LegacyIds : LegacyRunning(s)
    /\ legacy' = [s \in LegacyIds |-> IF legacy[s] = NoLive THEN NoLive ELSE [state |-> "GONE"]]
    /\ byDevice' = "NONE"
    /\ UNCHANGED <<reqVars, popped, fleetLive>>

(* The two services share no state, so a behaviour stays with one of them. *)
LiveNext ==
    \/ \E s \in LiveIds :
          \/ \E w \in Workers :
                \/ \E tier \in {"PREVIEW", "INTERACTIVE"} : Establish(w, s, tier)
                \/ LiveStatus(w, s) \/ TakeControl(w, s) \/ ReleaseControl(w, s) \/ Stop(w, s)
                \/ \E who \in {"OPERATOR", "COMPANION"} : NotifyDisconnect(w, s, who)
                \/ \E granted \in BOOLEAN : AckProjection(w, s, granted)
                \/ AttachCompanion(w, s)
          \/ \E seq \in 1..MaxSeq, named \in BOOLEAN : Compose(s, seq, named)
          \/ LiveLimit(s)
    \/ \E w \in Workers :
          (\E msg \in inputs : RouteInput(w, msg)) \/ (\E type \in {"CLAIM", "RESUME"} : TaskLease(w, type))
    \/ LiveRestart

LegacyNext ==
    \/ \E s \in LegacyIds :
          \/ \E w \in Workers : LegacyOpen(w, s) \/ LegacyTouch(w, s) \/ LegacyLeave(w, s)
                                \/ \E seq \in 1..MaxSeq : LegacyInput(w, s, seq)
          \/ LegacyTime(s)
    \/ LegacyRestart

-----------------------------------------------------------------------------
(* Messages may come late, twice or out of order, sessions end in any way  *)
(* and processes restart, and still: no input is relayed twice or behind a *)
(* later one in the same control period, none that names another period,   *)
(* none without the user's consent; a closed session owns no active row;   *)
(* unless resume() of a task replaced a REMOTE row, control has one holder *)
(* and the row names it.  A session of the first slice that is in control  *)
(* and not expired is the one a claim sees, unless the end of an older     *)
(* session removed its entry.                                              *)
LiveSingleWriter ==
    /\ ~misled
    /\ \A s \in LiveIds : live[s].state = "CLOSED" => ~(liveRow.active /\ liveRow.owner = s)
    /\ ~resumed => \A s \in LiveIds : live[s].state = "REMOTE" /\ ~live[s].old =>
                      liveRow.owner = s /\ liveRow.type = "REMOTE" /\ liveRow.active
    /\ \A s \in LegacyIds : legacy[s].state = "REMOTE" /\ ~legacy[s].old /\ ~popped =>
                      byDevice = s /\ HasRemote
=============================================================================
