---------------------------- MODULE EdgeCompanion ----------------------------
(***************************************************************************)
(* The Companion API of the edge gateway for one device: pairing by code,  *)
(* the bearer binding, health, emergency stop, and the confirmations a     *)
(* runner waits for while the hub decides.  Bindings, health and operator  *)
(* actions are in the spool; confirmations are in the memory of the        *)
(* gateway process.  Authentication runs in the thread pool, so another    *)
(* request may be served before the handler is.                            *)
(***************************************************************************)
EXTENDS ApiRequests

CONSTANTS EdgeCodes,      \* pairing codes
          MaxAsks,        \* bound: confirmations
          MaxCommands     \* bound: commands run on the device

VARIABLES pairing,        \* companion_enrollment_codes
          bearer,         \* companion_bindings: the token and whether it is revoked
          minted,         \* tokens so far
          ask,            \* _confirmations, _resolved and _resolutions by confirmation
          ruling,        \* the hub's answer, and whether the gateway has recorded it
          command,        \* the supervisor's active command
          health,         \* device_health
          acts,           \* operator actions in the spool
          gateway,        \* "UP", "DOWN"
          paired,         \* history: bindings each code has made
          foreign,        \* history: a revocation ended another token's binding
          cut             \* history: the process ended between the writes of a stop

askVars == <<ask, ruling>>
pairVars == <<pairing, bearer, minted, paired, foreign>>
spoolVars == <<command, health, acts>>
companionVars == <<pairVars, askVars, spoolVars, gateway, cut>>

Asks == 1..MaxAsks
NoAsk == [state |-> "NONE", late |-> FALSE, answer |-> "NONE", waiter |-> "NONE"]

CompanionInit ==
    /\ pairing = [c \in EdgeCodes |-> "NONE"] /\ bearer = [token |-> 0, revoked |-> TRUE] /\ minted = 0
    /\ ask = [c \in Asks |-> NoAsk] /\ ruling = [c \in Asks |-> [value |-> "NONE", recorded |-> FALSE]]
    /\ command = [n |-> 0, running |-> FALSE, cancel |-> FALSE]
    /\ health = [stopped |-> FALSE, battery |-> 0] /\ acts = {} /\ gateway = "UP"
    /\ paired = [c \in EdgeCodes |-> 0] /\ foreign = FALSE /\ cut = FALSE

(* issue_companion_enrollment(): INSERT OR IGNORE, a code is issued once.  *)
Issued(c) == [pairing EXCEPT ![c] = IF @ = "NONE" THEN "OPEN" ELSE @]

IssueCode(w, c) ==
    /\ AtOnce(w) /\ gateway = "UP"
    /\ pairing' = Issued(c)
    /\ UNCHANGED <<bearer, minted, paired, foreign, askVars, spoolVars, gateway, cut>>

(* consume_companion_enrollment(): one BEGIN IMMEDIATE transaction         *)
PairCompanion(w, c) ==
    /\ AtOnce(w) /\ gateway = "UP" /\ pairing[c] = "OPEN"
    /\ pairing' = [pairing EXCEPT ![c] = "USED"]
    /\ minted' = minted + 1 /\ bearer' = [token |-> minted + 1, revoked |-> FALSE]
    /\ paired' = [paired EXCEPT ![c] = @ + 1]
    /\ UNCHANGED <<foreign, askVars, spoolVars, gateway, cut>>

AuthenticatedBinding(w) ==
    /\ gateway = "UP" /\ ~bearer.revoked
    /\ Begin(w, [op |-> "COMPANION", token |-> bearer.token])
    /\ UNCHANGED companionVars

Bearing(w) == req[w].op = "COMPANION"

(* revoke_companion_binding(): only the row with the token it was shown    *)
(* Mutant: the device is enough.                                           *)
RevokesDevice(token) == ~bearer.revoked
Revokes(token) == bearer.token = token /\ ~bearer.revoked

RevokeBinding(w) ==
    /\ Bearing(w) /\ End(w)
    /\ bearer' = IF Revokes(req[w].token) THEN [bearer EXCEPT !.revoked = TRUE] ELSE bearer
    /\ foreign' = (foreign \/ (bearer' # bearer /\ bearer.token # req[w].token))
    /\ UNCHANGED <<pairing, minted, paired, askVars, spoolVars, gateway, cut>>

(* Mutant: the report replaces the row.                                    *)
HealthUpdatedAnew(b) == [stopped |-> FALSE, battery |-> b]
HealthUpdated(b) == [health EXCEPT !.battery = b]

ReportHealth(w, b) ==
    /\ Bearing(w) /\ End(w) /\ health' = HealthUpdated(b)
    /\ UNCHANGED <<pairVars, askVars, command, acts, gateway, cut>>

-----------------------------------------------------------------------------
(* _discard_confirmation(): a runner that waits is cancelled.              *)
(* Mutant: only the entry goes.                                            *)
DiscardedSilently(a) == [a EXCEPT !.state = "GONE", !.answer = "NONE"]
Discarded(a) ==
    [a EXCEPT !.state = "GONE", !.answer = "NONE",
              !.waiter = IF @ = "WAITING" THEN "CANCELLED" ELSE @]

(* active_confirmation(): the first that has not expired; expired ones met *)
(* on the way are discarded.                                               *)
InTime(c) == ask[c].state = "ASKED" /\ ~ask[c].late
Active == {c \in Asks : InTime(c) /\ \A d \in 1..(c - 1) : ~InTime(d)}
Tidied == [c \in Asks |->
    IF ask[c].state = "ASKED" /\ ask[c].late /\ (\A a \in Active : c < a) THEN Discarded(ask[c]) ELSE ask[c]]

(* snapshot() looks; answer_confirmation() records the user's answer, which*)
(* goes to the hub: it decides.                                            *)
Look(w) ==
    /\ Bearing(w) /\ End(w) /\ ask' = Tidied
    /\ UNCHANGED <<pairVars, ruling, spoolVars, gateway, cut>>

AnswerConfirmation(w, approved) ==
    /\ Bearing(w) /\ End(w) /\ ask' = Tidied
    /\ \E c \in Active : acts' = acts \cup {<<IF approved THEN "CONFIRM" ELSE "REJECT", c>>}
    /\ UNCHANGED <<pairVars, ruling, command, health, gateway, cut>>

(* emergency_stop(): it names the active command, waits for the            *)
(* supervisor's lock, cancels that command if it still runs, and writes    *)
(* the action and then the flag.                                           *)
EmergencyStop(w) ==
    /\ Bearing(w) /\ command.running
    /\ req' = [req EXCEPT ![w] = [op |-> "STOPPING", n |-> command.n]]
    /\ UNCHANGED <<left, companionVars>>

(* Mutant: whatever runs by then is cancelled.                             *)
StillRunsAny(n) == command.running
StillRuns(n) == command.running /\ command.n = n

StopRecorded(w) ==
    LET n == req[w].n IN
    /\ req[w].op = "STOPPING"
    /\ command' = IF StillRuns(n) THEN [command EXCEPT !.cancel = TRUE] ELSE command
    /\ acts' = acts \cup {<<"STOP", n>>}
    /\ req' = [req EXCEPT ![w] = [op |-> "FLAGGING"]]
    /\ UNCHANGED <<left, pairVars, askVars, health, gateway, cut>>

StopFlagged(w) ==
    /\ req[w].op = "FLAGGING" /\ End(w)
    /\ health' = [health EXCEPT !.stopped = TRUE]
    /\ UNCHANGED <<pairVars, askVars, command, acts, gateway, cut>>

CommandStarts ==
    /\ gateway = "UP" /\ ~command.running /\ command.n < MaxCommands
    /\ command' = [n |-> command.n + 1, running |-> TRUE, cancel |-> FALSE]
    /\ UNCHANGED <<reqVars, pairVars, askVars, health, acts, gateway, cut>>

CommandEnds ==
    /\ command.running /\ command' = [command EXCEPT !.running = FALSE, !.cancel = FALSE]
    /\ UNCHANGED <<reqVars, pairVars, askVars, health, acts, gateway, cut>>

-----------------------------------------------------------------------------
(* require_confirmation()                                                  *)
RequireConfirmation(c) ==
    /\ gateway = "UP" /\ command.running /\ ask[c] = NoAsk /\ \A d \in 1..(c - 1) : ask[d] # NoAsk
    /\ ask' = [ask EXCEPT ![c].state = "ASKED"]
    /\ UNCHANGED <<reqVars, pairVars, ruling, spoolVars, gateway, cut>>

ConfirmationLate(c) ==
    /\ InTime(c) /\ ask' = [ask EXCEPT ![c].late = TRUE]
    /\ UNCHANGED <<reqVars, pairVars, ruling, spoolVars, gateway, cut>>

(* wait_for_resolution(): the answer may be there already.                 *)
WaitForResolution(c) ==
    /\ gateway = "UP" /\ ask[c].state = "ASKED" /\ ask[c].waiter = "NONE"
    /\ ask' = [ask EXCEPT ![c] =
          IF @.answer # "NONE" THEN [@ EXCEPT !.waiter = ask[c].answer, !.answer = "NONE", !.state = "GONE"]
          ELSE [@ EXCEPT !.waiter = "WAITING"]]
    /\ UNCHANGED <<reqVars, pairVars, ruling, spoolVars, gateway, cut>>

HubAnswers(c, value) ==
    /\ ask[c] # NoAsk /\ ruling[c].value = "NONE"
    /\ ruling' = [ruling EXCEPT ![c].value = value]
    /\ UNCHANGED <<reqVars, pairVars, ask, spoolVars, gateway, cut>>

WaiterResumes(c) ==
    /\ ask[c].state = "ASKED" /\ ask[c].waiter \in {"YES", "NO"}
    /\ ask' = [ask EXCEPT ![c] = Discarded(@)]
    /\ UNCHANGED <<reqVars, pairVars, ruling, spoolVars, gateway, cut>>

(* The process ends: requests, confirmations and runners are gone.         *)
ProcessEnds ==
    /\ gateway' = "DOWN"
    /\ ask' = [c \in Asks |-> IF ask[c].state = "ASKED" THEN Discarded(ask[c]) ELSE ask[c]]
    /\ req' = [w \in Workers |-> Idle] /\ UNCHANGED left
    /\ command' = [command EXCEPT !.running = FALSE, !.cancel = FALSE]
    /\ cut' = (cut \/ \E w \in Workers : req[w].op = "FLAGGING")
    /\ UNCHANGED <<pairVars, ruling, health, acts>>

(* resolve_from_cloud(), then record_cloud_sequence(); a confirmation that *)
(* is not active raises and ends the gateway with the sequence unrecorded. *)
Resolve(c) ==
    /\ gateway = "UP" /\ ruling[c].value # "NONE" /\ ~ruling[c].recorded
    /\ \/ /\ InTime(c)
          /\ ask' = [ask EXCEPT ![c] =
                CASE @.waiter = "WAITING" -> [@ EXCEPT !.waiter = ruling[c].value]
                  [] @.waiter = "NONE" -> [@ EXCEPT !.answer = ruling[c].value]
                  [] OTHER -> @]
          /\ ruling' = [ruling EXCEPT ![c].recorded = TRUE]
          /\ UNCHANGED <<reqVars, pairVars, spoolVars, gateway, cut>>
       \/ ~InTime(c) /\ ProcessEnds

GatewayLost == gateway = "UP" /\ ProcessEnds

GatewayBack ==
    /\ gateway = "DOWN" /\ gateway' = "UP"
    /\ UNCHANGED <<reqVars, pairVars, askVars, spoolVars, cut>>

CompanionNext ==
    \/ \E w \in Workers :
          \/ \E c \in EdgeCodes : IssueCode(w, c) \/ PairCompanion(w, c)
          \/ AuthenticatedBinding(w) \/ RevokeBinding(w) \/ Look(w)
          \/ EmergencyStop(w) \/ StopRecorded(w) \/ StopFlagged(w)
          \/ \E b \in 0..1 : ReportHealth(w, b)
          \/ \E approved \in BOOLEAN : AnswerConfirmation(w, approved)
    \/ CommandStarts \/ CommandEnds
    \/ \E c \in Asks : \/ RequireConfirmation(c) \/ ConfirmationLate(c) \/ WaitForResolution(c)
                       \/ WaiterResumes(c) \/ Resolve(c)
                       \/ \E value \in {"YES", "NO"} : HubAnswers(c, value)
    \/ GatewayLost \/ GatewayBack

-----------------------------------------------------------------------------
(* A code makes one binding, and an old token cannot revoke the binding    *)
(* that replaced it; a runner is never left waiting for a confirmation     *)
(* that was discarded, and is told what the hub decided, never the user's  *)
(* local answer; only a command that an operator stopped is cancelled; and *)
(* once a stop is in the spool the device stays marked as stopped, unless  *)
(* the process ended between the two writes.                               *)
CompanionAccountable ==
    /\ (\A c \in EdgeCodes : paired[c] <= 1) /\ ~foreign
    /\ \A c \in Asks :
          /\ ask[c].waiter = "WAITING" => ask[c].state = "ASKED"
          /\ ask[c].waiter \in {"YES", "NO"} => ask[c].waiter = ruling[c].value
    /\ command.cancel => <<"STOP", command.n>> \in acts
    /\ (\E n \in 1..MaxCommands : <<"STOP", n>> \in acts) =>
          health.stopped \/ cut \/ \E w \in Workers : req[w].op = "FLAGGING"
=============================================================================
