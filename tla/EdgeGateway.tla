---------------------------- MODULE EdgeGateway ----------------------------
(***************************************************************************)
(* The Edge gateway with one device: the SQLite spool (EdgeSpool), the     *)
(* control stream's handler (EdgeControlStream.handle_cloud()), the        *)
(* scheduler and the runner, and the debug sessions.  The process is one   *)
(* event loop, but each transaction of the spool is a step of its own, so  *)
(* it may stop between any two of them; all that is not in the spool is    *)
(* then gone.                                                              *)
(***************************************************************************)
EXTENDS HubStore, FiniteSets

CONSTANT Fence          \* Fence[c]: fencing token of the lease of command c

ASSUME GatewayAssumption == Fence \in [Commands -> Nat \ {0}]

VARIABLES
    \* the spool
    lastCloud,  \* last_cloud_sequence
    command,    \* commands: state of a command
    fence,      \* fence_tokens: token of the device, 0 is no row
    log,        \* outbound: messages to the cloud, by sequence
    acked,      \* last_edge_sequence_acked
    grants,     \* debug_grants: NONE, ACTIVE or REVOKED
    \* the process
    gateway,    \* UP or DOWN
    busy,       \* what handle_cloud() or _run() has left to do before others run
    sentUp,     \* last_sent of _outbound()
    runner,     \* the device's runner: command, step, cancel_event; idle if NONE
    active,     \* DebugSessionManager: NONE, ACTIVE or REVOKED
    \* history
    taken,      \* messages whose sequence was recorded
    started     \* how often the device was worked on for a command

spoolVars == <<lastCloud, command, fence, log, acked, grants>>
processVars == <<gateway, busy, sentUp, runner, active>>
historyVars == <<taken, started>>
edgeVars == <<spoolVars, processVars, historyVars>>

Free == [step |-> "FREE"]
Reporting == [step |-> "EVENT"]
NoRunner == [step |-> "NONE"]

(* Acknowledgements and task events name their command; their states are   *)
(* left out.  A reply to a frame says whether the device was reached.      *)
EdgeMessages ==
    [kind : {"ACK", "EVENT"}, id : Commands] \cup [kind : {"DONE", "FAILED"}, id : Sessions]

EdgeInit ==
    /\ lastCloud = 0 /\ command = [c \in Commands |-> "NONE"] /\ fence = 0
    /\ log = <<>> /\ acked = 0 /\ grants = [s \in Sessions |-> "NONE"]
    /\ gateway = "UP" /\ busy = Free /\ sentUp = 0
    /\ runner = NoRunner /\ active = [s \in Sessions |-> "NONE"]
    /\ taken = <<>> /\ started = [c \in Commands |-> 0]

(* enqueue_edge_message()                                                  *)
Emit(k, i) == log' = Append(log, [kind |-> k, id |-> i])

(* record_cloud_sequence(), record_cloud_with_edge_message()               *)
Record(n) ==
    /\ n = lastCloud + 1 /\ lastCloud' = n
    /\ taken' = Append(taken, cloud[n])
-----------------------------------------------------------------------------
(* The stream                                                              *)

(* run_forever(): a new channel, hello first.                              *)
EdgeConnect ==
    /\ gateway = "UP" /\ link = "DOWN" /\ busy = Free
    /\ link' = "HELLO" /\ hello' = lastCloud /\ sentUp' = 0
    /\ UNCHANGED <<down, helloAck, cursor, late, faults, hubVars, debugVars, spoolVars,
                   gateway, busy, runner, active, historyVars>>

(* Mutant: _outbound() resumes after the last message it had sent.         *)
ReplayAfterAll(last) == Len(log)

(* replay_edge_messages(): acknowledged rows are not sent again.           *)
ReplayAfter(last) == IF last < acked THEN acked ELSE last

(* What _outbound() has not sent yet on this stream: every message of the  *)
(* spool that is not acknowledged, from the first one on each new stream.  *)
Unsent == [from |-> ReplayAfter(sentUp) + 1, to |-> Len(log)]

InFlight == IF Unsent.from <= Unsent.to THEN Unsent ELSE Empty

(* _outbound(), received at once by the hub; what a broken stream leaves   *)
(* in flight is late.                                                      *)
EdgeSend ==
    /\ gateway = "UP" /\ busy = Free
    /\ HubReceive(log, Unsent.from)
    /\ sentUp' = Len(log)
    /\ UNCHANGED <<spoolVars, gateway, busy, runner, active, historyVars>>

(* The handler takes the next message of the stream.  A sequence number    *)
(* recorded before would be ignored and a gap would stop the gateway: that *)
(* neither arrives is StreamContiguous.                                    *)
Incoming(kind) ==
    /\ gateway = "UP" /\ link = "UP" /\ busy = Free /\ down # <<>>
    /\ Head(down) = lastCloud + 1 /\ cloud[Head(down)].kind = kind
    /\ down' = Tail(down)
    /\ UNCHANGED <<hello, helloAck, cursor>>

KeepLink == UNCHANGED <<link, late, faults>>

(* hello: acknowledge_edge_sequence()                                      *)
HandleHello ==
    /\ gateway = "UP" /\ link = "UP" /\ busy = Free /\ down # <<>> /\ Head(down) = 0
    /\ acked' = IF helloAck > acked THEN helloAck ELSE acked
    /\ down' = Tail(down) /\ helloAck' = 0
    /\ UNCHANGED <<hello, cursor, hubVars, debugVars, lastCloud, command, fence, log, grants,
                   processVars, historyVars>>
    /\ KeepLink

(* The process stops: by itself, or because the handler raised an error    *)
(* that run_forever() does not catch.                                      *)
Stop ==
    /\ gateway' = "DOWN" /\ busy' = Free /\ sentUp' = 0 /\ runner' = NoRunner
    /\ active' = [s \in Sessions |-> "NONE"]
    /\ Broken(InFlight)

GatewayStop == gateway = "UP" /\ Fault /\ Stop /\ UNCHANGED <<hubVars, debugVars, spoolVars, historyVars>>

(* Mutant: a start brings every stored grant back.                         *)
RestorableAll(s) == grants[s] # "NONE"

(* active_debug_grants()                                                   *)
Restorable(s) == grants[s] = "ACTIVE"

(* compose_gateway(): stored grants are restored, elapsed ones revoked.    *)
(* Commands that were under way are left as they are.                      *)
GatewayStart ==
    /\ gateway = "DOWN" /\ gateway' = "UP"
    /\ active' = [s \in Sessions |->
                    IF Restorable(s) /\ s \notin elapsed THEN "ACTIVE" ELSE "NONE"]
    /\ grants' = [s \in Sessions |->
                    IF grants[s] = "ACTIVE" /\ s \in elapsed THEN "REVOKED" ELSE grants[s]]
    /\ UNCHANGED <<hubVars, debugVars, streamVars, lastCloud, command, fence, log, acked,
                   busy, sentUp, runner, historyVars>>
-----------------------------------------------------------------------------
(* Commands                                                                *)

(* RunnerSupervisor.cancel(), cancel_stale()                               *)
Cancel(r) == [r EXCEPT !.cancel = TRUE]
Running == runner # NoRunner

(* Mutant: accept_command() takes a command with an older token.           *)
StaleFenceNever(c) == FALSE

(* accept_command(): the token is below the device's current one.  A lease *)
(* is its token here, so none shares its token with another lease, which   *)
(* would be refused too.                                                   *)
StaleFence(c) == Fence[c] < fence

(* EdgeSpool.accept_command(): a new command is stored with its token, in  *)
(* one transaction.                                                        *)
AcceptCommand(c) ==
    /\ command[c] = "NONE" /\ ~ StaleFence(c)
    /\ command' = [command EXCEPT ![c] = "RECEIVED"]
    /\ fence' = Fence[c]

(* EdgeSpool.set_command_state()                                           *)
SetCommandState(c, state) == command' = [command EXCEPT ![c] = state]

(* CommandScheduler.receive(): a command past its deadline or with a stale *)
(* token is rejected; a known one answers with its state; a new one is     *)
(* accepted, and an older runner is told to stop.                          *)
StartReceive ==
    /\ Incoming("START") /\ KeepLink
    /\ LET c == cloud[Head(down)].id
           Answer(state) == busy' = [step |-> "ACK", n |-> Head(down), id |-> c, state |-> state]
       IN  \/ Answer("REJECTED") /\ UNCHANGED <<command, fence, runner>>
           \/ /\ command[c] # "NONE"
              /\ Answer(command[c]) /\ UNCHANGED <<command, fence, runner>>
           \/ /\ AcceptCommand(c)
              /\ runner' = IF Running /\ Fence[runner.id] < Fence[c]
                             THEN Cancel(runner) ELSE runner
              /\ Answer("RECEIVED")
    /\ UNCHANGED <<hubVars, debugVars, lastCloud, log, acked, grants, gateway, sentUp, active,
                   historyVars>>

(* Mutant: a command that was started already is dispatched again.         *)
DispatchableAgain(state) == state \in {"RECEIVED", "STARTED"}

(* handle_cloud(): only a command that is merely received is dispatched.   *)
Dispatchable(state) == state = "RECEIVED"

(* The acknowledgement and the sequence number, in one transaction.        *)
StartAck ==
    /\ busy.step = "ACK" /\ Record(busy.n)
    /\ Emit("ACK", busy.id)
    /\ busy' = IF Dispatchable(busy.state) THEN [busy EXCEPT !.step = "DISPATCH"] ELSE Free
    /\ UNCHANGED <<hubVars, debugVars, streamVars, command, fence, acked, grants, gateway,
                   sentUp, runner, active, started>>

(* CommandScheduler.dispatch(), RunnerSupervisor.start(): rejected when    *)
(* the device has a runner.                                                *)
StartDispatch ==
    /\ busy.step = "DISPATCH" /\ busy' = Free
    /\ Emit("ACK", busy.id)
    /\ runner' = IF Running THEN runner
                 ELSE [step |-> "NEW", id |-> busy.id, cancel |-> FALSE]
    /\ UNCHANGED <<hubVars, debugVars, streamVars, lastCloud, command, fence, acked, grants,
                   gateway, sentUp, active, historyVars>>

(* cancel: only a runner of that very command is told to stop.             *)
HandleCancel ==
    /\ Incoming("CANCEL") /\ KeepLink
    /\ LET c == cloud[Head(down)].id
       IN  /\ runner' = IF Running /\ runner.id = c THEN Cancel(runner) ELSE runner
           /\ Emit("ACK", c)
    /\ Record(Head(down))
    /\ UNCHANGED <<hubVars, debugVars, command, fence, acked, grants, gateway, busy,
                   sentUp, active, started>>

(* assert_current_fence()                                                  *)
Current(c) == fence = Fence[c]

(* RunnerSupervisor._run(): the fence, then STARTED.                       *)
RunnerBegin ==
    /\ runner.step = "NEW" /\ busy = Free
    /\ IF Current(runner.id)
         THEN /\ SetCommandState(runner.id, "STARTED")
              /\ runner' = [runner EXCEPT !.step = "RUN"] /\ busy' = Reporting
         ELSE /\ runner' = [runner EXCEPT !.step = "FAIL"]
              /\ UNCHANGED <<command, busy>>
    /\ UNCHANGED <<hubVars, debugVars, streamVars, lastCloud, fence, log, acked, grants, gateway,
                   sentUp, active, historyVars>>

(* emit_task_event() of the state just stored, in a transaction of its     *)
(* own; after the last one the device is free.                             *)
RunnerReport ==
    /\ busy = Reporting /\ busy' = Free /\ Emit("EVENT", runner.id)
    /\ runner' = IF runner.step = "ENDED" THEN NoRunner ELSE runner
    /\ UNCHANGED <<hubVars, debugVars, streamVars, lastCloud, command, fence, acked, grants,
                   gateway, sentUp, active, historyVars>>

(* SafeRunnerExecutor.execute(): a cancelled command ends at the next      *)
(* check; LamdaSession's guard refuses a device operation under an old     *)
(* fence.                                                                  *)
RunnerWork ==
    /\ runner.step = "RUN" /\ busy = Free
    /\ ~ runner.cancel /\ Current(runner.id)
    /\ started' = [started EXCEPT ![runner.id] = @ + 1]
    /\ runner' = [runner EXCEPT !.step = "WORKED"]
    /\ UNCHANGED <<hubVars, debugVars, streamVars, spoolVars, gateway, busy, sentUp,
                   active, taken>>

(* How _run() ends: a stale fence, the executor's check, a device that is  *)
(* blocked or fails, or the work done.  BLOCKED_HARDWARE is FAILED here.   *)
Results(r) ==
    LET done == IF r.cancel THEN "CANCELED" ELSE "SUCCEEDED"
    IN  CASE r.step = "FAIL" -> {IF r.cancel THEN "CANCELED" ELSE "FAILED"}
          [] r.step = "RUN" -> {"FAILED"} \cup (IF r.cancel THEN {"CANCELED"} ELSE {})
          [] r.step = "WORKED" -> {"FAILED", done}
          [] OTHER -> {}

(* The finally block stores the result.                                    *)
RunnerEnd ==
    /\ Running /\ busy = Free /\ busy' = Reporting
    /\ \E r \in Results(runner) :
          SetCommandState(runner.id, r)
    /\ runner' = [runner EXCEPT !.step = "ENDED"]
    /\ UNCHANGED <<hubVars, debugVars, streamVars, lastCloud, fence, log, acked, grants, gateway,
                   sentUp, active, historyVars>>
-----------------------------------------------------------------------------
(* Debug sessions                                                          *)

(* record_cloud_sequence() after the handler's own transactions.           *)
HandleRecord ==
    /\ busy.step = "RECORD" /\ busy' = Free /\ Record(busy.n)
    /\ UNCHANGED <<hubVars, debugVars, streamVars, command, fence, log, acked, grants, gateway,
                   sentUp, runner, active, started>>

(* The grant is refused: elapsed, or revoked here before.                  *)
Refusable(s) == s \in elapsed \/ active[s] = "REVOKED" \/ grants[s] = "REVOKED"

(* debug_grant: the session in memory, then the row of the spool.          *)
HandleGrant ==
    /\ Incoming("GRANT") /\ KeepLink
    /\ LET s == cloud[Head(down)].id
       IN  /\ ~ Refusable(s)
           /\ active' = [active EXCEPT ![s] = "ACTIVE"]
           /\ grants' = [grants EXCEPT ![s] = "ACTIVE"]
    /\ busy' = [step |-> "RECORD", n |-> Head(down)]
    /\ UNCHANGED <<hubVars, debugVars, lastCloud, command, fence, log, acked, gateway, sentUp,
                   runner, historyVars>>

(* A refused grant raises an error that run_forever() does not catch: the  *)
(* gateway stops, and the message will be the first one of its next run.   *)
RefuseGrant ==
    /\ gateway = "UP" /\ link = "UP" /\ busy = Free /\ down # <<>>
    /\ Head(down) # 0 /\ cloud[Head(down)].kind = "GRANT"
    /\ Refusable(cloud[Head(down)].id)
    /\ Stop /\ UNCHANGED <<faults, hubVars, debugVars, spoolVars, historyVars>>

(* Mutant: the revocation of a grant is kept in memory only.               *)
RevokedInMemory(s) == grants

(* revoke_debug_grant(): a row that exists is marked.                      *)
Revoked(s) == [grants EXCEPT ![s] = IF @ = "NONE" THEN @ ELSE "REVOKED"]

HandleRevoke ==
    /\ Incoming("REVOKE") /\ KeepLink
    /\ LET s == cloud[Head(down)].id
       IN  /\ active' = [active EXCEPT ![s] = IF @ = "NONE" THEN @ ELSE "REVOKED"]
           /\ grants' = Revoked(s)
    /\ busy' = [step |-> "RECORD", n |-> Head(down)]
    /\ UNCHANGED <<hubVars, debugVars, lastCloud, command, fence, log, acked,
                   gateway, sentUp, runner, historyVars>>

(* A revocation of s that reached the Edge after its grant.                *)
RevokedHere(s) ==
    \E i, j \in 1 .. Len(taken) :
        i < j /\ taken[i] = [kind |-> "GRANT", id |-> s] /\ taken[j] = [kind |-> "REVOKE", id |-> s]

(* relay_frame: validate_frame(); an inactive session answers FAILED, an   *)
(* elapsed one is revoked in passing, an active one reaches the device     *)
(* (of a gateway composed with a debug driver; without one it would stop). *)
HandleFrame ==
    /\ Incoming("FRAME") /\ KeepLink
    /\ LET s == cloud[Head(down)].id
           ok == active[s] = "ACTIVE" /\ s \notin elapsed
       IN  /\ Emit(IF ok THEN "DONE" ELSE "FAILED", s)
           /\ active' = [active EXCEPT ![s] =
                           IF @ = "ACTIVE" /\ s \in elapsed THEN "REVOKED" ELSE @]
    /\ busy' = [step |-> "RECORD", n |-> Head(down)]
    /\ UNCHANGED <<hubVars, debugVars, lastCloud, command, fence, acked, grants,
                   gateway, sentUp, runner, taken, started>>
=============================================================================
