------------------------------ MODULE HubStore ------------------------------
(***************************************************************************)
(* The Edge Hub for one Edge: the durable message store (SqliteHubStore),  *)
(* the gRPC stream with the Edge (EdgeHub.open(), EdgeControlService), the *)
(* delivery of debug grants (DebugGrantDelivery) and the browser ingress   *)
(* (DebugRelay).  A message to the Edge is its position in cloud; a        *)
(* message from the Edge is its position in the Edge's own log.            *)
(***************************************************************************)
EXTENDS Naturals, Sequences

CONSTANTS Commands,     \* command ids of START and CANCEL messages
          Sessions,     \* debug session ids
          MaxCloud,     \* bound: messages the hub queues
          MaxFaults     \* bound: broken connections and crashes

ASSUME HubAssumption == MaxCloud \in Nat /\ MaxFaults \in Nat

CloudMessages == [kind : {"START", "CANCEL"}, id : Commands]
                    \cup [kind : {"GRANT", "REVOKE", "FRAME"}, id : Sessions]

VARIABLES
    cloud,      \* hub_cloud_message: every message queued, by sequence
    mark,       \* cloud_ack_watermark: rows up to it are deleted
    edgeLog,    \* hub_edge_message: messages of the Edge, by sequence
    record,     \* debug_delivery state of a session
    ingress,    \* sessions with an authenticated browser socket
    granting,   \* sessions whose grant event is between create() and queue()
    elapsed,    \* sessions whose expiry has passed
    link,       \* stream: DOWN, HELLO (the Edge's hello is on its way) or UP
    hello,      \* last_cloud_sequence_acked of that hello
    down,       \* to the Edge, in flight: sequence numbers; 0 is the hub's hello
    helloAck,   \* last_edge_sequence_acked of the hub's hello
    cursor,     \* last sequence number sent on this stream
    late,       \* from the Edge, still in flight on the previous stream
    faults      \* broken connections and crashes so far

hubVars == <<cloud, mark, edgeLog>>
debugVars == <<record, ingress, granting, elapsed>>
streamVars == <<link, hello, down, helloAck, cursor, late, faults>>

Empty == [from |-> 1, to |-> 0]

HubInit ==
    /\ cloud = <<>> /\ mark = 0 /\ edgeLog = <<>>
    /\ record = [s \in Sessions |-> "NONE"]
    /\ ingress = {} /\ granting = {} /\ elapsed = {}
    /\ link = "DOWN" /\ hello = 0 /\ down = <<>> /\ helloAck = 0 /\ cursor = 0
    /\ late = Empty /\ faults = 0

(* SqliteHubStore.append_cloud(), through EdgeHub.queue()                  *)
Queue(m) == Len(cloud) < MaxCloud /\ cloud' = Append(cloud, m)

(* Commands of the control plane; the hub does not look inside.  A START   *)
(* may be repeated; only a command that was sent is cancelled.             *)
QueueCommand(m) ==
    /\ \/ m.kind = "START"
       \/ m.kind = "CANCEL" /\ \E i \in 1 .. Len(cloud) : cloud[i] = [m EXCEPT !.kind = "START"]
    /\ Queue(m)
    /\ UNCHANGED <<mark, edgeLog, debugVars, streamVars>>
-----------------------------------------------------------------------------
(* Debug sessions                                                          *)

(* DebugGrantDelivery.queue(): the record first.  create() refuses an      *)
(* existing record that differs from a fresh one, so a redelivered event   *)
(* is taken up only while the record is still PENDING.                     *)
GrantCreate(s) ==
    /\ record[s] \in {"NONE", "PENDING"} /\ s \notin elapsed /\ s \notin granting
    /\ Len(cloud) < MaxCloud
    /\ record' = [record EXCEPT ![s] = "PENDING"]
    /\ granting' = granting \cup {s}
    /\ UNCHANGED <<hubVars, ingress, elapsed, streamVars>>

(* Then the message, then the record again; a hub that stops in between    *)
(* leaves the record PENDING.                                              *)
GrantQueue(s) ==
    /\ s \in granting /\ Queue([kind |-> "GRANT", id |-> s])
    /\ granting' = granting \ {s}
    /\ record' = [record EXCEPT ![s] = "QUEUED"]
    /\ UNCHANGED <<mark, edgeLog, ingress, elapsed, streamVars>>

(* revoke_from_event(): the message, and the record if there is one.       *)
RevokeEvent(s) ==
    /\ Queue([kind |-> "REVOKE", id |-> s])
    /\ record' = [record EXCEPT ![s] = IF @ = "NONE" THEN @ ELSE "REVOKED"]
    /\ UNCHANGED <<mark, edgeLog, ingress, granting, elapsed, streamVars>>

(* DebugRelay._authenticate(): the record is read once.                    *)
BrowserConnect(s) ==
    /\ record[s] \notin {"NONE", "REVOKED"} /\ s \notin elapsed
    /\ ingress' = ingress \cup {s}
    /\ UNCHANGED <<hubVars, record, granting, elapsed, streamVars>>

(* DebugRelay._run_messages(): afterwards only the expiry is looked at.    *)
BrowserFrame(s) ==
    /\ s \in ingress /\ s \notin elapsed
    /\ Queue([kind |-> "FRAME", id |-> s])
    /\ UNCHANGED <<mark, edgeLog, debugVars, streamVars>>

Elapse(s) ==
    /\ record[s] # "NONE" /\ s \notin elapsed /\ elapsed' = elapsed \cup {s}
    /\ UNCHANGED <<hubVars, record, ingress, granting, streamVars>>
-----------------------------------------------------------------------------
(* The stream                                                              *)

(* The connection breaks: what the hub sent is lost; what the Edge sent,   *)
(* the range p, may still reach the old stream's receive task.             *)
Broken(p) ==
    /\ link' = "DOWN" /\ down' = <<>> /\ cursor' = 0 /\ hello' = 0 /\ helloAck' = 0
    /\ late' = p

Fault == faults < MaxFaults /\ faults' = faults + 1

Disconnect(p) == link # "DOWN" /\ Fault /\ Broken(p) /\ UNCHANGED <<hubVars, debugVars>>

(* The hub process stops: sockets and handlers in progress are gone.       *)
HubCrash ==
    /\ Fault /\ Broken(Empty)
    /\ ingress' = {} /\ granting' = {}
    /\ UNCHANGED <<hubVars, record, elapsed>>

(* Mutant: acknowledge_cloud() deletes what the Edge has yet to receive.   *)
AckedThroughCursor(ack) == Len(cloud)

(* acknowledge_cloud(): rows up to the acknowledged one are deleted.       *)
AckedThrough(ack) == ack

(* EdgeHub.open(): an acknowledgement below the watermark, or of a message *)
(* never emitted, ends the stream.  (A hub whose state is empty adopts the *)
(* sequence of the Edge; the store is not lost here, so it never is.)      *)
HubOpen ==
    /\ link = "HELLO"
    /\ IF hello < mark \/ hello > Len(cloud)
         THEN Broken(Empty) /\ UNCHANGED <<hubVars, faults>>
         ELSE /\ mark' = AckedThrough(hello)
              /\ link' = "UP" /\ cursor' = hello /\ hello' = 0
              /\ down' = <<0>> /\ helloAck' = Len(edgeLog)
              /\ UNCHANGED <<cloud, edgeLog, late, faults>>
    /\ UNCHANGED debugVars

(* replay_cloud() and then the live queue: the stored messages above the   *)
(* cursor, in order.                                                       *)
HubSend ==
    /\ link = "UP" /\ cursor < Len(cloud)
    /\ LET first == IF cursor < mark THEN mark + 1 ELSE cursor + 1
       IN  down' = down \o [i \in 1 .. Len(cloud) - first + 1 |-> first + i - 1]
    /\ cursor' = Len(cloud)
    /\ UNCHANGED <<hubVars, debugVars, link, hello, helloAck, late, faults>>

(* Mutant: record_edge() counts a repeated message as a new one.           *)
FreshAll(from) == from

(* record_edge(): the first message of a batch that is not stored already. *)
Fresh(from) == IF from <= Len(edgeLog) THEN Len(edgeLog) + 1 ELSE from

(* record_edge() of a batch, with the content the Edge's log has for it:   *)
(* repeats are ignored, a gap is a SessionError.                           *)
RecordEdge(log, from, to) == edgeLog' = edgeLog \o SubSeq(log, Fresh(from), to)

Gap(from) == from > Len(edgeLog) + 1

(* EdgeControlService._receive() of a batch of the current stream; a gap   *)
(* ends the stream.                                                        *)
HubReceive(log, from) ==
    /\ link = "UP" /\ from <= Len(log)
    /\ IF Gap(from) THEN Broken(Empty) /\ UNCHANGED <<edgeLog, faults>>
                    ELSE RecordEdge(log, from, Len(log)) /\ UNCHANGED streamVars
    /\ UNCHANGED <<cloud, mark, debugVars>>

(* What still arrives of the stream before.                                *)
HubReceiveLate(log) ==
    /\ late # Empty /\ late' = Empty
    /\ \E n \in late.from - 1 .. late.to :
          IF Gap(late.from) THEN UNCHANGED edgeLog ELSE RecordEdge(log, late.from, n)
    /\ UNCHANGED <<cloud, mark, debugVars, link, hello, down, helloAck, cursor, faults>>
=============================================================================
