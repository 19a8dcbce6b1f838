--------------------------- MODULE EdgeLinkProofs ---------------------------
(***************************************************************************)
(* The Edge link, for any number of commands, sessions, messages and       *)
(* faults: nothing is lost, repeated or worked on twice, a newer lease     *)
(* wins, a recorded revocation holds, and the Edge's messages reach the    *)
(* hub as FifoDelivery says.                                               *)
(***************************************************************************)
EXTENDS EdgeLink, SequenceTheorems, TLAPS

CommandStates == {"NONE", "RECEIVED", "STARTED", "SUCCEEDED", "FAILED", "CANCELED"}
GrantStates == {"NONE", "ACTIVE", "REVOKED"}
Ranges == [from : Nat \ {0}, to : Nat]
Runners == [step : {"NEW", "RUN", "FAIL", "WORKED", "ENDED"}, id : Commands, cancel : BOOLEAN]
StartWork ==
    [step : {"ACK", "DISPATCH"}, n : Nat, id : Commands, state : CommandStates \cup {"REJECTED"}]
OtherWork == [step : {"RECORD"}, n : Nat]

(* Every variable of hub, stream and gateway has its type.                 *)
HubType ==
    /\ cloud \in Seq(CloudMessages) /\ mark \in Nat /\ edgeLog \in Seq(EdgeMessages)
    /\ link \in {"DOWN", "HELLO", "UP"} /\ hello \in Nat /\ helloAck \in Nat /\ cursor \in Nat
    /\ down \in Seq(Nat) /\ late \in Ranges

EdgeType ==
    /\ lastCloud \in Nat /\ fence \in Nat /\ acked \in Nat /\ sentUp \in Nat
    /\ command \in [Commands -> CommandStates] /\ started \in [Commands -> Nat]
    /\ log \in Seq(EdgeMessages) /\ taken \in Seq(CloudMessages)
    /\ grants \in [Sessions -> GrantStates] /\ active \in [Sessions -> GrantStates]
    /\ gateway \in {"UP", "DOWN"}
    /\ busy \in {Free, Reporting} \cup StartWork \cup OtherWork
    /\ runner \in {NoRunner} \cup Runners

LinkType == HubType /\ EdgeType

(* What the Edge recorded is what the hub queued, so far.                  *)
CloudPrefix ==
    /\ mark <= lastCloud /\ lastCloud <= Len(cloud) /\ Len(taken) = lastCloud
    /\ \A i \in 1 .. lastCloud : taken[i] = cloud[i]

(* What the hub recorded is what the Edge emitted, so far; what is still   *)
(* in flight is of that log.                                               *)
EdgePrefix ==
    /\ acked <= Len(edgeLog) /\ helloAck <= Len(edgeLog) /\ Len(edgeLog) <= Len(log)
    /\ \A i \in 1 .. Len(edgeLog) : edgeLog[i] = log[i]
    /\ late.to <= Len(log)

(* A message in hand is the next to record.                                *)
InHand ==
    /\ busy.step \in {"ACK", "RECORD"} => busy.n = lastCloud + 1 /\ busy.n <= Len(cloud)
    /\ busy.step = "ACK" => cloud[busy.n].kind = "START"
    /\ gateway = "DOWN" => busy.step \in {"FREE", "EVENT"} /\ link = "DOWN"

(* A stream that is being opened names the last recorded message, and one  *)
(* that is open carries what lies between that and the cursor.             *)
Stream ==
    /\ link = "HELLO" => busy.step \in {"FREE", "EVENT"} /\ hello = lastCloud
    /\ link = "UP" => /\ Base <= cursor /\ cursor <= Len(cloud)
                      /\ Len(down) = Hellos + cursor - Base
                      /\ StreamContiguous

StreamInv == CloudPrefix /\ EdgePrefix /\ InHand /\ Stream

(* A command is worked on after it was stored as STARTED, which it is only *)
(* once; what is about to be dispatched was not.                           *)
WorkInv ==
    /\ \A c \in Commands :
          /\ started[c] <= 1
          /\ started[c] > 0 => command[c] \notin {"NONE", "RECEIVED"} /\ Fence[c] <= fence
    /\ busy.step \in {"ACK", "DISPATCH"} /\ busy.state = "RECEIVED" => command[busy.id] = "RECEIVED"
    /\ busy.step = "DISPATCH" => busy.state = "RECEIVED"
    /\ runner.step \in {"NEW", "FAIL"} => command[runner.id] = "RECEIVED"
    /\ runner.step = "RUN" => started[runner.id] = 0
    /\ runner.step \in {"RUN", "WORKED"} => command[runner.id] = "STARTED"
    /\ runner.step = "ENDED" => command[runner.id] \notin {"NONE", "RECEIVED"}
    /\ busy.step = "EVENT" => runner.step # "NONE"

Is(m, kind, s) == m = [kind |-> kind, id |-> s]

(* A grant that was recorded has a row; a revocation marks it before it is *)
(* recorded, and a marked session is not active again.                     *)
GrantInv ==
    \A s \in Sessions :
       /\ grants[s] = "REVOKED" => active[s] # "ACTIVE"
       /\ (\E i \in 1 .. Len(taken) : Is(taken[i], "GRANT", s)) => grants[s] # "NONE"
       /\ RevokedHere(s) => grants[s] = "REVOKED"
       /\ busy.step = "RECORD" /\ Is(cloud[busy.n], "GRANT", s) => grants[s] # "NONE"
       /\ busy.step = "RECORD" /\ Is(cloud[busy.n], "REVOKE", s) => grants[s] # "ACTIVE"

LinkInv == LinkType /\ StreamInv /\ WorkInv /\ GrantInv

-----------------------------------------------------------------------------
(* Sequences                                                               *)

LEMMA AppendFacts ==
  ASSUME NEW S, NEW s \in Seq(S), NEW x \in S
  PROVE  /\ Append(s, x) \in Seq(S) /\ Len(Append(s, x)) = Len(s) + 1
         /\ \A i \in 1 .. Len(s) : Append(s, x)[i] = s[i]
         /\ Append(s, x)[Len(s) + 1] = x
OBVIOUS

LEMMA TailFacts ==
  ASSUME NEW S, NEW s \in Seq(S), s # <<>>
  PROVE  /\ Tail(s) \in Seq(S) /\ Len(Tail(s)) = Len(s) - 1 /\ Len(s) \in Nat \ {0}
         /\ Head(s) \in S /\ Head(s) = s[1]
         /\ \A i \in 1 .. Len(s) - 1 : Tail(s)[i] = s[i + 1]
OBVIOUS

\* What was not recorded of a log, up to n, added to the recorded prefix.
LEMMA ExtendPrefix ==
  ASSUME NEW S, NEW s \in Seq(S), NEW t \in Seq(S), Len(s) <= Len(t),
         \A i \in 1 .. Len(s) : s[i] = t[i],
         NEW n \in Nat, n <= Len(t), NEW e, e = s \o SubSeq(t, Len(s) + 1, n)
  PROVE  /\ e \in Seq(S) /\ Len(e) = IF n <= Len(s) THEN Len(s) ELSE n
         /\ n <= Len(s) => e = s
         /\ \A i \in 1 .. Len(e) : e[i] = t[i]
<1> DEFINE u == SubSeq(t, Len(s) + 1, n)
<1>0. Len(s) \in Nat /\ Len(t) \in Nat /\ \A i \in 1 .. Len(t) : t[i] \in S
  OBVIOUS
<1>1. CASE n <= Len(s)
  <2>1. u = <<>>
    BY <1>0, <1>1
  <2>2. e = s
    BY <2>1, ConcatEmptySeq
  <2> QED BY <1>0, <1>1, <2>2
<1>2. CASE Len(s) < n
  <2>1. /\ u \in Seq(S) /\ Len(u) = n - Len(s)
        /\ \A i \in 1 .. n - Len(s) : u[i] = t[Len(s) + i]
    BY <1>0, <1>2
  <2> HIDE DEF u
  <2>2. /\ s \o u \in Seq(S) /\ Len(s \o u) = Len(s) + Len(u)
        /\ \A i \in 1 .. Len(s) + Len(u) :
              (s \o u)[i] = IF i <= Len(s) THEN s[i] ELSE u[i - Len(s)]
    BY <2>1, ConcatProperties
  <2>3. e \in Seq(S) /\ Len(e) = n
    BY <1>0, <2>1, <2>2 DEF u
  <2>4. ASSUME NEW i \in 1 .. n PROVE e[i] = t[i]
    <3>1. e[i] = IF i <= Len(s) THEN s[i] ELSE u[i - Len(s)]
      BY <1>0, <2>1, <2>2 DEF u
    <3>2. i > Len(s) => i - Len(s) \in 1 .. n - Len(s) /\ Len(s) + (i - Len(s)) = i
      BY <1>0
    <3> QED BY <1>0, <2>1, <3>1, <3>2
  <2> QED BY <1>0, <1>2, <2>3, <2>4
<1> QED BY <1>0, <1>1, <1>2

\* A run of numbers behind a sequence.
LEMMA ExtendRun ==
  ASSUME NEW d \in Seq(Nat), NEW b \in Nat, NEW k \in Nat, NEW e, e = d \o [i \in 1 .. k |-> b + i]
  PROVE  /\ e \in Seq(Nat) /\ Len(e) = Len(d) + k
         /\ \A i \in 1 .. Len(d) : e[i] = d[i]
         /\ \A i \in Len(d) + 1 .. Len(d) + k : e[i] = b + i - Len(d)
<1> DEFINE u == [i \in 1 .. k |-> b + i]
<1>1. u \in Seq(Nat) /\ Len(u) = k /\ \A i \in 1 .. k : u[i] = b + i
  OBVIOUS
<1>2. Len(d) \in Nat
  OBVIOUS
<1> HIDE DEF u
<1>3. /\ d \o u \in Seq(Nat) /\ Len(d \o u) = Len(d) + Len(u)
      /\ \A i \in 1 .. Len(d) + Len(u) :
            (d \o u)[i] = IF i <= Len(d) THEN d[i] ELSE u[i - Len(d)]
  BY <1>1, ConcatProperties
<1>4. e = d \o u
  BY DEF u
<1>5. e \in Seq(Nat) /\ Len(e) = Len(d) + k
  BY <1>1, <1>3, <1>4
<1>6. ASSUME NEW i \in 1 .. Len(d) PROVE e[i] = d[i]
  BY <1>1, <1>2, <1>3, <1>4
<1>7. ASSUME NEW i \in Len(d) + 1 .. Len(d) + k PROVE e[i] = b + i - Len(d)
  <2>1. i - Len(d) \in 1 .. k /\ e[i] = u[i - Len(d)]
    BY <1>1, <1>2, <1>3, <1>4
  <2> QED BY <1>1, <1>2, <2>1
<1> QED BY <1>5, <1>6, <1>7

LEMMA PrefixIsSubSeq ==
  ASSUME NEW S, NEW s \in Seq(S), NEW t \in Seq(S), Len(s) <= Len(t),
         \A i \in 1 .. Len(s) : s[i] = t[i]
  PROVE  s = SubSeq(t, 1, Len(s))
<1>1. SubSeq(t, 1, Len(s)) = [i \in 1 .. Len(s) |-> t[i]]
  OBVIOUS
<1>2. s = [i \in 1 .. Len(s) |-> s[i]]
  OBVIOUS
<1> QED BY <1>1, <1>2

-----------------------------------------------------------------------------
(* Types                                                                   *)

LEMMA LinkStarts == Init => LinkInv
<1> SUFFICES ASSUME Init PROVE LinkInv
  OBVIOUS
<1>1. LinkType
  BY DEF Init, HubInit, EdgeInit, LinkType, HubType, EdgeType, Empty, Ranges, CommandStates, GrantStates
<1>2. StreamInv
  BY DEF Init, HubInit, EdgeInit, StreamInv, CloudPrefix, EdgePrefix, InHand, Stream, Empty, Free
<1>3. WorkInv
  BY DEF Init, EdgeInit, WorkInv, Free, Reporting, NoRunner
<1>4. GrantInv
  BY DEF Init, HubInit, EdgeInit, GrantInv, RevokedHere, Free
<1> QED BY <1>1, <1>2, <1>3, <1>4 DEF LinkInv

\* What a message of the cloud names.
LEMMA MessageNames ==
  ASSUME LinkType, NEW n \in 1 .. Len(cloud)
  PROVE  /\ cloud[n] \in CloudMessages
         /\ cloud[n].kind \in {"START", "CANCEL"} => cloud[n].id \in Commands
         /\ cloud[n].kind \in {"GRANT", "REVOKE", "FRAME"} => cloud[n].id \in Sessions
<1>1. cloud[n] \in CloudMessages
  BY DEF LinkType, HubType
<1> QED BY <1>1 DEF CloudMessages

LEMMA BrokenType ==
  ASSUME LinkType, NEW p \in Ranges, Broken(p), UNCHANGED hubVars
  PROVE  HubType'
BY DEF LinkType, HubType, Broken, hubVars

LEMMA FlightType ==
  ASSUME LinkType
  PROVE  /\ InFlight \in Ranges /\ Empty \in Ranges
         /\ ReplayAfter(sentUp) \in Nat /\ Unsent.from = ReplayAfter(sentUp) + 1
BY DEF LinkType, EdgeType, InFlight, Unsent, ReplayAfter, Empty, Ranges

LEMMA QueueType ==
  ASSUME LinkType, NEW m \in CloudMessages, Queue(m)
  PROVE  /\ cloud' \in Seq(CloudMessages) /\ Len(cloud') = Len(cloud) + 1
         /\ \A i \in 1 .. Len(cloud) : cloud'[i] = cloud[i]
BY AppendFacts DEF LinkType, HubType, Queue

LEMMA EmitType ==
  ASSUME LinkType, NEW k, NEW i, [kind |-> k, id |-> i] \in EdgeMessages, Emit(k, i)
  PROVE  /\ log' \in Seq(EdgeMessages) /\ Len(log') = Len(log) + 1 /\ log' = Append(log, [kind |-> k, id |-> i])
         /\ \A j \in 1 .. Len(log) : log'[j] = log[j]
         /\ log'[Len(log) + 1] = [kind |-> k, id |-> i]
BY AppendFacts DEF LinkType, EdgeType, Emit

LEMMA MessageKinds ==
  /\ \A c \in Commands : [kind |-> "ACK", id |-> c] \in EdgeMessages /\ [kind |-> "EVENT", id |-> c] \in EdgeMessages
  /\ \A s \in Sessions : [kind |-> "DONE", id |-> s] \in EdgeMessages /\ [kind |-> "FAILED", id |-> s] \in EdgeMessages
  /\ \A s \in Sessions, k \in {"GRANT", "REVOKE", "FRAME"} : [kind |-> k, id |-> s] \in CloudMessages
BY DEF EdgeMessages, CloudMessages

\* Recording the next message keeps the recorded prefix.
LEMMA RecordFacts ==
  ASSUME LinkType, CloudPrefix, NEW n \in 1 .. Len(cloud), Record(n)
  PROVE  /\ taken' \in Seq(CloudMessages) /\ lastCloud' = n /\ n = lastCloud + 1 /\ lastCloud' \in Nat
         /\ Len(taken') = n /\ taken'[n] = cloud[n]
         /\ \A i \in 1 .. lastCloud : taken'[i] = taken[i] /\ taken'[i] = cloud[i]
<1>1. cloud[n] \in CloudMessages
  BY MessageNames
<1> QED BY <1>1, AppendFacts DEF LinkType, EdgeType, Record, CloudPrefix

\* The message the handler takes off the stream is the next one.
LEMMA IncomingFacts ==
  ASSUME LinkType, StreamInv, NEW k, Incoming(k)
  PROVE  /\ Head(down) = lastCloud + 1 /\ Head(down) \in 1 .. Len(cloud) /\ Head(down) \in Nat
         /\ down' \in Seq(Nat) /\ cloud[Head(down)].kind = k
         /\ busy = Free /\ link = "UP" /\ gateway = "UP" /\ Hellos = 0 /\ Base = lastCloud
         /\ Len(down') = cursor - lastCloud - 1
         /\ \A i \in 1 .. Len(down') : down'[i] = lastCloud + 1 + i
<1>1. /\ Tail(down) \in Seq(Nat) /\ Len(Tail(down)) = Len(down) - 1 /\ Len(down) \in Nat \ {0}
      /\ Head(down) \in Nat
      /\ \A i \in 1 .. Len(down) - 1 : Tail(down)[i] = down[i + 1]
  BY TailFacts DEF Incoming, LinkType, HubType
<1>2. busy.step = "FREE" /\ Base = lastCloud /\ lastCloud \in Nat /\ cursor \in Nat
  BY DEF Incoming, Free, Base, LinkType, HubType, EdgeType
<1>3. Head(down) = lastCloud + 1 /\ Hellos = 0
  BY <1>2 DEF Incoming, Hellos
<1>4. Len(down) = cursor - lastCloud /\ cursor <= Len(cloud) /\ Len(cloud) \in Nat
  BY <1>2, <1>3 DEF Incoming, StreamInv, Stream, LinkType, HubType
<1>5. \A i \in 1 .. Len(down) : down[i] = lastCloud + i
  BY <1>2, <1>3 DEF Incoming, StreamInv, Stream, StreamContiguous
<1>6. Head(down) \in 1 .. Len(cloud)
  BY <1>1, <1>2, <1>3, <1>4
<1>7. Len(down') = cursor - lastCloud - 1 /\ \A i \in 1 .. Len(down') : down'[i] = lastCloud + 1 + i
  BY <1>1, <1>2, <1>4, <1>5 DEF Incoming
<1> QED BY <1>1, <1>2, <1>3, <1>6, <1>7 DEF Incoming

\* record_edge() appends what was missing, whatever is repeated.
LEMMA RecordEdgeFacts ==
  ASSUME LinkType, EdgePrefix, NEW from \in Nat \ {0}, ~Gap(from), NEW n \in Nat, n <= Len(log),
         RecordEdge(log, from, n)
  PROVE  /\ edgeLog' = edgeLog \o SubSeq(log, Len(edgeLog) + 1, n)
         /\ edgeLog' \in Seq(EdgeMessages)
         /\ Len(edgeLog') = IF n <= Len(edgeLog) THEN Len(edgeLog) ELSE n
         /\ n <= Len(edgeLog) => edgeLog' = edgeLog
         /\ \A i \in 1 .. Len(edgeLog') : edgeLog'[i] = log[i]
<1>1. Fresh(from) = Len(edgeLog) + 1
  BY DEF Fresh, Gap, LinkType, HubType
<1>2. edgeLog' = edgeLog \o SubSeq(log, Len(edgeLog) + 1, n)
  BY <1>1 DEF RecordEdge
<1>3. /\ edgeLog \in Seq(EdgeMessages) /\ log \in Seq(EdgeMessages) /\ Len(edgeLog) <= Len(log)
      /\ \A i \in 1 .. Len(edgeLog) : edgeLog[i] = log[i]
  BY DEF LinkType, HubType, EdgeType, EdgePrefix
<1>4. /\ edgeLog' \in Seq(EdgeMessages) /\ Len(edgeLog') = IF n <= Len(edgeLog) THEN Len(edgeLog) ELSE n
      /\ n <= Len(edgeLog) => edgeLog' = edgeLog
      /\ \A i \in 1 .. Len(edgeLog') : edgeLog'[i] = log[i]
  BY <1>2, <1>3, ExtendPrefix
<1> QED BY <1>2, <1>4

LEMMA SendRun ==
  ASSUME LinkType, StreamInv, HubSend
  PROVE  /\ link = "UP" /\ down' \in Seq(Nat) /\ cursor' = Len(cloud) /\ cursor < Len(cloud)
         /\ Len(down') = Len(down) + Len(cloud) - cursor
         /\ \A i \in 1 .. Len(down) : down'[i] = down[i]
         /\ \A i \in Len(down) + 1 .. Len(down') : down'[i] = cursor + i - Len(down)
<1>1. mark <= cursor /\ cursor \in Nat /\ mark \in Nat /\ Len(cloud) \in Nat /\ link = "UP" /\ cursor < Len(cloud)
  BY DEF HubSend, LinkType, HubType, EdgeType, StreamInv, Stream, InHand, CloudPrefix, Base
<1> DEFINE k == Len(cloud) - cursor
<1>2. k \in Nat /\ \A first : first = cursor + 1 => Len(cloud) - first + 1 = k
  BY <1>1
<1>3. down' = down \o [i \in 1 .. k |-> cursor + i]
  <2>1. down' = down \o [i \in 1 .. Len(cloud) - (cursor + 1) + 1 |-> (cursor + 1) + i - 1]
    BY <1>1 DEF HubSend
  <2>2. [i \in 1 .. Len(cloud) - (cursor + 1) + 1 |-> (cursor + 1) + i - 1] = [i \in 1 .. k |-> cursor + i]
    BY <1>1
  <2> QED BY <2>1, <2>2
<1>4. down \in Seq(Nat)
  BY DEF LinkType, HubType
<1>5. Len(down) \in Nat
  BY <1>4
<1> HIDE DEF k
<1>6. /\ down' \in Seq(Nat) /\ Len(down') = Len(down) + k
      /\ \A i \in 1 .. Len(down) : down'[i] = down[i]
      /\ \A i \in Len(down) + 1 .. Len(down) + k : down'[i] = cursor + i - Len(down)
  BY <1>1, <1>2, <1>3, <1>4, ExtendRun
<1> QED BY <1>1, <1>2, <1>5, <1>6 DEF k, HubSend

LEMMA HubTypeStep ==
  ASSUME LinkInv, Hub, UNCHANGED edgeVars
  PROVE  LinkType'
<1>0. EdgeType'
  BY DEF LinkInv, LinkType, EdgeType, edgeVars, spoolVars, processVars, historyVars
<1> SUFFICES HubType'
  BY <1>0 DEF LinkType
<1>1. LinkType /\ HubType /\ EdgeType /\ StreamInv
  BY DEF LinkInv, LinkType
<1>2. ASSUME NEW m \in CloudMessages, QueueCommand(m) PROVE HubType'
  BY <1>1, <1>2, QueueType DEF QueueCommand, HubType, streamVars
<1>3. ASSUME NEW s \in Sessions, GrantCreate(s) \/ BrowserConnect(s) \/ Elapse(s) PROVE HubType'
  BY <1>1, <1>3 DEF GrantCreate, BrowserConnect, Elapse, HubType, hubVars, streamVars
<1>4. ASSUME NEW s \in Sessions, GrantQueue(s) \/ RevokeEvent(s) \/ BrowserFrame(s) PROVE HubType'
  <2>1. PICK m \in CloudMessages : Queue(m)
    BY <1>4, MessageKinds DEF GrantQueue, RevokeEvent, BrowserFrame
  <2> QED BY <1>1, <1>4, <2>1, QueueType DEF GrantQueue, RevokeEvent, BrowserFrame, HubType, streamVars
<1>5. ASSUME Disconnect(InFlight) \/ HubCrash PROVE HubType'
  BY <1>1, <1>5, BrokenType, FlightType DEF Disconnect, HubCrash
<1>6. ASSUME HubOpen PROVE HubType'
  <2>1. CASE hello < mark \/ hello > Len(cloud)
    BY <1>1, <1>6, <2>1, BrokenType, FlightType DEF HubOpen
  <2>2. CASE ~(hello < mark \/ hello > Len(cloud))
    <3>1. <<0>> \in Seq(Nat) /\ Len(edgeLog) \in Nat
      BY <1>1 DEF HubType
    <3>2. /\ mark' = hello /\ link' = "UP" /\ cursor' = hello /\ hello' = 0 /\ down' = <<0>>
          /\ helloAck' = Len(edgeLog) /\ UNCHANGED <<cloud, edgeLog, late>>
      BY <1>6, <2>2 DEF HubOpen, AckedThrough
    <3>3. down' \in Seq(Nat)
      BY <3>1, <3>2, Zenon
    <3> QED BY <1>1, <3>1, <3>2, <3>3 DEF HubType
  <2> QED BY <2>1, <2>2
<1>7. ASSUME HubSend PROVE HubType'
  <2>1. down' \in Seq(Nat) /\ cursor' \in Nat
    BY <1>1, <1>7, SendRun DEF HubType
  <2> QED BY <1>1, <1>7, <2>1 DEF HubSend, HubType, hubVars
<1>8. ASSUME HubReceiveLate(log) PROVE HubType'
  <2>1. late \in Ranges /\ late.from \in Nat \ {0} /\ late.to \in Nat /\ late.to <= Len(log) /\ Len(log) \in Nat
    BY <1>1 DEF HubType, EdgeType, Ranges, StreamInv, EdgePrefix
  <2>2. edgeLog' \in Seq(EdgeMessages)
    <3>1. CASE Gap(late.from)
      BY <1>1, <1>8, <3>1 DEF HubReceiveLate, HubType
    <3>2. CASE ~Gap(late.from)
      <4>1. PICK n \in late.from - 1 .. late.to : RecordEdge(log, late.from, n)
        BY <1>8, <3>2 DEF HubReceiveLate
      <4>2. n \in Nat /\ n <= Len(log)
        BY <2>1
      <4> QED BY <1>1, <2>1, <3>2, <4>1, <4>2, RecordEdgeFacts DEF StreamInv
    <3> QED BY <3>1, <3>2
  <2> QED BY <1>1, <1>8, <2>2, FlightType DEF HubReceiveLate, HubType
<1> QED BY <1>2, <1>3, <1>4, <1>5, <1>6, <1>7, <1>8 DEF Hub

\* The runner whose state was just stored is there to report it.
LEMMA Reporter ==
  ASSUME LinkInv, busy = Reporting
  PROVE  runner \in Runners /\ runner.id \in Commands
BY DEF LinkInv, LinkType, EdgeType, WorkInv, NoRunner, Runners, Reporting

LEMMA GatewayTypeStep ==
  ASSUME LinkInv, Gateway
  PROVE  LinkType'
<1>1. LinkType /\ HubType /\ EdgeType /\ StreamInv
  BY DEF LinkInv, LinkType
<1>2. CASE EdgeConnect
  BY <1>1, <1>2 DEF EdgeConnect, LinkType, HubType, EdgeType, hubVars, spoolVars, historyVars
<1>3. CASE EdgeSend
  <2>0. EdgeType'
    BY <1>1, <1>3 DEF EdgeSend, EdgeType, spoolVars, historyVars
  <2>1. CASE Gap(Unsent.from)
    BY <1>1, <1>3, <2>0, <2>1, BrokenType, FlightType
       DEF EdgeSend, HubReceive, LinkType, hubVars
  <2>2. CASE ~Gap(Unsent.from)
    <3>1. Unsent.from \in Nat \ {0} /\ Len(log) \in Nat
      BY <1>1, FlightType DEF EdgeType
    <3>2. edgeLog' \in Seq(EdgeMessages)
      BY <1>1, <1>3, <2>2, <3>1, RecordEdgeFacts DEF EdgeSend, HubReceive, StreamInv
    <3> QED BY <1>1, <1>3, <2>0, <2>2, <3>2 DEF EdgeSend, HubReceive, LinkType, HubType, streamVars
  <2> QED BY <2>1, <2>2
<1>4. CASE HandleHello
  <2>1. down' \in Seq(Nat)
    BY <1>1, <1>4, TailFacts DEF HandleHello, HubType
  <2> QED BY <1>1, <1>4, <2>1
       DEF HandleHello, KeepLink, LinkType, HubType, EdgeType, hubVars, processVars, historyVars
<1>5. CASE StartReceive
  <2>1. Head(down) \in 1 .. Len(cloud) /\ Head(down) \in Nat /\ down' \in Seq(Nat) /\ cloud[Head(down)].id \in Commands
    BY <1>1, <1>5, IncomingFacts, MessageNames DEF StartReceive
  <2>2. HubType'
    BY <1>1, <1>5, <2>1 DEF StartReceive, Incoming, KeepLink, HubType, hubVars
  <2> DEFINE c == cloud[Head(down)].id
  <2>3. command[c] \in CommandStates /\ Fence[c] \in Nat
    BY <1>1, <2>1, GatewayAssumption DEF EdgeType
  <2>4. command' \in [Commands -> CommandStates] /\ fence' \in Nat
    BY <1>1, <1>5, <2>1, <2>3 DEF StartReceive, AcceptCommand, EdgeType, CommandStates
  <2>5. busy' \in StartWork
    BY <1>5, <2>1, <2>3 DEF StartReceive, StartWork, CommandStates
  <2>6. runner' \in {NoRunner} \cup Runners
    BY <1>1, <1>5 DEF StartReceive, EdgeType, Cancel, Runners, Running
  <2> QED BY <1>1, <1>5, <2>2, <2>4, <2>5, <2>6 DEF StartReceive, LinkType, EdgeType, historyVars
<1>6. CASE StartAck
  <2>1. busy \in StartWork /\ busy.id \in Commands /\ busy.n \in 1 .. Len(cloud)
    BY <1>1, <1>6 DEF StartAck, EdgeType, Free, Reporting, StartWork, OtherWork, StreamInv, InHand
  <2>2. lastCloud' \in Nat /\ taken' \in Seq(CloudMessages)
    BY <1>1, <1>6, <2>1, RecordFacts DEF StartAck, StreamInv
  <2>3. log' \in Seq(EdgeMessages)
    BY <1>1, <1>6, <2>1, EmitType, MessageKinds DEF StartAck
  <2>4. busy' \in {Free} \cup StartWork
    BY <1>6, <2>1 DEF StartAck, StartWork
  <2> QED BY <1>1, <1>6, <2>2, <2>3, <2>4 DEF StartAck, LinkType, HubType, EdgeType, hubVars, streamVars
<1>7. CASE StartDispatch
  <2>1. busy \in StartWork /\ busy.id \in Commands
    BY <1>1, <1>7 DEF StartDispatch, EdgeType, Free, Reporting, StartWork, OtherWork
  <2>2. log' \in Seq(EdgeMessages)
    BY <1>1, <1>7, <2>1, EmitType, MessageKinds DEF StartDispatch
  <2>3. runner' \in {NoRunner} \cup Runners
    BY <1>1, <1>7, <2>1 DEF StartDispatch, EdgeType, Runners
  <2> QED BY <1>1, <1>7, <2>2, <2>3
       DEF StartDispatch, LinkType, HubType, EdgeType, hubVars, streamVars, historyVars
<1>8. CASE HandleCancel
  <2>1. Head(down) \in 1 .. Len(cloud) /\ down' \in Seq(Nat) /\ cloud[Head(down)].id \in Commands
    BY <1>1, <1>8, IncomingFacts, MessageNames DEF HandleCancel
  <2>2. log' \in Seq(EdgeMessages)
    BY <1>1, <1>8, <2>1, EmitType, MessageKinds DEF HandleCancel
  <2>3. lastCloud' \in Nat /\ taken' \in Seq(CloudMessages)
    BY <1>1, <1>8, <2>1, RecordFacts DEF HandleCancel, StreamInv
  <2>4. runner' \in {NoRunner} \cup Runners
    BY <1>1, <1>8 DEF HandleCancel, EdgeType, Cancel, Runners, Running
  <2> QED BY <1>1, <1>8, <2>1, <2>2, <2>3, <2>4
       DEF HandleCancel, Incoming, KeepLink, LinkType, HubType, EdgeType, hubVars
<1>9. CASE RunnerBegin
  <2>1. runner \in Runners /\ runner.id \in Commands
    BY <1>1, <1>9 DEF RunnerBegin, EdgeType, NoRunner, Runners
  <2>2. busy' \in {Free, Reporting}
    BY <1>9 DEF RunnerBegin
  <2>3. command' \in [Commands -> CommandStates]
    BY <1>1, <1>9, <2>1 DEF RunnerBegin, SetCommandState, EdgeType, CommandStates
  <2>4. runner' \in Runners
    BY <1>9, <2>1 DEF RunnerBegin, Runners
  <2> QED BY <1>1, <1>9, <2>2, <2>3, <2>4
       DEF RunnerBegin, LinkType, HubType, EdgeType, hubVars, streamVars, historyVars
<1>10. CASE RunnerWork
  <2>1. runner \in Runners /\ runner.id \in Commands
    BY <1>1, <1>10 DEF RunnerWork, EdgeType, NoRunner, Runners
  <2>2. started' \in [Commands -> Nat]
    BY <1>1, <1>10, <2>1 DEF RunnerWork, EdgeType
  <2>3. runner' \in Runners
    BY <1>10, <2>1 DEF RunnerWork, Runners
  <2> QED BY <1>1, <1>10, <2>2, <2>3
       DEF RunnerWork, LinkType, HubType, EdgeType, hubVars, streamVars, spoolVars
<1>11. CASE RunnerEnd
  <2>1. runner \in Runners /\ runner.id \in Commands
    BY <1>1, <1>11 DEF RunnerEnd, Running, EdgeType, NoRunner, Runners
  <2>2. runner' \in Runners /\ busy' = Reporting
    BY <1>11, <2>1 DEF RunnerEnd, Runners
  <2>3. Results(runner) \subseteq {"SUCCEEDED", "FAILED", "CANCELED"}
    BY DEF Results
  <2>4. command' \in [Commands -> CommandStates]
    BY <1>1, <1>11, <2>1, <2>3 DEF RunnerEnd, SetCommandState, EdgeType, CommandStates
  <2> QED BY <1>1, <1>11, <2>2, <2>4
       DEF RunnerEnd, LinkType, HubType, EdgeType, hubVars, streamVars, historyVars
<1>12. CASE HandleRecord
  <2>1. busy.n \in 1 .. Len(cloud)
    BY <1>1, <1>12 DEF HandleRecord, EdgeType, Free, StartWork, OtherWork, StreamInv, InHand
  <2>2. lastCloud' \in Nat /\ taken' \in Seq(CloudMessages)
    BY <1>1, <1>12, <2>1, RecordFacts DEF HandleRecord, StreamInv
  <2> QED BY <1>1, <1>12, <2>2 DEF HandleRecord, LinkType, HubType, EdgeType, hubVars, streamVars
<1>13. CASE HandleGrant \/ HandleRevoke
  <2>1. PICK k \in {"GRANT", "REVOKE"} : Incoming(k)
    BY <1>13 DEF HandleGrant, HandleRevoke
  <2>2. Head(down) \in 1 .. Len(cloud) /\ Head(down) \in Nat /\ down' \in Seq(Nat) /\ cloud[Head(down)].id \in Sessions
    BY <1>1, <2>1, IncomingFacts, MessageNames
  <2>3. busy' \in OtherWork
    BY <1>13, <2>2 DEF HandleGrant, HandleRevoke, OtherWork
  <2>4. active' \in [Sessions -> GrantStates] /\ grants' \in [Sessions -> GrantStates]
    BY <1>1, <1>13, <2>2 DEF HandleGrant, HandleRevoke, EdgeType, Revoked, GrantStates
  <2> QED BY <1>1, <1>13, <2>1, <2>2, <2>3, <2>4
       DEF HandleGrant, HandleRevoke, Incoming, KeepLink, LinkType, HubType, EdgeType, hubVars, historyVars
<1>14. CASE HandleFrame
  <2>2. Head(down) \in 1 .. Len(cloud) /\ Head(down) \in Nat /\ down' \in Seq(Nat) /\ cloud[Head(down)].id \in Sessions
    BY <1>1, <1>14, IncomingFacts, MessageNames DEF HandleFrame
  <2>3. busy' \in OtherWork
    BY <1>14, <2>2 DEF HandleFrame, OtherWork
  <2>4. active' \in [Sessions -> GrantStates]
    BY <1>1, <1>14, <2>2 DEF HandleFrame, EdgeType, GrantStates
  <2>5. log' \in Seq(EdgeMessages)
    BY <1>1, <1>14, <2>2, EmitType, MessageKinds DEF HandleFrame
  <2> QED BY <1>1, <1>14, <2>2, <2>3, <2>4, <2>5
       DEF HandleFrame, Incoming, KeepLink, LinkType, HubType, EdgeType, hubVars
<1>15. CASE GatewayStop \/ RefuseGrant
  <2>1. HubType'
    BY <1>1, <1>15, BrokenType, FlightType DEF GatewayStop, RefuseGrant, Stop
  <2> QED BY <1>1, <1>15, <2>1
       DEF GatewayStop, RefuseGrant, Stop, LinkType, EdgeType, GrantStates, spoolVars, historyVars
<1>16. CASE GatewayStart
  <2>1. active' \in [Sessions -> GrantStates] /\ grants' \in [Sessions -> GrantStates]
    BY <1>1, <1>16 DEF GatewayStart, EdgeType, GrantStates
  <2> QED BY <1>1, <1>16, <2>1 DEF GatewayStart, LinkType, HubType, EdgeType, hubVars, streamVars, historyVars
<1>17. CASE RunnerReport
  <2>1. log' \in Seq(EdgeMessages) /\ runner' \in {NoRunner} \cup Runners
    BY <1>1, <1>17, Reporter, EmitType, MessageKinds DEF RunnerReport
  <2> QED BY <1>1, <1>17, <2>1
       DEF RunnerReport, LinkType, HubType, EdgeType, hubVars, streamVars, historyVars
<1> QED BY <1>2, <1>3, <1>4, <1>5, <1>6, <1>7, <1>8, <1>9, <1>10, <1>11, <1>12, <1>13, <1>14, <1>15, <1>16, <1>17
     DEF Gateway

-----------------------------------------------------------------------------
(* The stream                                                              *)

(* The log of the Edge only grows.                                         *)
Grows == Len(log') >= Len(log) /\ \A i \in 1 .. Len(log) : log'[i] = log[i]

LEMMA LogGrows ==
  ASSUME LinkType, UNCHANGED log \/ \E k, i : [kind |-> k, id |-> i] \in EdgeMessages /\ Emit(k, i)
  PROVE  Grows
<1>1. Len(log) \in Nat
  BY DEF LinkType, EdgeType
<1>2. CASE UNCHANGED log
  BY <1>1, <1>2 DEF Grows
<1>3. ASSUME NEW k, NEW i, [kind |-> k, id |-> i] \in EdgeMessages, Emit(k, i) PROVE Grows
  BY <1>1, <1>3, EmitType DEF Grows
<1> QED BY <1>2, <1>3

\* A step that touches neither the stream nor what was recorded.
LEMMA StreamKept ==
  ASSUME LinkType, StreamInv, Grows, Len(log') \in Nat,
         UNCHANGED <<cloud, mark, edgeLog, link, hello, down, helloAck, cursor, late, lastCloud, acked,
                     gateway, taken>>,
         \/ UNCHANGED busy
         \/ busy.step \in {"FREE", "EVENT", "DISPATCH"} /\ busy' \in {Free, Reporting}
  PROVE  StreamInv'
<1>1. /\ busy'.step \in {"ACK", "RECORD"} <=> busy.step \in {"ACK", "RECORD"}
      /\ busy'.step \in {"ACK", "RECORD"} => busy' = busy
      /\ busy.step \in {"FREE", "EVENT"} => busy'.step \in {"FREE", "EVENT"}
  BY DEF Free, Reporting
<1>2. Base' = Base /\ Hellos' = Hellos
  BY <1>1 DEF Base, Hellos
<1>3. CloudPrefix' /\ EdgePrefix'
  BY DEF StreamInv, CloudPrefix, EdgePrefix, Grows, LinkType, HubType, EdgeType, Ranges
<1>4. InHand'
  BY <1>1 DEF StreamInv, InHand
<1>5. Stream'
  BY <1>1, <1>2 DEF StreamInv, Stream, StreamContiguous
<1> QED BY <1>3, <1>4, <1>5 DEF StreamInv

LEMMA StreamQueue ==
  ASSUME LinkType, StreamInv, NEW m \in CloudMessages, Queue(m),
         UNCHANGED <<mark, edgeLog, streamVars, edgeVars>>
  PROVE  StreamInv'
<1> USE DEF streamVars, edgeVars, spoolVars, processVars, historyVars
<1>1. /\ Len(cloud') = Len(cloud) + 1 /\ Len(cloud) \in Nat /\ lastCloud \in Nat /\ cursor \in Nat
      /\ \A i \in 1 .. Len(cloud) : cloud'[i] = cloud[i]
  BY QueueType DEF LinkType, HubType, EdgeType
<1>2. Base' = Base /\ Hellos' = Hellos
  BY DEF Base, Hellos
<1>3. CloudPrefix' /\ EdgePrefix'
  BY <1>1 DEF StreamInv, CloudPrefix, EdgePrefix
<1>4. InHand'
  BY <1>1 DEF StreamInv, InHand
<1>5. Stream'
  BY <1>1, <1>2 DEF StreamInv, Stream, StreamContiguous
<1> QED BY <1>3, <1>4, <1>5 DEF StreamInv

\* The stream breaks and nothing is in hand, or the same as before.
LEMMA StreamBroken ==
  ASSUME LinkType, StreamInv, Broken(Empty) \/ Broken(InFlight), UNCHANGED <<hubVars, spoolVars, taken>>,
         UNCHANGED <<gateway, busy>> \/ busy' = Free
  PROVE  StreamInv'
<1> USE DEF hubVars, spoolVars
<1>1. late'.to <= Len(log) /\ helloAck' = 0 /\ link' = "DOWN" /\ Len(edgeLog) \in Nat
  BY DEF Broken, InFlight, Unsent, Empty, LinkType, EdgeType, HubType
<1>2. CloudPrefix' /\ EdgePrefix'
  BY <1>1 DEF StreamInv, CloudPrefix, EdgePrefix
<1>3. InHand'
  BY <1>1 DEF StreamInv, InHand, Free
<1>4. Stream'
  BY <1>1 DEF Stream
<1> QED BY <1>2, <1>3, <1>4 DEF StreamInv

\* More of the Edge's log is recorded.
LEMMA StreamRecorded ==
  ASSUME LinkType, StreamInv, Len(edgeLog') \in Nat, Len(edgeLog') >= Len(edgeLog), Len(edgeLog') <= Len(log),
         \A i \in 1 .. Len(edgeLog') : edgeLog'[i] = log[i],
         late' \in {late, Empty},
         UNCHANGED <<cloud, mark, link, hello, down, helloAck, cursor, spoolVars, gateway, busy, taken>>
  PROVE  StreamInv'
<1> USE DEF spoolVars
<1>1. Base' = Base /\ Hellos' = Hellos
  BY DEF Base, Hellos
<1>2. late'.to <= Len(log) /\ Len(log) \in Nat /\ Len(edgeLog) \in Nat
  BY DEF Empty, StreamInv, EdgePrefix, LinkType, EdgeType, HubType
<1>3. CloudPrefix' /\ EdgePrefix'
  BY <1>2 DEF StreamInv, CloudPrefix, EdgePrefix, LinkType, HubType, EdgeType
<1>4. InHand' /\ Stream'
  BY <1>1 DEF StreamInv, InHand, Stream, StreamContiguous
<1> QED BY <1>3, <1>4 DEF StreamInv

LEMMA HubStreamStep ==
  ASSUME LinkInv, Hub, UNCHANGED edgeVars
  PROVE  StreamInv'
<1> USE DEF edgeVars, spoolVars, processVars, historyVars
<1>1. LinkType /\ HubType /\ EdgeType /\ StreamInv
  BY DEF LinkInv, LinkType
<1>2. ASSUME NEW m \in CloudMessages, QueueCommand(m) PROVE StreamInv'
  BY <1>1, <1>2, StreamQueue DEF QueueCommand
<1>3. ASSUME NEW s \in Sessions, GrantCreate(s) \/ BrowserConnect(s) \/ Elapse(s) PROVE StreamInv'
  BY <1>1, <1>3, StreamKept, LogGrows DEF GrantCreate, BrowserConnect, Elapse, HubType, EdgeType, hubVars, streamVars
<1>4. ASSUME NEW s \in Sessions, GrantQueue(s) \/ RevokeEvent(s) \/ BrowserFrame(s) PROVE StreamInv'
  <2>1. PICK m \in CloudMessages : Queue(m)
    BY <1>4, MessageKinds DEF GrantQueue, RevokeEvent, BrowserFrame
  <2> QED BY <1>1, <1>4, <2>1, StreamQueue DEF GrantQueue, RevokeEvent, BrowserFrame
<1>5. ASSUME Disconnect(InFlight) \/ HubCrash PROVE StreamInv'
  BY <1>1, <1>5, StreamBroken DEF Disconnect, HubCrash
<1>6. ASSUME HubOpen PROVE StreamInv'
  <2>1. hello = lastCloud /\ busy.step \notin {"ACK", "RECORD"} /\ Base = lastCloud /\ Base' = lastCloud
    BY <1>1, <1>6 DEF HubOpen, StreamInv, Stream, Base, Free, Reporting
  <2>2. ~(hello < mark \/ hello > Len(cloud)) /\ lastCloud <= Len(cloud) /\ lastCloud \in Nat
    BY <1>1, <2>1 DEF StreamInv, CloudPrefix, HubType, EdgeType
  <2>3. /\ mark' = hello /\ link' = "UP" /\ cursor' = hello /\ hello' = 0 /\ down' = <<0>>
        /\ helloAck' = Len(edgeLog) /\ UNCHANGED <<cloud, edgeLog, late>>
    BY <1>6, <2>2 DEF HubOpen, AckedThrough
  <2>4. Len(down') = 1 /\ Hellos' = 1
    BY <2>3 DEF Hellos
  <2>5. CloudPrefix' /\ EdgePrefix'
    BY <1>1, <2>1, <2>3 DEF StreamInv, CloudPrefix, EdgePrefix, HubType, EdgeType
  <2>6. InHand'
    BY <1>1, <1>6, <2>1, <2>3 DEF HubOpen, StreamInv, InHand, Free
  <2>7. Stream'
    BY <2>1, <2>2, <2>3, <2>4 DEF Stream, StreamContiguous
  <2> QED BY <2>5, <2>6, <2>7 DEF StreamInv
<1>7. ASSUME HubSend PROVE StreamInv'
  <2>1. /\ link = "UP" /\ cursor' = Len(cloud) /\ cursor < Len(cloud) /\ down' \in Seq(Nat)
        /\ Len(down') = Len(down) + Len(cloud) - cursor
        /\ \A i \in 1 .. Len(down) : down'[i] = down[i]
        /\ \A i \in Len(down) + 1 .. Len(down') : down'[i] = cursor + i - Len(down)
    BY <1>1, <1>7, SendRun
  <2>2. Len(cloud) \in Nat /\ cursor \in Nat /\ Len(down) \in Nat /\ down \in Seq(Nat) /\ Base \in Nat
    BY <1>1 DEF HubType, EdgeType, Base, Free, Reporting, StartWork, OtherWork
  <2>3. Base' = Base /\ UNCHANGED <<hubVars, link, hello, helloAck, late>>
    BY <1>7 DEF HubSend, Base
  <2>4. down' # <<>> /\ Head(down') = down'[1]
    BY <2>1, <2>2
  <2>5. Hellos' = Hellos
    <3>1. CASE down = <<>>
      BY <2>1, <2>2, <2>4, <3>1 DEF Hellos
    <3>2. CASE down # <<>>
      <4>1. Head(down) = down[1] /\ Len(down) >= 1
        BY <2>2, <3>2
      <4> QED BY <2>1, <2>2, <2>4, <4>1 DEF Hellos
    <3> QED BY <3>1, <3>2
  <2>6. Hellos \in {0, 1} /\ Base <= cursor /\ Len(down) = Hellos + cursor - Base /\ StreamContiguous
    BY <1>1, <2>1 DEF StreamInv, Stream, Hellos
  <2>7. ASSUME NEW i \in Hellos + 1 .. Len(down') PROVE down'[i] = Base + i - Hellos
    <3>1. CASE i <= Len(down)
      BY <2>1, <2>2, <2>6, <3>1 DEF StreamContiguous
    <3>2. CASE i > Len(down)
      BY <2>1, <2>2, <2>6, <3>2
    <3> QED BY <2>2, <2>6, <3>1, <3>2
  <2>8. Stream'
    <3>1. Base' <= cursor' /\ cursor' <= Len(cloud') /\ Len(down') = Hellos' + cursor' - Base' /\ link' = "UP"
      BY <2>1, <2>2, <2>3, <2>5, <2>6 DEF hubVars
    <3>2. StreamContiguous'
      BY <2>3, <2>5, <2>7 DEF StreamContiguous
    <3> QED BY <3>1, <3>2 DEF Stream
  <2>9. CloudPrefix' /\ EdgePrefix' /\ InHand'
    BY <1>1, <2>3 DEF StreamInv, CloudPrefix, EdgePrefix, InHand, hubVars
  <2> QED BY <2>8, <2>9 DEF StreamInv
<1>8. ASSUME HubReceiveLate(log) PROVE StreamInv'
  <2>1. late \in Ranges /\ late.from \in Nat \ {0} /\ late.to \in Nat /\ late.to <= Len(log) /\ Len(log) \in Nat
        /\ Len(edgeLog) \in Nat /\ Len(edgeLog) <= Len(log)
    BY <1>1 DEF HubType, EdgeType, Ranges, StreamInv, EdgePrefix
  <2>2. /\ Len(edgeLog') \in Nat /\ Len(edgeLog') >= Len(edgeLog) /\ Len(edgeLog') <= Len(log)
        /\ \A i \in 1 .. Len(edgeLog') : edgeLog'[i] = log[i]
    <3>1. CASE Gap(late.from)
      BY <1>1, <1>8, <2>1, <3>1 DEF HubReceiveLate, StreamInv, EdgePrefix
    <3>2. CASE ~Gap(late.from)
      <4>1. PICK n \in late.from - 1 .. late.to : RecordEdge(log, late.from, n)
        BY <1>8, <3>2 DEF HubReceiveLate
      <4>2. n \in Nat /\ n <= Len(log)
        BY <2>1
      <4> QED BY <1>1, <2>1, <3>2, <4>1, <4>2, RecordEdgeFacts DEF StreamInv
    <3> QED BY <3>1, <3>2
  <2> QED BY <1>1, <1>8, <2>2, StreamRecorded DEF HubReceiveLate
<1> QED BY <1>2, <1>3, <1>4, <1>5, <1>6, <1>7, <1>8 DEF Hub

\* The handler has taken a message off the stream.
LEMMA StreamIncoming ==
  ASSUME LinkType, StreamInv, NEW k, Incoming(k), KeepLink, UNCHANGED <<hubVars, acked, gateway>>, Grows, Len(log') \in Nat,
         \/ UNCHANGED <<lastCloud, taken>> /\ busy'.step \in {"ACK", "RECORD"} /\ busy'.n = Head(down)
            /\ (busy'.step = "ACK" => k = "START")
         \/ UNCHANGED busy /\ Record(Head(down))
  PROVE  StreamInv'
<1>1. /\ Head(down) = lastCloud + 1 /\ Head(down) \in 1 .. Len(cloud) /\ Head(down) \in Nat
      /\ down' \in Seq(Nat) /\ cloud[Head(down)].kind = k
      /\ busy = Free /\ link = "UP" /\ gateway = "UP" /\ Hellos = 0 /\ Base = lastCloud
      /\ Len(down') = cursor - lastCloud - 1
      /\ \A i \in 1 .. Len(down') : down'[i] = lastCloud + 1 + i
  BY IncomingFacts
<1>2. lastCloud \in Nat /\ cursor \in Nat /\ Len(down') \in Nat /\ cursor' = cursor /\ link' = "UP" /\ cursor <= Len(cloud) /\ Len(cloud) \in Nat
  BY <1>1 DEF LinkType, HubType, EdgeType, Incoming, KeepLink, StreamInv, Stream
<1>3. Hellos' = 0
  <2>1. CASE down' = <<>>
    BY <2>1 DEF Hellos
  <2>2. CASE down' # <<>>
    <3>1. Head(down') = down'[1] /\ Len(down') >= 1
      BY <1>1, <2>2
    <3> QED BY <1>1, <1>2, <3>1 DEF Hellos
  <2> QED BY <2>1, <2>2
<1>4. Base' = lastCloud + 1
  <2>1. CASE UNCHANGED lastCloud /\ busy'.step \in {"ACK", "RECORD"} /\ busy'.n = Head(down)
    BY <1>1, <2>1 DEF Base
  <2>2. CASE UNCHANGED busy /\ Record(Head(down))
    BY <1>1, <2>2 DEF Base, Record, Free
  <2> QED BY <2>1, <2>2
<1>5. Stream'
  BY <1>1, <1>2, <1>3, <1>4 DEF Stream, StreamContiguous, hubVars
<1>6. CloudPrefix'
  <2>1. CASE UNCHANGED <<lastCloud, taken>>
    BY <2>1 DEF StreamInv, CloudPrefix, hubVars
  <2>2. CASE Record(Head(down))
    BY <1>1, <1>2, <2>2, RecordFacts DEF StreamInv, CloudPrefix, hubVars, LinkType, HubType
  <2> QED BY <2>1, <2>2
<1>7. EdgePrefix'
  <2>1. UNCHANGED <<edgeLog, acked, helloAck, late>>
    BY DEF Incoming, KeepLink, hubVars
  <2>2. Len(edgeLog) \in Nat /\ Len(log) \in Nat /\ late.to \in Nat
    BY DEF LinkType, HubType, EdgeType, Ranges
  <2> QED BY <2>1, <2>2 DEF StreamInv, EdgePrefix, Grows
<1>8. InHand'
  <2>1. CASE UNCHANGED <<lastCloud, taken>> /\ busy'.step \in {"ACK", "RECORD"} /\ busy'.n = Head(down)
            /\ (busy'.step = "ACK" => k = "START")
    BY <1>1, <1>2, <2>1 DEF InHand, hubVars
  <2>2. CASE UNCHANGED busy
    BY <1>1, <1>2, <2>2 DEF InHand, Free
  <2> QED BY <2>1, <2>2
<1> QED BY <1>5, <1>6, <1>7, <1>8 DEF StreamInv

\* The message in hand is recorded.
LEMMA StreamTaken ==
  ASSUME LinkType, StreamInv, busy.step \in {"ACK", "RECORD"}, Record(busy.n),
         UNCHANGED <<hubVars, streamVars, acked, gateway>>, Grows, Len(log') \in Nat,
         busy'.step \notin {"ACK", "RECORD"}
  PROVE  StreamInv'
<1> USE DEF hubVars, streamVars
<1>1. busy.n = lastCloud + 1 /\ busy.n \in 1 .. Len(cloud) /\ Len(cloud) \in Nat /\ lastCloud \in Nat
  BY DEF StreamInv, InHand, LinkType, HubType, EdgeType
<1>2. /\ lastCloud' = busy.n /\ Len(taken') = busy.n /\ taken'[busy.n] = cloud[busy.n]
      /\ \A i \in 1 .. lastCloud : taken'[i] = cloud[i]
  BY <1>1, RecordFacts DEF StreamInv
<1>3. CloudPrefix'
  <2>1. mark \in Nat /\ mark <= lastCloud /\ UNCHANGED <<cloud, mark>>
    BY DEF StreamInv, CloudPrefix, LinkType, HubType
  <2>2. ASSUME NEW i \in 1 .. lastCloud' PROVE taken'[i] = cloud'[i]
    BY <1>1, <1>2, <2>1
  <2> QED BY <1>1, <1>2, <2>1, <2>2 DEF CloudPrefix
<1>4. EdgePrefix'
  BY DEF StreamInv, EdgePrefix, Grows, LinkType, HubType, EdgeType, Ranges
<1>5. gateway = "UP" /\ link # "HELLO"
  BY DEF StreamInv, InHand, Stream, Free, Reporting, LinkType, EdgeType
<1>6. InHand'
  BY <1>5 DEF InHand
<1>7. Base' = Base /\ Hellos' = Hellos
  BY <1>2 DEF Base, Hellos
<1>8. Stream'
  BY <1>5, <1>7 DEF StreamInv, Stream, StreamContiguous
<1> QED BY <1>3, <1>4, <1>6, <1>8 DEF StreamInv

LEMMA GatewayStreamStep ==
  ASSUME LinkInv, Gateway
  PROVE  StreamInv'
<1>1. LinkType /\ HubType /\ EdgeType /\ StreamInv
  BY DEF LinkInv, LinkType
<1>0. Len(log') \in Nat
  BY GatewayTypeStep DEF LinkType, EdgeType
<1>2. CASE EdgeConnect
  <2>1. link' = "HELLO" /\ hello' = lastCloud /\ busy' = Free /\ gateway' = "UP" /\ UNCHANGED <<hubVars, helloAck, late, spoolVars, taken>>
    BY <1>2 DEF EdgeConnect, historyVars
  <2>2. CloudPrefix' /\ EdgePrefix'
    BY <1>1, <2>1 DEF StreamInv, CloudPrefix, EdgePrefix, hubVars, spoolVars
  <2>3. InHand' /\ Stream'
    BY <2>1 DEF InHand, Stream, Free, spoolVars
  <2> QED BY <2>2, <2>3 DEF StreamInv
<1>3. CASE EdgeSend
  <2>1. CASE Gap(Unsent.from)
    BY <1>1, <1>3, <2>1, StreamBroken DEF EdgeSend, HubReceive, hubVars, historyVars
  <2>2. CASE ~Gap(Unsent.from)
    <3>1. Unsent.from \in Nat \ {0} /\ Len(log) \in Nat /\ Len(edgeLog) \in Nat /\ Len(edgeLog) <= Len(log)
      BY <1>1, FlightType DEF EdgeType, HubType, StreamInv, EdgePrefix
    <3>2. /\ Len(edgeLog') \in Nat /\ Len(edgeLog') >= Len(edgeLog) /\ Len(edgeLog') <= Len(log)
          /\ \A i \in 1 .. Len(edgeLog') : edgeLog'[i] = log[i]
      BY <1>1, <1>3, <2>2, <3>1, RecordEdgeFacts DEF EdgeSend, HubReceive, StreamInv
    <3> QED BY <1>1, <1>3, <2>2, <3>2, StreamRecorded DEF EdgeSend, HubReceive, streamVars, historyVars
  <2> QED BY <2>1, <2>2
<1>4. CASE HandleHello
  <2>1. /\ link = "UP" /\ down' = Tail(down) /\ Head(down) = 0 /\ down # <<>> /\ helloAck' = 0
        /\ acked' = (IF helloAck > acked THEN helloAck ELSE acked)
        /\ UNCHANGED <<hubVars, link, hello, cursor, late, lastCloud, log, gateway, busy, taken>>
    BY <1>4 DEF HandleHello, KeepLink, processVars, historyVars
  <2>2. /\ down' \in Seq(Nat) /\ Len(down') = Len(down) - 1 /\ Len(down) \in Nat \ {0} /\ Len(down') \in Nat
        /\ \A i \in 1 .. Len(down) - 1 : down'[i] = down[i + 1]
    BY <1>1, <2>1, TailFacts DEF HubType
  <2>3. Base' = Base /\ Base \in Nat /\ cursor \in Nat /\ Hellos = 1
    BY <1>1, <2>1 DEF Base, Hellos, HubType, EdgeType, Free, Reporting, StartWork, OtherWork
  <2>4. \A i \in 1 .. Len(down') : down'[i] = Base + i
    BY <1>1, <2>1, <2>2, <2>3 DEF StreamInv, Stream, StreamContiguous
  <2>5. Hellos' = 0
    <3>1. CASE down' = <<>>
      BY <3>1 DEF Hellos
    <3>2. CASE down' # <<>>
      <4>1. Head(down') = down'[1] /\ Len(down') >= 1
        BY <2>2, <3>2
      <4> QED BY <2>2, <2>3, <2>4, <4>1 DEF Hellos
    <3> QED BY <3>1, <3>2
  <2>6. Stream'
    BY <1>1, <2>1, <2>2, <2>3, <2>4, <2>5 DEF StreamInv, Stream, StreamContiguous, hubVars
  <2>7. CloudPrefix' /\ EdgePrefix' /\ InHand'
    BY <1>1, <2>1 DEF StreamInv, CloudPrefix, EdgePrefix, InHand, hubVars, HubType, EdgeType
  <2> QED BY <2>6, <2>7 DEF StreamInv
<1>5. CASE StartReceive
  BY <1>0, <1>1, <1>5, StreamIncoming, LogGrows DEF StartReceive, historyVars
<1>6. CASE StartAck
  <2>1. busy.id \in Commands
    BY <1>1, <1>6 DEF StartAck, EdgeType, Free, Reporting, StartWork, OtherWork
  <2>2. busy'.step \in {"DISPATCH", "FREE"}
    BY <1>1, <1>6 DEF StartAck, EdgeType, Free, StartWork, OtherWork
  <2>3. Grows
    BY <1>1, <1>6, <2>1, LogGrows, MessageKinds DEF StartAck
  <2> QED BY <1>0, <1>1, <1>6, <2>2, <2>3, StreamTaken DEF StartAck
<1>7. CASE StartDispatch
  <2>1. busy.id \in Commands
    BY <1>1, <1>7 DEF StartDispatch, EdgeType, Free, Reporting, StartWork, OtherWork
  <2>2. Grows
    BY <1>1, <1>7, <2>1, LogGrows, MessageKinds DEF StartDispatch
  <2> QED BY <1>0, <1>1, <1>7, <2>2, StreamKept DEF StartDispatch, hubVars, streamVars, historyVars
<1>8. CASE HandleCancel
  <2>1. cloud[Head(down)].id \in Commands
    BY <1>1, <1>8, IncomingFacts, MessageNames DEF HandleCancel
  <2>2. Grows
    BY <1>1, <1>8, <2>1, LogGrows, MessageKinds DEF HandleCancel
  <2> QED BY <1>0, <1>1, <1>8, <2>2, StreamIncoming DEF HandleCancel
<1>9. CASE RunnerBegin \/ RunnerEnd \/ RunnerReport
  <2>1. Grows
    BY <1>1, <1>9, Reporter, LogGrows, MessageKinds DEF RunnerBegin, RunnerEnd, RunnerReport
  <2>2. UNCHANGED busy \/ (busy.step \in {"FREE", "EVENT", "DISPATCH"} /\ busy' \in {Free, Reporting})
    BY <1>9 DEF RunnerBegin, RunnerEnd, RunnerReport, Free, Reporting
  <2> QED BY <1>0, <1>1, <1>9, <2>1, <2>2, StreamKept
       DEF RunnerBegin, RunnerEnd, RunnerReport, hubVars, streamVars, historyVars
<1>10. CASE RunnerWork
  BY <1>0, <1>1, <1>10, StreamKept, LogGrows DEF RunnerWork, hubVars, streamVars, spoolVars
<1>11. CASE HandleRecord
  BY <1>0, <1>1, <1>11, StreamTaken, LogGrows DEF HandleRecord, Free
<1>12. CASE HandleGrant \/ HandleRevoke
  BY <1>0, <1>1, <1>12, StreamIncoming, LogGrows DEF HandleGrant, HandleRevoke, historyVars
<1>13. CASE HandleFrame
  <2>1. cloud[Head(down)].id \in Sessions
    BY <1>1, <1>13, IncomingFacts, MessageNames DEF HandleFrame
  <2>2. Grows
    BY <1>1, <1>13, <2>1, LogGrows, MessageKinds DEF HandleFrame
  <2> QED BY <1>0, <1>1, <1>13, <2>2, StreamIncoming DEF HandleFrame
<1>14. CASE GatewayStop \/ RefuseGrant
  BY <1>1, <1>14, StreamBroken DEF GatewayStop, RefuseGrant, Stop, historyVars
<1>15. CASE GatewayStart
  <2>1. busy.step \in {"FREE", "EVENT"} /\ link = "DOWN"
    BY <1>1, <1>15 DEF GatewayStart, StreamInv, InHand
  <2>2. UNCHANGED <<hubVars, streamVars, lastCloud, log, acked, busy, taken>> /\ gateway' = "UP"
    BY <1>15 DEF GatewayStart, historyVars
  <2>3. CloudPrefix' /\ EdgePrefix'
    BY <1>1, <2>2 DEF StreamInv, CloudPrefix, EdgePrefix, hubVars, streamVars
  <2>4. InHand' /\ Stream'
    BY <2>1, <2>2 DEF InHand, Stream, Free, Reporting, streamVars
  <2> QED BY <2>3, <2>4 DEF StreamInv
<1> QED BY <1>2, <1>3, <1>4, <1>5, <1>6, <1>7, <1>8, <1>9, <1>10, <1>11, <1>12, <1>13, <1>14, <1>15 DEF Gateway

-----------------------------------------------------------------------------
(* Commands                                                                *)

LEMMA WorkStep ==
  ASSUME LinkInv, Next
  PROVE  WorkInv'
<1>1. LinkType /\ EdgeType /\ WorkInv /\ StreamInv
  BY DEF LinkInv, LinkType
<1>2. CASE UNCHANGED <<command, fence, started, busy, runner>>
  BY <1>1, <1>2 DEF WorkInv
<1>3. CASE StartReceive
  <2> DEFINE c == cloud[Head(down)].id
  <2>1. c \in Commands /\ Fence[c] \in Nat /\ fence \in Nat
    BY <1>1, <1>3, IncomingFacts, MessageNames, GatewayAssumption DEF StartReceive, EdgeType
  <2>2. busy' = [step |-> "ACK", n |-> Head(down), id |-> c, state |-> busy'.state] /\ UNCHANGED started
    BY <1>3 DEF StartReceive, historyVars
  <2> HIDE DEF c
  <2>3. CASE /\ busy'.state = "REJECTED" \/ (command[c] # "NONE" /\ busy'.state = command[c])
             /\ UNCHANGED <<command, fence, runner>>
    BY <1>1, <2>1, <2>2, <2>3 DEF WorkInv, Reporting
  <2>4. CASE AcceptCommand(c) /\ UNCHANGED started
             /\ runner' = (IF Running /\ Fence[runner.id] < Fence[c] THEN Cancel(runner) ELSE runner)
    <3>1. /\ command[c] = "NONE" /\ command'[c] = "RECEIVED" /\ fence' = Fence[c] /\ fence <= fence'
          /\ \A d \in Commands \ {c} : command'[d] = command[d]
      BY <1>1, <2>1, <2>4 DEF AcceptCommand, StaleFence, EdgeType
    <3>2. /\ runner'.step = runner.step
          /\ runner.step # "NONE" => runner'.id = runner.id /\ runner.id \in Commands
      BY <1>1, <2>4 DEF EdgeType, Runners, NoRunner, Cancel, Running
    <3>3. runner.step # "NONE" => runner.id # c
      BY <1>1, <3>1, <3>2 DEF WorkInv, EdgeType, Runners, NoRunner
    <3>4. ASSUME NEW d \in Commands, started[d] > 0 PROVE command'[d] \notin {"NONE", "RECEIVED"} /\ Fence[d] <= fence'
      BY <1>1, <2>1, <3>1, <3>4, GatewayAssumption DEF WorkInv
    <3> QED BY <1>1, <2>2, <2>4, <3>1, <3>2, <3>3, <3>4 DEF WorkInv, Reporting, EdgeType, Runners, NoRunner
  <2> QED BY <1>3, <2>2, <2>3, <2>4 DEF StartReceive, c, historyVars
<1>4. CASE StartAck
  BY <1>1, <1>4 DEF StartAck, WorkInv, Dispatchable, Free, Reporting, EdgeType, StartWork, OtherWork
<1>5. CASE StartDispatch
  BY <1>1, <1>5 DEF StartDispatch, WorkInv, Free, EdgeType, Running, NoRunner, Runners, historyVars
<1>6. CASE HandleCancel
  <2>1. /\ runner'.step = runner.step
        /\ runner.step # "NONE" => runner'.id = runner.id
    BY <1>1, <1>6 DEF HandleCancel, EdgeType, Runners, NoRunner, Cancel, Running
  <2> QED BY <1>1, <1>6, <2>1 DEF HandleCancel, WorkInv
<1>7. CASE RunnerBegin
  <2>0. runner \in Runners /\ runner.id \in Commands
    BY <1>1, <1>7 DEF RunnerBegin, EdgeType, NoRunner, Runners
  <2>2. busy = Free /\ busy' \in {Free, Reporting} /\ UNCHANGED <<started, fence>>
    BY <1>7 DEF RunnerBegin, historyVars
  <2>3. command[runner.id] = "RECEIVED" /\ started[runner.id] = 0
    BY <1>1, <1>7, <2>0 DEF RunnerBegin, WorkInv, EdgeType
  <2>4. runner' \in Runners /\ runner'.id = runner.id /\ runner'.step \in {"RUN", "FAIL"}
    BY <1>7, <2>0 DEF RunnerBegin, Runners
  <2>5. CASE Current(runner.id)
    <3>1. runner'.step = "RUN" /\ command' = [command EXCEPT ![runner.id] = "STARTED"]
      BY <1>7, <2>0, <2>5 DEF RunnerBegin, SetCommandState, Runners
    <3> QED BY <1>1, <2>0, <2>2, <2>3, <2>4, <3>1 DEF WorkInv, EdgeType, Free, Reporting
  <2>6. CASE ~Current(runner.id)
    <3>1. runner'.step = "FAIL" /\ command' = command
      BY <1>7, <2>0, <2>6 DEF RunnerBegin, Runners
    <3> QED BY <1>1, <2>0, <2>2, <2>3, <2>4, <3>1 DEF WorkInv, EdgeType, Free, Reporting
  <2> QED BY <2>5, <2>6
<1>8. CASE RunnerWork
  <2>1. runner \in Runners /\ runner.id \in Commands /\ started[runner.id] = 0 /\ command[runner.id] = "STARTED"
    BY <1>1, <1>8 DEF RunnerWork, EdgeType, NoRunner, Runners, WorkInv
  <2>2. started'[runner.id] = 1 /\ \A d \in Commands \ {runner.id} : started'[d] = started[d]
    BY <1>1, <1>8, <2>1 DEF RunnerWork, EdgeType
  <2>3. runner'.id = runner.id /\ runner'.step = "WORKED" /\ Fence[runner.id] = fence /\ fence \in Nat
    BY <1>1, <1>8, <2>1 DEF RunnerWork, Runners, Current, EdgeType
  <2>4. UNCHANGED <<command, fence, busy>> /\ busy = Free
    BY <1>8 DEF RunnerWork, spoolVars
  <2> QED BY <1>1, <2>1, <2>2, <2>3, <2>4 DEF WorkInv, Free
<1>9. CASE RunnerEnd
  <2>1. runner \in Runners /\ runner.id \in Commands
    BY <1>1, <1>9 DEF RunnerEnd, Running, EdgeType, NoRunner, Runners
  <2>2. PICK r \in {"SUCCEEDED", "FAILED", "CANCELED"} : command' = [command EXCEPT ![runner.id] = r]
    BY <1>9 DEF RunnerEnd, Results, SetCommandState
  <2>3. runner'.step = "ENDED" /\ runner'.id = runner.id /\ busy' = Reporting /\ UNCHANGED <<started, fence>>
    BY <1>9, <2>1 DEF RunnerEnd, historyVars, Runners
  <2> QED BY <1>1, <2>1, <2>2, <2>3 DEF WorkInv, EdgeType, Reporting
<1>10. CASE HandleRecord
  BY <1>1, <1>10 DEF HandleRecord, WorkInv, Free, Reporting
<1>11. CASE HandleGrant \/ HandleRevoke \/ HandleFrame
  BY <1>1, <1>11 DEF HandleGrant, HandleRevoke, HandleFrame, WorkInv, historyVars, Reporting
<1>15. CASE RunnerReport
  <2>1. runner' \in {runner, NoRunner} /\ busy' = Free /\ UNCHANGED <<command, fence, started>>
    BY <1>15 DEF RunnerReport, historyVars
  <2> QED BY <1>1, <2>1 DEF WorkInv, Free, Reporting, NoRunner
<1>12. CASE GatewayStop \/ RefuseGrant
  BY <1>1, <1>12 DEF GatewayStop, RefuseGrant, Stop, WorkInv, Free, Reporting, NoRunner, spoolVars, historyVars
<1>13. CASE UNCHANGED edgeVars
  BY <1>2, <1>13 DEF edgeVars, spoolVars, processVars, historyVars
<1>14. CASE EdgeConnect \/ EdgeSend \/ HandleHello \/ GatewayStart
  BY <1>2, <1>14 DEF EdgeConnect, EdgeSend, HandleHello, GatewayStart, spoolVars, processVars, historyVars
<1> QED BY <1>3, <1>4, <1>5, <1>6, <1>7, <1>8, <1>9, <1>10, <1>11, <1>12, <1>13, <1>14, <1>15 DEF Next, Gateway

-----------------------------------------------------------------------------
(* Debug sessions                                                          *)

\* Nothing is recorded, and no row leaves REVOKED or goes back to NONE.
LEMMA GrantsKept ==
  ASSUME LinkType, GrantInv, UNCHANGED taken,
         \A s \in Sessions :
            /\ grants[s] # "NONE" => grants'[s] # "NONE"
            /\ grants[s] = "REVOKED" => grants'[s] = "REVOKED"
            /\ grants'[s] = "REVOKED" => active'[s] # "ACTIVE",
         \/ busy'.step # "RECORD"
         \/ /\ busy'.step = "RECORD"
            /\ \A s \in Sessions :
                  /\ Is(cloud'[busy'.n], "GRANT", s) => grants'[s] # "NONE"
                  /\ Is(cloud'[busy'.n], "REVOKE", s) => grants'[s] # "ACTIVE"
  PROVE  GrantInv'
<1> SUFFICES ASSUME NEW s \in Sessions
             PROVE  /\ (\E i \in 1 .. Len(taken) : Is(taken[i], "GRANT", s)) => grants'[s] # "NONE"
                    /\ RevokedHere(s)' => grants'[s] = "REVOKED"
  BY DEF GrantInv
<1>1. /\ (\E i \in 1 .. Len(taken) : Is(taken[i], "GRANT", s)) => grants[s] # "NONE"
      /\ RevokedHere(s) => grants[s] = "REVOKED"
  BY DEF GrantInv
<1>2. RevokedHere(s)' => RevokedHere(s)
  BY DEF RevokedHere
<1> QED BY <1>1, <1>2

\* A message is recorded that was taken in hand, or concerns no session.
LEMMA GrantsRecord ==
  ASSUME LinkType, GrantInv, CloudPrefix, NEW n \in 1 .. Len(cloud), Record(n), UNCHANGED <<cloud, grants, active>>,
         (busy.step = "RECORD" /\ n = busy.n) \/ cloud[n].kind \in {"START", "CANCEL"},
         busy'.step # "RECORD"
  PROVE  GrantInv'
<1>1. /\ Len(taken') = n /\ n = lastCloud + 1 /\ taken'[n] = cloud[n] /\ Len(taken) = lastCloud /\ lastCloud \in Nat
      /\ \A i \in 1 .. lastCloud : taken'[i] = taken[i]
  BY RecordFacts DEF CloudPrefix, LinkType, EdgeType
<1> SUFFICES ASSUME NEW s \in Sessions
             PROVE  /\ (\E i \in 1 .. Len(taken') : Is(taken'[i], "GRANT", s)) => grants[s] # "NONE"
                    /\ RevokedHere(s)' => grants[s] = "REVOKED"
  BY DEF GrantInv
<1>2. /\ Is(cloud[n], "GRANT", s) => grants[s] # "NONE"
      /\ Is(cloud[n], "REVOKE", s) => grants[s] # "ACTIVE"
  BY DEF GrantInv, Is
<1>3. (\E i \in 1 .. Len(taken') : Is(taken'[i], "GRANT", s)) => grants[s] # "NONE"
  BY <1>1, <1>2 DEF GrantInv
<1>4. ASSUME RevokedHere(s)' PROVE grants[s] = "REVOKED"
  <2>1. PICK i \in 1 .. n, j \in 1 .. n : i < j /\ Is(taken'[i], "GRANT", s) /\ Is(taken'[j], "REVOKE", s)
    BY <1>1, <1>4 DEF RevokedHere, Is
  <2>2. i \in 1 .. lastCloud /\ Is(taken[i], "GRANT", s) /\ grants[s] # "NONE"
    BY <1>1, <2>1 DEF GrantInv
  <2>3. CASE j = n
    BY <1>1, <1>2, <2>1, <2>2, <2>3 DEF LinkType, EdgeType, GrantStates
  <2>4. CASE j < n
    <3>1. j \in 1 .. lastCloud /\ Is(taken[j], "REVOKE", s)
      BY <1>1, <2>1, <2>4
    <3>2. RevokedHere(s)
      BY <1>1, <2>1, <2>2, <3>1 DEF RevokedHere, Is
    <3> QED BY <3>2 DEF GrantInv
  <2> QED BY <1>1, <2>3, <2>4
<1> QED BY <1>3, <1>4

LEMMA GrantStep ==
  ASSUME LinkInv, Next
  PROVE  GrantInv'
<1>1. LinkType /\ HubType /\ EdgeType /\ StreamInv /\ CloudPrefix /\ GrantInv
  BY DEF LinkInv, LinkType, StreamInv
<1>2. CASE UNCHANGED <<taken, grants, active, cloud, busy>>
  BY <1>2, <1>1, GrantsKept DEF GrantInv
<1>3. CASE Hub /\ UNCHANGED edgeVars
  <2>1. ASSUME busy.step = "RECORD" PROVE cloud'[busy.n] = cloud[busy.n]
    <3>1. busy.n \in 1 .. Len(cloud)
      BY <1>1, <2>1 DEF StreamInv, InHand, EdgeType, HubType
    <3>2. UNCHANGED cloud \/ \E m \in CloudMessages : Queue(m)
      BY <1>3, MessageKinds DEF Hub, QueueCommand, GrantCreate, GrantQueue, RevokeEvent, BrowserConnect, BrowserFrame, Elapse,
            Disconnect, HubCrash, HubOpen, HubSend, HubReceiveLate, hubVars
    <3> QED BY <1>1, <3>1, <3>2, QueueType
  <2> QED BY <1>1, <1>3, <2>1, GrantsKept DEF GrantInv, edgeVars, spoolVars, processVars, historyVars
<1>4. CASE StartReceive
  BY <1>1, <1>4, GrantsKept DEF StartReceive, GrantInv, historyVars
<1>5. CASE StartAck
  <2>1. busy.n \in 1 .. Len(cloud) /\ cloud[busy.n].kind = "START" /\ busy'.step # "RECORD"
    BY <1>1, <1>5 DEF StartAck, StreamInv, InHand, EdgeType, HubType, Free, StartWork, OtherWork
  <2> QED BY <1>1, <1>5, <2>1, GrantsRecord DEF StartAck, hubVars
<1>6. CASE StartDispatch
  BY <1>1, <1>6, GrantsKept DEF StartDispatch, GrantInv, Free, historyVars
<1>7. CASE HandleCancel
  <2>1. Head(down) \in 1 .. Len(cloud) /\ cloud[Head(down)].kind = "CANCEL" /\ busy = Free
    BY <1>1, <1>7, IncomingFacts DEF HandleCancel
  <2> QED BY <1>1, <1>7, <2>1, GrantsRecord DEF HandleCancel, hubVars, Free
<1>8. CASE RunnerWork \/ EdgeConnect \/ EdgeSend \/ HandleHello
  BY <1>2, <1>8 DEF RunnerWork, EdgeConnect, EdgeSend, HubReceive, HandleHello, spoolVars, processVars, historyVars, hubVars
<1>9. CASE HandleRecord
  <2>1. busy.n \in 1 .. Len(cloud)
    BY <1>1, <1>9 DEF HandleRecord, StreamInv, InHand, EdgeType, HubType
  <2> QED BY <1>1, <1>9, <2>1, GrantsRecord DEF HandleRecord, hubVars, Free
<1>10. CASE HandleGrant
  <2> DEFINE s == cloud[Head(down)].id
  <2>1. s \in Sessions /\ cloud[Head(down)].kind = "GRANT" /\ Head(down) \in Nat
    BY <1>1, <1>10, IncomingFacts, MessageNames DEF HandleGrant
  <2>2. /\ grants[s] # "REVOKED" /\ grants'[s] = "ACTIVE" /\ active'[s] = "ACTIVE"
        /\ \A t \in Sessions \ {s} : grants'[t] = grants[t] /\ active'[t] = active[t]
    BY <1>1, <1>10, <2>1 DEF HandleGrant, Refusable, EdgeType
  <2>3. busy' = [step |-> "RECORD", n |-> Head(down)] /\ UNCHANGED <<cloud, taken>>
    BY <1>10 DEF HandleGrant, hubVars, historyVars
  <2> HIDE DEF s
  <2>4. \A t \in Sessions : /\ Is(cloud'[busy'.n], "GRANT", t) => grants'[t] # "NONE"
                            /\ Is(cloud'[busy'.n], "REVOKE", t) => grants'[t] # "ACTIVE"
    BY <2>1, <2>2, <2>3 DEF Is, s
  <2> QED BY <1>1, <2>2, <2>3, <2>4, GrantsKept DEF GrantInv
<1>11. CASE HandleRevoke
  <2> DEFINE s == cloud[Head(down)].id
  <2>1. s \in Sessions /\ cloud[Head(down)].kind = "REVOKE" /\ Head(down) \in Nat
    BY <1>1, <1>11, IncomingFacts, MessageNames DEF HandleRevoke
  <2>2. /\ grants'[s] = (IF grants[s] = "NONE" THEN "NONE" ELSE "REVOKED") /\ active'[s] # "ACTIVE"
        /\ \A t \in Sessions \ {s} : grants'[t] = grants[t] /\ active'[t] = active[t]
    BY <1>1, <1>11, <2>1 DEF HandleRevoke, Revoked, EdgeType
  <2>3. busy' = [step |-> "RECORD", n |-> Head(down)] /\ UNCHANGED <<cloud, taken>>
    BY <1>11 DEF HandleRevoke, hubVars, historyVars
  <2> HIDE DEF s
  <2>4. \A t \in Sessions : /\ Is(cloud'[busy'.n], "GRANT", t) => grants'[t] # "NONE"
                            /\ Is(cloud'[busy'.n], "REVOKE", t) => grants'[t] # "ACTIVE"
    BY <2>1, <2>2, <2>3 DEF Is, s
  <2> QED BY <1>1, <2>2, <2>3, <2>4, GrantsKept DEF GrantInv
<1>12. CASE HandleFrame
  <2> DEFINE s == cloud[Head(down)].id
  <2>1. s \in Sessions /\ cloud[Head(down)].kind = "FRAME" /\ Head(down) \in Nat
    BY <1>1, <1>12, IncomingFacts, MessageNames DEF HandleFrame
  <2>2. UNCHANGED <<grants, cloud, taken>> /\ \A t \in Sessions : active'[t] = "ACTIVE" => active[t] = "ACTIVE"
    BY <1>1, <1>12 DEF HandleFrame, EdgeType, hubVars
  <2>3. busy' = [step |-> "RECORD", n |-> Head(down)]
    BY <1>12 DEF HandleFrame
  <2>4. \A t \in Sessions : ~Is(cloud'[busy'.n], "GRANT", t) /\ ~Is(cloud'[busy'.n], "REVOKE", t)
    BY <2>1, <2>2, <2>3 DEF Is
  <2>5. \A t \in Sessions : grants[t] = "REVOKED" => active[t] # "ACTIVE"
    BY <1>1 DEF GrantInv
  <2> QED BY <1>1, <2>2, <2>3, <2>4, <2>5, GrantsKept
<1>13. CASE GatewayStop \/ RefuseGrant
  BY <1>1, <1>13, GrantsKept DEF GatewayStop, RefuseGrant, Stop, GrantInv, Free, spoolVars, historyVars
<1>14. CASE GatewayStart
  <2>1. busy.step \in {"FREE", "EVENT"}
    BY <1>1, <1>14 DEF GatewayStart, StreamInv, InHand
  <2>2. busy'.step # "RECORD" /\ UNCHANGED taken
    BY <1>14, <2>1 DEF GatewayStart, historyVars, Free, Reporting
  <2> QED BY <1>1, <1>14, <2>2, GrantsKept DEF GatewayStart, Restorable, EdgeType, GrantStates
<1>15. CASE RunnerBegin \/ RunnerEnd \/ RunnerReport
  <2>1. busy'.step # "RECORD" /\ UNCHANGED <<taken, grants, active>>
    BY <1>15 DEF RunnerBegin, RunnerEnd, RunnerReport, Free, Reporting, historyVars
  <2> QED BY <1>1, <2>1, GrantsKept DEF GrantInv
<1> QED BY <1>3, <1>4, <1>5, <1>6, <1>7, <1>8, <1>9, <1>10, <1>11, <1>12, <1>13, <1>14, <1>15 DEF Next, Gateway

-----------------------------------------------------------------------------
(* The results                                                             *)

LEMMA LinkStutter ==
  ASSUME LinkInv, UNCHANGED vars
  PROVE  LinkInv'
<1> USE DEF vars, hubVars, debugVars, streamVars, edgeVars, spoolVars, processVars, historyVars
<1>1. LinkType'
  BY DEF LinkInv, LinkType, HubType, EdgeType
<1>2. StreamInv'
  BY DEF LinkInv, StreamInv, CloudPrefix, EdgePrefix, InHand, Stream, StreamContiguous, Base, Hellos
<1>3. WorkInv'
  BY DEF LinkInv, WorkInv
<1>4. GrantInv'
  BY GrantsKept DEF LinkInv, GrantInv
<1> QED BY <1>1, <1>2, <1>3, <1>4 DEF LinkInv

\* The link keeps its invariant, whatever the hub, the stream and the
\* gateway do and wherever they stop.
THEOREM LinkInvariant == Spec => []LinkInv
<1>1. ASSUME LinkInv, Next PROVE LinkInv'
  <2>1. LinkType' /\ StreamInv'
    BY <1>1, HubTypeStep, GatewayTypeStep, HubStreamStep, GatewayStreamStep DEF Next
  <2> QED BY <1>1, <2>1, WorkStep, GrantStep DEF LinkInv
<1> QED BY <1>1, LinkStarts, LinkStutter, PTL DEF Spec

\* Nothing queued or emitted is lost, repeated or reordered, the stream never
\* meets the gap that stops the gateway, and no command is worked on twice:
\* for every number of messages, broken streams, crashes and restarts.
THEOREM LinkSoundCorrect == Spec => []LinkSound
<1>1. ASSUME LinkInv PROVE LinkSound
  <2>1. LinkType /\ CloudPrefix /\ EdgePrefix /\ Stream /\ WorkInv
    BY <1>1 DEF LinkInv, StreamInv
  <2>2. taken = SubSeq(cloud, 1, lastCloud)
    BY <2>1, PrefixIsSubSeq DEF LinkType, HubType, EdgeType, CloudPrefix
  <2>3. edgeLog = SubSeq(log, 1, Len(edgeLog))
    BY <2>1, PrefixIsSubSeq DEF LinkType, HubType, EdgeType, EdgePrefix
  <2>4. NothingLost
    BY <2>1, <2>2, <2>3 DEF NothingLost, CloudPrefix, EdgePrefix
  <2>5. StreamContiguous
    BY <2>1 DEF Stream, StreamContiguous
  <2>6. WorkedAtMostOnce
    BY <2>1, Zenon DEF WorkedAtMostOnce, WorkInv
  <2> QED BY <2>4, <2>5, <2>6 DEF LinkSound
<1> QED BY <1>1, LinkInvariant, PTL

\* A command of an older lease never touches a device that a newer one
\* worked on, wherever the runners were when the newer one came.
THEOREM NewerLeaseWinsCorrect == Spec => NewerLeaseWins
<1>1. ASSUME LinkInv, [Next]_vars, NEW c \in Commands, NEW d \in Commands,
             started'[c] > started[c], Fence[d] > Fence[c]
      PROVE  started[d] = 0
  <2>1. EdgeType /\ WorkInv /\ started[c] \in Nat /\ started[d] \in Nat /\ Fence[c] \in Nat /\ Fence[d] \in Nat /\ fence \in Nat
    BY <1>1, GatewayAssumption DEF LinkInv, LinkType, EdgeType
  <2>2. ~UNCHANGED started
    BY <1>1, <2>1
  <2>3. RunnerWork
    BY <1>1, <2>2 DEF Next, Gateway, EdgeConnect, EdgeSend, HandleHello, StartReceive, StartAck, StartDispatch, HandleCancel,
         HandleGrant, RefuseGrant, HandleRevoke, HandleFrame, HandleRecord, RunnerBegin, RunnerEnd, RunnerReport, GatewayStop, GatewayStart,
         edgeVars, historyVars, vars
  <2>4. runner \in Runners /\ runner.id \in Commands
    BY <2>1, <2>3 DEF RunnerWork, EdgeType, NoRunner, Runners
  <2>5. c = runner.id /\ fence = Fence[c]
    BY <1>1, <2>1, <2>3, <2>4 DEF RunnerWork, Current, EdgeType
  <2>6. started[d] > 0 => Fence[d] <= fence
    BY <2>1 DEF WorkInv
  <2> QED BY <1>1, <2>1, <2>5, <2>6
<1>2. ASSUME LinkInv, [Next]_vars
      PROVE  \A c, d \in Commands : started'[c] > started[c] /\ Fence[d] > Fence[c] => started[d] = 0
  BY <1>1, <1>2
<1> QED BY <1>2, LinkInvariant, PTL DEF Spec, NewerLeaseWins

\* What a step adds to the Edge's log.
LEMMA LogStep ==
  ASSUME LinkInv, [Next]_vars
  PROVE  \/ UNCHANGED log
         \/ /\ UNCHANGED edgeLog
            /\ \/ \E c \in Commands, k \in {"ACK", "EVENT"} : Emit(k, c)
               \/ /\ HandleFrame
                  /\ Emit(IF active[cloud[Head(down)].id] = "ACTIVE" /\ cloud[Head(down)].id \notin elapsed
                            THEN "DONE" ELSE "FAILED", cloud[Head(down)].id)
                  /\ cloud[Head(down)].id \in Sessions
<1>1. LinkType /\ HubType /\ EdgeType /\ StreamInv
  BY DEF LinkInv, LinkType
<1>2. CASE UNCHANGED vars \/ (Hub /\ UNCHANGED edgeVars)
  BY <1>2 DEF vars, edgeVars, spoolVars
<1>3. CASE StartAck \/ StartDispatch
  <2>1. busy.id \in Commands
    BY <1>1, <1>3 DEF StartAck, StartDispatch, EdgeType, Free, Reporting, StartWork, OtherWork
  <2> QED BY <1>3, <2>1 DEF StartAck, StartDispatch, hubVars
<1>4. CASE HandleCancel
  <2>1. cloud[Head(down)].id \in Commands
    BY <1>1, <1>4, IncomingFacts, MessageNames DEF HandleCancel
  <2> QED BY <1>4, <2>1 DEF HandleCancel, hubVars
<1>5. CASE RunnerReport
  BY <1>5, Reporter DEF RunnerReport, hubVars
<1>6. CASE HandleFrame
  <2>1. cloud[Head(down)].id \in Sessions
    BY <1>1, <1>6, IncomingFacts, MessageNames DEF HandleFrame
  <2> QED BY <1>6, <2>1 DEF HandleFrame, hubVars
<1>7. CASE EdgeConnect \/ EdgeSend \/ HandleHello \/ StartReceive \/ HandleGrant \/ RefuseGrant \/ HandleRevoke
           \/ HandleRecord \/ RunnerBegin \/ RunnerWork \/ RunnerEnd \/ GatewayStop \/ GatewayStart
  BY <1>7 DEF EdgeConnect, EdgeSend, HandleHello, StartReceive, HandleGrant, RefuseGrant, HandleRevoke, HandleRecord,
       RunnerBegin, RunnerWork, RunnerEnd, GatewayStop, GatewayStart, spoolVars
<1> QED BY <1>2, <1>3, <1>4, <1>5, <1>6, <1>7 DEF Next, Gateway

\* A session whose revocation was recorded behind its grant serves no frame,
\* in this run of the gateway or in a later one.
THEOREM RevocationHoldsCorrect == Spec => RevocationHolds
<1>1. ASSUME LinkInv, [Next]_vars, NEW s \in Sessions, RevokedHere(s), Len(log') > Len(log)
      PROVE  log'[Len(log')] # [kind |-> "DONE", id |-> s]
  <2>1. LinkType /\ Len(log) \in Nat /\ active[s] # "ACTIVE"
    BY <1>1 DEF LinkInv, LinkType, EdgeType, GrantInv
  <2>2. log' # log
    BY <1>1, <2>1
  <2>3. ASSUME NEW c \in Commands, NEW k \in {"ACK", "EVENT"}, Emit(k, c)
        PROVE  log'[Len(log')] # [kind |-> "DONE", id |-> s]
    <3>1. log'[Len(log')] = [kind |-> k, id |-> c]
      BY <2>1, <2>3, MessageKinds, EmitType
    <3> QED BY <3>1
  <2>4. ASSUME NEW t \in Sessions, Emit(IF active[t] = "ACTIVE" /\ t \notin elapsed THEN "DONE" ELSE "FAILED", t)
        PROVE  log'[Len(log')] # [kind |-> "DONE", id |-> s]
    <3>1. CASE active[t] = "ACTIVE" /\ t \notin elapsed
      <4>1. log'[Len(log')] = [kind |-> "DONE", id |-> t]
        BY <2>1, <2>4, <3>1, MessageKinds, EmitType
      <4> QED BY <2>1, <3>1, <4>1
    <3>2. CASE ~(active[t] = "ACTIVE" /\ t \notin elapsed)
      <4>1. log'[Len(log')] = [kind |-> "FAILED", id |-> t]
        BY <2>1, <2>4, <3>2, MessageKinds, EmitType
      <4> QED BY <4>1
    <3> QED BY <3>1, <3>2
  <2> QED BY <1>1, <2>2, <2>3, <2>4, LogStep
<1>2. ASSUME LinkInv, [Next]_vars
      PROVE  \A s \in Sessions : RevokedHere(s) /\ Len(log') > Len(log)
                => log'[Len(log')] # [kind |-> "DONE", id |-> s]
  BY <1>1, <1>2
<1> QED BY <1>2, LinkInvariant, PTL DEF Spec, RevocationHolds

\* What a step that emits nothing adds to the hub's log.
LEMMA RecordedStep ==
  ASSUME LinkInv, [Next]_vars, UNCHANGED log
  PROVE  \/ UNCHANGED edgeLog
         \/ \E n \in Len(edgeLog) + 1 .. Len(log) : edgeLog' = edgeLog \o SubSeq(log, Len(edgeLog) + 1, n)
<1>1. LinkType /\ HubType /\ EdgeType /\ StreamInv /\ EdgePrefix /\ Len(edgeLog) \in Nat /\ Len(log) \in Nat
  BY DEF LinkInv, LinkType, StreamInv, HubType, EdgeType
<1>2. ASSUME NEW from \in Nat \ {0}, ~Gap(from), NEW n \in Nat, n <= Len(log), RecordEdge(log, from, n)
      PROVE  \/ UNCHANGED edgeLog
             \/ \E k \in Len(edgeLog) + 1 .. Len(log) : edgeLog' = edgeLog \o SubSeq(log, Len(edgeLog) + 1, k)
  <2>1. n <= Len(edgeLog) => edgeLog' = edgeLog
    BY <1>1, <1>2, RecordEdgeFacts
  <2>2. edgeLog' = edgeLog \o SubSeq(log, Len(edgeLog) + 1, n)
    BY <1>1, <1>2, RecordEdgeFacts
  <2>3. n <= Len(edgeLog) \/ n \in Len(edgeLog) + 1 .. Len(log)
    BY <1>1, <1>2
  <2> QED BY <2>1, <2>2, <2>3
<1>3. CASE EdgeSend
  <2>1. Unsent.from \in Nat \ {0}
    BY <1>1, FlightType
  <2>2. IF Gap(Unsent.from) THEN UNCHANGED edgeLog ELSE RecordEdge(log, Unsent.from, Len(log))
    BY <1>3 DEF EdgeSend, HubReceive
  <2> QED BY <1>1, <1>2, <2>1, <2>2
<1>4. CASE HubReceiveLate(log)
  <2>1. late.from \in Nat \ {0} /\ late.to \in Nat /\ late.to <= Len(log)
    BY <1>1 DEF HubType, Ranges, EdgePrefix
  <2>2. PICK n \in late.from - 1 .. late.to : IF Gap(late.from) THEN UNCHANGED edgeLog ELSE RecordEdge(log, late.from, n)
    BY <1>4 DEF HubReceiveLate
  <2>3. n \in Nat /\ n <= Len(log)
    BY <1>1, <2>1
  <2> QED BY <1>2, <2>1, <2>2, <2>3
<1>5. CASE UNCHANGED vars \/ (Hub /\ ~HubReceiveLate(log))
  BY <1>5 DEF vars, Hub, QueueCommand, GrantCreate, GrantQueue, RevokeEvent, BrowserConnect, BrowserFrame, Elapse,
       Disconnect, HubCrash, HubOpen, HubSend, Queue, hubVars
<1>6. CASE Gateway /\ ~EdgeSend
  BY <1>6 DEF Gateway, EdgeConnect, HandleHello, StartReceive, StartAck, StartDispatch, HandleCancel, HandleGrant, RefuseGrant,
       HandleRevoke, HandleFrame, HandleRecord, RunnerBegin, RunnerWork, RunnerEnd, RunnerReport, GatewayStop, GatewayStart, hubVars
<1> QED BY <1>3, <1>4, <1>5, <1>6 DEF Next

\* The Edge's messages reach the hub as FifoDelivery promises, across every
\* repeated batch, late batch, gap and restart.
THEOREM EdgeToCloudCorrect == Spec => EdgeToCloud
<1>1. Init => EdgeFifo!Init
  BY DEF Init, HubInit, EdgeInit, EdgeFifo!Init
<1>2. ASSUME LinkInv, [Next]_vars PROVE [EdgeFifo!Next]_(EdgeFifo!vars)
  <2>1. CASE UNCHANGED log
    BY <1>2, <2>1, RecordedStep DEF EdgeFifo!Next, EdgeFifo!Take, EdgeFifo!vars
  <2>2. CASE log' # log
    <3>1. UNCHANGED edgeLog
      BY <1>2, <2>2, LogStep
    <3>2. \E m \in EdgeMessages : log' = Append(log, m)
      BY <1>2, <2>2, LogStep, MessageKinds DEF Emit
    <3> QED BY <3>1, <3>2 DEF EdgeFifo!Next, EdgeFifo!Send
  <2> QED BY <2>1, <2>2
<1> QED BY <1>1, <1>2, LinkInvariant, PTL DEF Spec, EdgeToCloud, EdgeFifo!Spec
=============================================================================
