------------------------------ MODULE EdgeLink ------------------------------
(***************************************************************************)
(* The Edge Hub and an Edge gateway joined by the gRPC stream that breaks, *)
(* with either process stopping and starting again.                        *)
(***************************************************************************)
EXTENDS EdgeGateway

\* An instance of Fence: every command runs under a lease of its own.
OwnLeases ==
    CHOOSE f \in [Commands -> 1..Cardinality(Commands)] : \A c, d \in Commands : f[c] = f[d] => c = d

vars == <<hubVars, debugVars, streamVars, edgeVars>>

Init == HubInit /\ EdgeInit

Hub ==
    \/ \E m \in CloudMessages : QueueCommand(m)
    \/ \E s \in Sessions : \/ GrantCreate(s) \/ GrantQueue(s) \/ RevokeEvent(s)
                           \/ BrowserConnect(s) \/ BrowserFrame(s) \/ Elapse(s)
    \/ Disconnect(InFlight) \/ HubCrash
    \/ HubOpen \/ HubSend \/ HubReceiveLate(log)

Gateway ==
    \/ EdgeConnect \/ EdgeSend \/ HandleHello
    \/ StartReceive \/ StartAck \/ StartDispatch \/ HandleCancel
    \/ HandleGrant \/ RefuseGrant \/ HandleRevoke \/ HandleFrame \/ HandleRecord
    \/ RunnerBegin \/ RunnerWork \/ RunnerEnd \/ RunnerReport
    \/ GatewayStop \/ GatewayStart

Next == (Hub /\ UNCHANGED edgeVars) \/ Gateway

Spec == Init /\ [][Next]_vars

(* The processes run, the supervisor restarts a stopped gateway, and a     *)
(* stream that is up delivers.  Nobody has to queue or to browse.          *)
Fairness ==
    /\ WF_vars((HubOpen \/ HubSend) /\ UNCHANGED edgeVars)
    /\ WF_vars(EdgeConnect) /\ WF_vars(EdgeSend) /\ WF_vars(GatewayStart)
    /\ WF_vars(HandleHello \/ StartReceive \/ StartAck \/ StartDispatch \/ HandleCancel
                  \/ HandleGrant \/ RefuseGrant \/ HandleRevoke \/ HandleFrame \/ HandleRecord)
    /\ WF_vars(RunnerBegin \/ RunnerWork \/ RunnerEnd \/ RunnerReport)

FairSpec == Spec /\ Fairness
-----------------------------------------------------------------------------
(* What is in the handler's hands or in flight towards the Edge continues  *)
(* the recorded sequence without repeat or gap, behind the hub's hello if  *)
(* that is still to be read: handle_cloud()'s "cloud sequence gap" never   *)
(* stops the gateway, whatever breaks.                                     *)
Base == IF busy.step \in {"ACK", "RECORD"} THEN busy.n ELSE lastCloud

Hellos == IF down # <<>> /\ Head(down) = 0 THEN 1 ELSE 0

StreamContiguous ==
    link = "UP" => \A i \in Hellos + 1 .. Len(down) : down[i] = Base + i - Hellos

(* Nobody deletes or skips what the other side has not recorded: the hub's *)
(* watermark is not ahead of the spool, the spool's acknowledgement is not *)
(* ahead of the hub, and each recorded prefix has the sender's content.    *)
NothingLost ==
    /\ mark <= lastCloud /\ taken = SubSeq(cloud, 1, lastCloud)
    /\ acked <= Len(edgeLog) /\ edgeLog = SubSeq(log, 1, Len(edgeLog))

(* Redelivery, repeated START messages and restarts of the gateway never   *)
(* make the device do a command's work twice.                              *)
WorkedAtMostOnce == \A c \in Commands : started[c] <= 1

(* The link keeps every message, in order, and no command is worked twice. *)
LinkSound == NothingLost /\ StreamContiguous /\ WorkedAtMostOnce

(* Once the device was worked on under a lease, no command of an older     *)
(* lease touches it (accept_command(), assert_current_fence(), the guard   *)
(* of LamdaSession).                                                       *)
NewerLeaseWins ==
    [][\A c, d \in Commands :
          started'[c] > started[c] /\ Fence[d] > Fence[c] => started[d] = 0]_vars

(* A session whose revocation the Edge recorded after its grant never      *)
(* serves a frame again, restarts included.                                *)
RevocationHolds ==
    [][\A s \in Sessions :
          RevokedHere(s) /\ Len(log') > Len(log)
             => log'[Len(log')] # [kind |-> "DONE", id |-> s]]_vars

(* The Edge's messages reach the hub's log once and in order.              *)
EdgeFifo == INSTANCE FifoDelivery WITH Messages <- EdgeMessages, sent <- log, taken <- edgeLog

EdgeToCloud == EdgeFifo!Spec

(* The next message is a grant that the Edge refuses for good.             *)
Poisoned ==
    /\ lastCloud < Len(cloud)
    /\ cloud[lastCloud + 1].kind = "GRANT" /\ Refusable(cloud[lastCloud + 1].id)

(* Once the connection stays up, every queued message is taken up and      *)
(* every message of the Edge recorded, unless a refused grant is next.     *)
EventuallyDrained ==
    <>[](Poisoned \/ (lastCloud = Len(cloud) /\ edgeLog = log))
=============================================================================
