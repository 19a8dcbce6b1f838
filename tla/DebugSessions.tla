--------------------------- MODULE DebugSessions ---------------------------
(***************************************************************************)
(* Debug sessions of one device (debug_service.py) and the device lease    *)
(* they compete for with workflows (acquire_lease()), with operators who   *)
(* switch maintenance and with live control (fleet_live.establish(), which *)
(* replaces any lease that is not live control's own).  Every request      *)
(* locks the rows it decides on, so each is one step; a request that       *)
(* raises rolls back, its expiry included.                                 *)
(***************************************************************************)
EXTENDS ApiRequests, Sequences

CONSTANTS Sessions,      \* debug sessions
          DebugTtl,      \* lifetime of a lease, ticks
          MaxClock       \* bound: the clock

ASSUME DebugAssumption == DebugTtl \in Nat \ {0} /\ MaxClock \in Nat

VARIABLES debug,         \* debug[s]: row of debug_session
          lease,         \* the row of device_lease
          fencings,      \* fencing_counter of the device
          maintenance,   \* its maintenance flag
          evidence,      \* evidence[s]: fencing in force when evidence was stored
          toldEdge,      \* toldEdge[s]: grant and end events emitted
          now

debugVars == <<debug, lease, fencings, maintenance, evidence, toldEdge, now>>

NoSession == [status |-> "NONE", fencing |-> 0, expires |-> 0]
NoLease == [owner |-> "NONE", fencing |-> 0, expires |-> 0, canceled |-> FALSE]

DebugInit ==
    /\ debug = [s \in Sessions |-> NoSession] /\ lease = NoLease
    /\ fencings = 0 /\ maintenance = FALSE
    /\ evidence = [s \in Sessions |-> {}]
    /\ toldEdge = [s \in Sessions |-> <<>>]
    /\ now = 0

LeaseLive == lease # NoLease /\ ~lease.canceled /\ lease.expires > now
Ended(s) == debug[s].status \in {"REVOKED", "EXPIRED"}
Due(s) == debug[s].status \in {"PENDING_EXCHANGE", "ACTIVE"} /\ debug[s].expires <= now

(* A lease of its own for the owner: the row is replaced, the counter goes *)
(* up.                                                                     *)
TakeLease(owner) ==
    /\ fencings' = fencings + 1
    /\ lease' = [owner |-> owner, fencing |-> fencings + 1, expires |-> now + DebugTtl,
                 canceled |-> FALSE]

(* create(): a device in maintenance without a live lease.                 *)
CreateSession(w, s) ==
    /\ AtOnce(w)
    /\ debug[s] = NoSession /\ maintenance /\ ~LeaseLive
    /\ TakeLease(s)
    /\ debug' = [debug EXCEPT ![s] = [status |-> "PENDING_EXCHANGE", fencing |-> fencings + 1,
                                      expires |-> now + DebugTtl]]
    /\ UNCHANGED <<maintenance, evidence, toldEdge, now>>

(* _require_active_lease()                                                 *)
(* Mutant: any live lease of the device will do.                           *)
HoldsAnyLease(s) == LeaseLive
HoldsLease(s) == LeaseLive /\ lease.owner = s /\ lease.fencing = debug[s].fencing

(* exchange(): the launch code is good for one relay token.                *)
(* Mutant: the code may be used again while the session is active.         *)
ExchangeableTwice(s) == debug[s].status \in {"PENDING_EXCHANGE", "ACTIVE"} /\ ~Due(s)
Exchangeable(s) == debug[s].status = "PENDING_EXCHANGE" /\ ~Due(s)

ExchangeCode(w, s) ==
    /\ AtOnce(w)
    /\ Exchangeable(s) /\ HoldsLease(s)
    /\ debug' = [debug EXCEPT ![s].status = "ACTIVE"]
    /\ toldEdge' = [toldEdge EXCEPT ![s] = Append(@, "GRANT")]
    /\ UNCHANGED <<lease, fencings, maintenance, evidence, now>>

(* _authorize_relay()                                                      *)
Authorized(s) == debug[s].status = "ACTIVE" /\ ~Due(s) /\ HoldsLease(s)

(* heartbeat() and add_evidence(): what an authorised relay may store.     *)
StoreEvidence(w, s) ==
    /\ AtOnce(w)
    /\ Authorized(s)
    /\ evidence' = [evidence EXCEPT ![s] = @ \cup {lease.fencing}]
    /\ UNCHANGED <<debug, lease, fencings, maintenance, toldEdge, now>>

(* _release_device_lease(): only the session's own lease is cancelled.     *)
LeaseAfter(s) == IF lease.fencing = debug[s].fencing THEN [lease EXCEPT !.canceled = TRUE] ELSE lease

EndSession(s, status) ==
    /\ debug' = [debug EXCEPT ![s].status = status]
    /\ toldEdge' = [toldEdge EXCEPT ![s] = Append(@, "END")]

(* revoke()                                                                *)
Revoke(w, s) ==
    /\ AtOnce(w)
    /\ debug[s] # NoSession /\ ~Ended(s)
    /\ EndSession(s, "REVOKED") /\ lease' = LeaseAfter(s)
    /\ UNCHANGED <<fencings, maintenance, evidence, now>>

(* get(): the request that makes an expiry or a lost lease last.           *)
GetSession(w, s) ==
    /\ AtOnce(w)
    /\ debug[s] # NoSession /\ ~Ended(s)
    /\ \/ Due(s) /\ EndSession(s, "EXPIRED") /\ lease' = LeaseAfter(s)
       \/ ~Due(s) /\ ~HoldsLease(s) /\ EndSession(s, "REVOKED") /\ UNCHANGED lease
    /\ UNCHANGED <<fencings, maintenance, evidence, now>>

-----------------------------------------------------------------------------
(* The other users of the lease.                                           *)

(* acquire_lease() of a workflow                                           *)
WorkflowAcquires(w) ==
    /\ AtOnce(w)
    /\ ~maintenance /\ ~LeaseLive
    /\ TakeLease("WORKFLOW")
    /\ UNCHANGED <<debug, maintenance, evidence, toldEdge, now>>

(* release_lease(): whoever knows the lease id                             *)
ReleaseById(w) ==
    /\ AtOnce(w)
    /\ lease # NoLease /\ lease' = [lease EXCEPT !.canceled = TRUE]
    /\ UNCHANGED <<debug, fencings, maintenance, evidence, toldEdge, now>>

(* establish() of live control, on a device in maintenance too             *)
LiveEstablishes(w) ==
    /\ AtOnce(w)
    /\ ~(LeaseLive /\ lease.owner = "LIVE")
    /\ TakeLease("LIVE")
    /\ UNCHANGED <<debug, maintenance, evidence, toldEdge, now>>

(* set_maintenance()                                                       *)
SetMaintenance(w, on) ==
    /\ AtOnce(w)
    /\ ~LeaseLive /\ maintenance' = on
    /\ UNCHANGED <<debug, lease, fencings, evidence, toldEdge, now>>

DebugTick ==
    /\ now < MaxClock /\ now' = now + 1
    /\ UNCHANGED <<reqVars, debug, lease, fencings, maintenance, evidence, toldEdge>>

DebugNext ==
    \/ \E w \in Workers :
          \/ \E s \in Sessions :
                \/ CreateSession(w, s) \/ ExchangeCode(w, s) \/ StoreEvidence(w, s)
                \/ Revoke(w, s) \/ GetSession(w, s)
          \/ WorkflowAcquires(w) \/ ReleaseById(w) \/ LiveEstablishes(w)
          \/ \E on \in BOOLEAN : SetMaintenance(w, on)
    \/ DebugTick

-----------------------------------------------------------------------------
(* Whoever took the device from a session, what the session's relay stored *)
(* was stored under the session's own fencing, and a relay that is         *)
(* accepted now has the newest.  The edge hears of a session at most one   *)
(* grant and then one end, however requests are repeated after an expiry   *)
(* or a lost lease.                                                        *)
DebugFenced ==
    \A s \in Sessions :
       /\ evidence[s] \subseteq {debug[s].fencing}
       /\ Authorized(s) => debug[s].fencing = fencings
       /\ toldEdge[s] \in {<<>>, <<"GRANT">>, <<"END">>, <<"GRANT", "END">>}
=============================================================================
