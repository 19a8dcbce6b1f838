----------------------------- MODULE ApiRequests -----------------------------
(***************************************************************************)
(* Requests of the control API.  Every request runs in unit_of_work(), one *)
(* READ COMMITTED transaction of PostgreSQL.  A request that locks the row *)
(* it decides on (with_for_update()) is one step.  One that decides on     *)
(* rows it only read is two: what it read is kept in req[w] until it       *)
(* commits, and the other worker may commit in between.                    *)
(***************************************************************************)
EXTENDS Integers

CONSTANTS Workers,       \* API workers serving requests concurrently
          MaxRequests    \* bound: requests in one behaviour

ASSUME RequestAssumption == MaxRequests \in Nat

VARIABLES req,    \* what the worker's open request has read, or Idle
          left    \* requests still to come

reqVars == <<req, left>>

Idle == [op |-> "IDLE"]

ReqInit == req = [w \in Workers |-> Idle] /\ left = MaxRequests

(* The first step of a request that will commit later.                     *)
Begin(w, r) ==
    /\ left > 0 /\ req[w] = Idle
    /\ req' = [req EXCEPT ![w] = r]
    /\ left' = left - 1

(* The request of worker w ends: it commits or is rolled back.             *)
End(w) == req' = [req EXCEPT ![w] = Idle] /\ UNCHANGED left

(* A request whose reads and writes are one step.                          *)
AtOnce(w) == left > 0 /\ req[w] = Idle /\ left' = left - 1 /\ UNCHANGED req
=============================================================================
