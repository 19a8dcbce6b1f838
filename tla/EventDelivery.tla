-------------------------- MODULE EventDelivery --------------------------
(***************************************************************************)
(* What the transactional outbox promises the rest of the system: an event *)
(* written by a committed transaction reaches every sink, in any order and *)
(* possibly several times, and is acknowledged only afterwards.            *)
(***************************************************************************)
CONSTANTS Events, Sinks

VARIABLES
    emitted,        \* events whose transaction committed
    delivered,      \* pairs <<event, sink>> seen at least once
    acknowledged    \* events the outbox is done with

vars == <<emitted, delivered, acknowledged>>

Init == emitted = {} /\ delivered = {} /\ acknowledged = {}

Emit(e) ==
    /\ e \notin emitted
    /\ emitted' = emitted \cup {e}
    /\ UNCHANGED <<delivered, acknowledged>>

\* A repeated delivery is a stuttering step.
Deliver(e, s) ==
    /\ e \in emitted
    /\ delivered' = delivered \cup {<<e, s>>}
    /\ UNCHANGED <<emitted, acknowledged>>

Acknowledge(e) ==
    /\ e \in emitted
    /\ \A s \in Sinks : <<e, s>> \in delivered
    /\ acknowledged' = acknowledged \cup {e}
    /\ UNCHANGED <<emitted, delivered>>

Next == \E e \in Events : Emit(e) \/ Acknowledge(e) \/ \E s \in Sinks : Deliver(e, s)

Spec == Init /\ [][Next]_vars
=============================================================================
