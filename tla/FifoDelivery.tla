---------------------------- MODULE FifoDelivery ----------------------------
(***************************************************************************)
(* What each direction of the Edge stream promises: every message that was *)
(* given a sequence number is taken up once, in order, with its content.   *)
(***************************************************************************)
EXTENDS Naturals, Sequences

CONSTANT Messages

VARIABLES sent,     \* messages in the order of their sequence numbers
          taken     \* messages the receiver has recorded, in its order

vars == <<sent, taken>>

Init == sent = <<>> /\ taken = <<>>

Send == \E m \in Messages : sent' = Append(sent, m) /\ UNCHANGED taken

(* One or several at a time.                                               *)
Take ==
    /\ \E n \in Len(taken) + 1 .. Len(sent) : taken' = taken \o SubSeq(sent, Len(taken) + 1, n)
    /\ UNCHANGED sent

Next == Send \/ Take

Spec == Init /\ [][Next]_vars
=============================================================================
