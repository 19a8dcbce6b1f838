--------------------------- MODULE MCMobileTask ---------------------------
(***************************************************************************)
(* Instances of MobileTask for TLC.                                        *)
(***************************************************************************)
EXTENDS MobileTask, TLC

CONSTANTS d1, d2, acct, publish, confirm, operator, legacy, workflow

\* One device, two tasks of one account on it.
OneDevice == [t \in 1..2 |-> d1]
SameAccount == [t \in 1..2 |-> acct]
TwoViewers == [s \in {operator, legacy} |-> d1]
NoViewer == [s \in {} |-> d1]

\* One device and one task, seen by an operator of each live service.
OneTask == [t \in 1..1 |-> d1]
OneAccount == [t \in 1..1 |-> acct]

\* Two devices the same account is bound to, one task on each.
TwoDevices == [t \in 1..2 |-> IF t = 1 THEN d1 ELSE d2]

\* The two action ids are interchangeable.
ActionSymmetry == Permutations({publish, confirm})
=============================================================================
