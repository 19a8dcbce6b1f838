--------------------------- MODULE OutboxProofs ---------------------------
(***************************************************************************)
(* The outbox implements EventDelivery for any number of events, sinks and *)
(* dispatchers, with any batch size.                                       *)
(***************************************************************************)
EXTENDS Outbox, TLAPS

\* What a dispatcher's position in its batch says about the sinks, and what
\* published_at says about the row.
BatchInv ==
    /\ \A d \in Dispatchers : batch[d] \subseteq emitted
    /\ \A d \in Dispatchers : batch[d] = {} => at[d] = 0
    /\ \A d \in Dispatchers, e \in Events : Current(d, e) =>
           \A s \in 1..at[d] : <<e, s>> \in delivered
RowInv ==
    /\ published \subseteq emitted
    /\ \A e \in published : owner[e] = NoOwner
    /\ \A e \in published, s \in Sinks : <<e, s>> \in delivered
OutboxInv == TypeOK /\ BatchInv /\ RowInv

\* Every store call and every sink call keeps the types.
LEMMA OutboxTypeStep == TypeOK /\ [Next]_vars => TypeOK'
<1> SUFFICES ASSUME TypeOK, [Next]_vars PROVE TypeOK'
  OBVIOUS
<1> USE OutboxAssumption DEF TypeOK, rowVars, procVars
<1>1. ASSUME NEW e \in Events, Emit(e) \/ Expire(e) \/ Overrun(e) PROVE TypeOK'
  <2>1. CASE Emit(e)
    BY <2>1 DEF Emit
  <2>2. CASE Expire(e)
    BY <2>2 DEF Expire
  <2>3. CASE Overrun(e)
    BY <2>3 DEF Overrun
  <2> QED BY <1>1, <2>1, <2>2, <2>3
<1>2. ASSUME NEW d \in Dispatchers, Claim(d) PROVE TypeOK'
  <2> DEFINE rows == FirstRows({e \in Events : Claimable(e)})
  <2>1. rows \subseteq Events
    BY DEF FirstRows
  <2>2. owner' \in [Events -> Dispatchers \cup {NoOwner}]
    BY <1>2 DEF Claim
  <2>3. fresh' \in [Events -> BOOLEAN]
    BY <1>2, Zenon DEF Claim
  <2>4. batch' \in [Dispatchers -> SUBSET Events]
    BY <1>2, <2>1 DEF Claim
  <2> QED BY <1>2, <2>2, <2>3, <2>4 DEF Claim
<1>3. ASSUME NEW d \in Dispatchers, NEW e \in Events, Accept(d, e) PROVE TypeOK'
  <2>1. at[d] + 1 \in Sinks
    BY <1>3 DEF Accept, MoreSinks, Sinks
  <2>2. delivered' \in SUBSET (Events \X Sinks)
    BY <1>3, <2>1 DEF Accept
  <2>3. at' \in [Dispatchers -> 0..NumSinks]
    BY <1>3, <2>1 DEF Accept, Sinks
  <2> QED BY <1>3, <2>2, <2>3 DEF Accept
<1>4. ASSUME NEW d \in Dispatchers, NEW e \in Events, Refuse(d, e) PROVE TypeOK'
  BY <1>4 DEF Refuse
<1>5. ASSUME NEW d \in Dispatchers, NEW e \in Events, MarkPublished(d, e) PROVE TypeOK'
  BY <1>5 DEF MarkPublished, Unclaim, NextRow
<1>6. ASSUME NEW d \in Dispatchers, NEW e \in Events, MarkFailed(d, e) PROVE TypeOK'
  BY <1>6 DEF MarkFailed, Unclaim, NextRow
<1>7. ASSUME NEW d \in Dispatchers, Crash(d) PROVE TypeOK'
  BY <1>7 DEF Crash
<1>8. CASE UNCHANGED vars
  BY <1>8 DEF vars
<1> QED BY <1>1, <1>2, <1>3, <1>4, <1>5, <1>6, <1>7, <1>8 DEF Next, Work

\* A dispatcher reaches mark_published only after the whole fan-out.
LEMMA OutboxInvStep == OutboxInv /\ [Next]_vars => OutboxInv'
<1> SUFFICES ASSUME OutboxInv, [Next]_vars PROVE BatchInv' /\ RowInv'
  BY OutboxTypeStep DEF OutboxInv
<1> USE OutboxAssumption DEF OutboxInv, TypeOK, BatchInv, RowInv, Current, rowVars, procVars
<1>1. CASE \E e \in Events : Emit(e) \/ Expire(e) \/ Overrun(e)
  BY <1>1 DEF Emit, Expire, Overrun
<1>2. ASSUME NEW d \in Dispatchers, Claim(d) PROVE BatchInv' /\ RowInv'
  <2> DEFINE rows == FirstRows({e \in Events : Claimable(e)})
  <2>1. rows \subseteq emitted /\ rows \cap published = {}
    BY DEF FirstRows, Claimable
  <2>2. RowInv'
    <3>1. published' = published /\ emitted' = emitted /\ delivered' = delivered
      BY <1>2 DEF Claim
    <3>2. \A e \in Events : e \notin rows => owner'[e] = owner[e]
      BY <1>2 DEF Claim
    <3> HIDE DEF rows
    <3> QED BY <2>1, <3>1, <3>2
  <2>3. \A c \in Dispatchers : c # d => batch'[c] = batch[c]
    BY <1>2 DEF Claim
  <2>4. batch'[d] = rows /\ at[d] = 0 /\ at' = at
    BY <1>2 DEF Claim
  <2>5. emitted' = emitted /\ delivered' = delivered /\ up' = up
    BY <1>2 DEF Claim
  <2>6. BatchInv'
    <3> HIDE DEF rows
    <3> QED BY <2>1, <2>3, <2>4, <2>5
  <2> QED BY <2>2, <2>6
<1>3. ASSUME NEW d \in Dispatchers, NEW e \in Events, Accept(d, e)
      PROVE BatchInv' /\ RowInv'
  <2>1. RowInv'
    BY <1>3 DEF Accept
  <2>2. ASSUME NEW c \in Dispatchers, NEW f \in Events, Current(c, f)'
        PROVE \A s \in 1..at'[c] : <<f, s>> \in delivered'
    <3>1. CASE c # d
      BY <1>3, <2>2, <3>1 DEF Accept
    <3>2. CASE c = d
      <4>1. f = e
        BY <1>3, <2>2, <3>2 DEF Accept, Events
      <4> QED BY <1>3, <2>2, <3>2, <4>1 DEF Accept
    <3> QED BY <3>1, <3>2
  <2>3. batch'= batch /\ emitted' = emitted /\ \A c \in Dispatchers : c # d => at'[c] = at[c]
    BY <1>3 DEF Accept
  <2>4. batch[d] # {}
    BY <1>3 DEF Accept
  <2>5. BatchInv'
    BY <2>2, <2>3, <2>4
  <2> QED BY <2>1, <2>5
<1>4. ASSUME NEW d \in Dispatchers, NEW e \in Events, Refuse(d, e)
      PROVE BatchInv' /\ RowInv'
  BY <1>4 DEF Refuse
<1>5. ASSUME NEW d \in Dispatchers, NEW e \in Events, NextRow(d, e), Current(d, e)
      PROVE BatchInv'
  <2>1. at'[d] = 0 /\ batch'[d] \subseteq batch[d] /\ emitted' = emitted
    BY <1>5 DEF NextRow
  <2>2. \A c \in Dispatchers : c # d => at'[c] = at[c] /\ batch'[c] = batch[c]
    BY <1>5 DEF NextRow
  <2>3. delivered' = delivered /\ up' = up
    BY <1>5 DEF NextRow
  <2> QED BY <2>1, <2>2, <2>3
<1>6. ASSUME NEW d \in Dispatchers, NEW e \in Events, MarkPublished(d, e)
      PROVE BatchInv' /\ RowInv'
  <2>1. \A s \in Sinks : <<e, s>> \in delivered
    BY <1>6 DEF MarkPublished, PublishReturned, Sinks
  <2>2. e \in emitted /\ emitted' = emitted /\ delivered' = delivered
    BY <1>6 DEF MarkPublished, NextRow
  <2>3. \A f \in published' : owner'[f] = NoOwner
    BY <1>6 DEF MarkPublished, Unclaim, Owns
  <2>4. published' \subseteq published \cup {e}
    BY <1>6 DEF MarkPublished
  <2> QED BY <1>5, <1>6, <2>1, <2>2, <2>3, <2>4 DEF MarkPublished
<1>7. ASSUME NEW d \in Dispatchers, NEW e \in Events, MarkFailed(d, e)
      PROVE BatchInv' /\ RowInv'
  <2>1. \A f \in published' : owner'[f] = NoOwner
    BY <1>7 DEF MarkFailed, Unclaim, Owns
  <2>2. published' = published /\ emitted' = emitted /\ delivered' = delivered
    BY <1>7 DEF MarkFailed, NextRow
  <2> QED BY <1>5, <1>7, <2>1, <2>2 DEF MarkFailed
<1>8. ASSUME NEW d \in Dispatchers, Crash(d) PROVE BatchInv' /\ RowInv'
  BY <1>8 DEF Crash
<1>9. CASE UNCHANGED vars
  BY <1>9 DEF vars
<1> QED BY <1>1, <1>2, <1>3, <1>4, <1>6, <1>7, <1>8, <1>9 DEF Next, Work

\* The invariant of the dispatcher holds in every behaviour.
THEOREM OutboxInvariant == Spec => []OutboxInv
<1>1. Init => OutboxInv
  BY OutboxAssumption DEF Init, OutboxInv, TypeOK, BatchInv, RowInv, Current
<1> QED BY <1>1, OutboxInvStep, PTL DEF Spec

\* Rows, claims and dispatchers keep their types (TypeOK).
THEOREM OutboxTypeCorrect == Spec => []TypeOK
<1>1. OutboxInv => TypeOK
  BY DEF OutboxInv
<1> QED BY <1>1, OutboxInvariant, PTL

\* The outbox is an at-least-once delivery (AtLeastOnce): the store, the
\* dispatchers and the fan-out implement EventDelivery.
THEOREM AtLeastOnceCorrect == Spec => AtLeastOnce
<1>1. Init => Delivery!Init
  BY DEF Init, Delivery!Init
<1>2. OutboxInv /\ [Next]_vars => [Delivery!Next]_(Delivery!vars)
  <2> SUFFICES ASSUME OutboxInv, [Next]_vars PROVE [Delivery!Next]_(Delivery!vars)
    OBVIOUS
  <2> USE OutboxAssumption DEF OutboxInv, TypeOK, BatchInv, RowInv, Current, rowVars,
          procVars, Delivery!vars
  <2>1. ASSUME NEW e \in Events, Emit(e) PROVE Delivery!Next
    BY <2>1 DEF Emit, Delivery!Next, Delivery!Emit
  <2>2. CASE \E e \in Events : Expire(e) \/ Overrun(e)
    BY <2>2 DEF Expire, Overrun
  <2>3. ASSUME NEW d \in Dispatchers, NEW e \in Events, Accept(d, e) PROVE Delivery!Next
    <3>1. at[d] + 1 \in Sinks
      BY <2>3 DEF Accept, MoreSinks, Sinks
    <3>2. Delivery!Deliver(e, at[d] + 1)
      BY <2>3 DEF Accept, Delivery!Deliver
    <3> QED BY <3>1, <3>2 DEF Delivery!Next
  <2>4. ASSUME NEW d \in Dispatchers, NEW e \in Events, MarkPublished(d, e)
        PROVE [Delivery!Next]_(Delivery!vars)
    <3>1. \A s \in Sinks : <<e, s>> \in delivered
      BY <2>4 DEF MarkPublished, PublishReturned, Sinks
    <3>2. e \in emitted /\ emitted' = emitted /\ delivered' = delivered
      BY <2>4 DEF MarkPublished, NextRow
    <3>3. CASE published' = published \cup {e}
      <4>1. Delivery!Acknowledge(e)
        BY <3>1, <3>2, <3>3 DEF Delivery!Acknowledge
      <4> QED BY <4>1 DEF Delivery!Next
    <3>4. CASE published' = published
      BY <3>2, <3>4
    <3> QED BY <2>4, <3>3, <3>4 DEF MarkPublished
  <2>5. CASE \E d \in Dispatchers, e \in Events : Refuse(d, e) \/ MarkFailed(d, e)
    BY <2>5 DEF Refuse, MarkFailed, NextRow
  <2>6. CASE \E d \in Dispatchers : Claim(d) \/ Crash(d)
    BY <2>6 DEF Claim, Crash
  <2>7. CASE UNCHANGED vars
    BY <2>7 DEF vars
  <2> QED BY <2>1, <2>2, <2>3, <2>4, <2>5, <2>6, <2>7 DEF Next, Work
<1> QED BY <1>1, <1>2, OutboxInvariant, PTL DEF Spec, AtLeastOnce, Delivery!Spec

\* published_at is final and published rows are never claimed again
\* (PublishedFinal).
THEOREM PublishedFinalCorrect == Spec => PublishedFinal
<1>1. OutboxInv /\ OutboxInv' /\ [Next]_vars
        => [\A e \in published : e \in published' /\ owner'[e] = NoOwner]_vars
  <2> SUFFICES ASSUME OutboxInv, OutboxInv', [Next]_vars
               PROVE \A e \in published : e \in published' /\ owner'[e] = NoOwner
    OBVIOUS
  <2>1. published \subseteq published'
    BY DEF Next, vars, Work, rowVars, Emit, Expire, Overrun, Claim, Accept, Refuse,
           MarkPublished, MarkFailed, Crash
  <2> QED BY <2>1 DEF OutboxInv, RowInv
<1> QED BY <1>1, OutboxInvariant, PTL DEF Spec, PublishedFinal

\* A stale dispatcher never gives back the claim of the one that took over
\* (ClaimReleasedByHolder).
THEOREM ClaimReleasedByHolderCorrect == Spec => ClaimReleasedByHolder
<1> DEFINE Released == \A e \in Events : owner[e] # NoOwner /\ owner'[e] = NoOwner =>
        \E d \in up : owner[e] = d /\ e \in batch[d] /\ e \notin batch'[d]
<1>1. TypeOK /\ [Next]_vars => Released
  <2> SUFFICES ASSUME TypeOK, [Next]_vars, NEW e \in Events,
                      owner[e] # NoOwner, owner'[e] = NoOwner
               PROVE \E d \in up : owner[e] = d /\ e \in batch[d] /\ e \notin batch'[d]
    OBVIOUS
  <2> USE OutboxAssumption DEF TypeOK, rowVars
  <2>1. ASSUME NEW d \in Dispatchers, NEW f \in Events, MarkPublished(d, f) \/ MarkFailed(d, f)
        PROVE d \in up /\ owner[e] = d /\ e \in batch[d] /\ e \notin batch'[d]
    <3>1. Unclaim(d, f) /\ NextRow(d, f) /\ Current(d, f)
      BY <2>1 DEF MarkPublished, MarkFailed
    <3>2. f = e /\ owner[e] = d
      BY <3>1 DEF Unclaim, Owns
    <3> QED BY <3>1, <3>2 DEF NextRow, Current
  <2>2. ASSUME NEW d \in Dispatchers, Claim(d) PROVE FALSE
    <3>1. owner'[e] \in {d, owner[e]}
      BY <2>2 DEF Claim
    <3> QED BY <3>1
  <2>3. ~ UNCHANGED owner
    OBVIOUS
  <2>4. \E d \in Dispatchers, f \in Events : MarkPublished(d, f) \/ MarkFailed(d, f)
    BY <2>2, <2>3 DEF Next, vars, Work, Emit, Expire, Overrun, Accept, Refuse, Crash
  <2> QED BY <2>1, <2>4
<1>2. TypeOK /\ [Next]_vars => [Released]_vars
  BY <1>1
<1> QED BY <1>2, OutboxTypeCorrect, PTL DEF Spec, ClaimReleasedByHolder
=============================================================================
