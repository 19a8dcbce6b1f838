------------------------------ MODULE Outbox ------------------------------
(***************************************************************************)
(* The outbox dispatcher: OutboxStore (claim, mark_published, mark_failed) *)
(* over the rows of outbox_event, any number of OutboxDispatcher processes *)
(* and the FanoutSink they publish through.                                *)
(*                                                                         *)
(* Each store call is one transaction.  claim() takes its rows FOR UPDATE  *)
(* SKIP LOCKED; a row skipped because another transaction holds it is a    *)
(* row claimed just before or just after, so transactions are atomic here. *)
(* Event numbers follow the claim order (occurred_at, id).                 *)
(***************************************************************************)
EXTENDS Naturals, FiniteSets

CONSTANTS
    NumEvents,      \* bound on the rows of outbox_event
    NumSinks,       \* the sinks of the FanoutSink, in their order
    Dispatchers,
    BatchSize,      \* batch_size of claim()
    Poison,         \* events the last sink always refuses
    NoOwner,
    MaxFailures,    \* bound: transient sink failures
    MaxOverruns     \* bound: claims that outlive claim_ttl in a live process

Events == 1..NumEvents
Sinks == 1..NumSinks

ASSUME OutboxAssumption ==
    /\ NumEvents \in Nat /\ NumSinks \in Nat \ {0} /\ BatchSize \in Nat \ {0}
    /\ MaxFailures \in Nat /\ MaxOverruns \in Nat
    /\ NoOwner \notin Dispatchers
    /\ Poison \subseteq Events

VARIABLES
    emitted,    \* rows that exist
    published,  \* rows with published_at
    owner,      \* claim_owner, NoOwner with claimed_at NULL
    fresh,      \* claimed_at is younger than claim_ttl
    batch,      \* rows the dispatcher still has to publish
    at,         \* sinks that took the dispatcher's current row
    broken,     \* the dispatcher's current publish() raised
    up,         \* dispatchers that are running
    delivered,  \* history: <<event, sink>> pairs a sink accepted
    failures, overruns

rowVars == <<emitted, published, owner, fresh>>
procVars == <<batch, at, broken, up>>
vars == <<rowVars, procVars, delivered, failures, overruns>>

Init ==
    /\ emitted = {} /\ published = {}
    /\ owner = [e \in Events |-> NoOwner]
    /\ fresh = [e \in Events |-> FALSE]
    /\ batch = [d \in Dispatchers |-> {}]
    /\ at = [d \in Dispatchers |-> 0]
    /\ broken = [d \in Dispatchers |-> FALSE]
    /\ up = Dispatchers
    /\ delivered = {}
    /\ failures = 0 /\ overruns = 0

-----------------------------------------------------------------------------
\* ControlRepository.emit(): the row is part of the business transaction.
\* Transactions commit in any order, whatever occurred_at says.
Emit(e) ==
    /\ e \notin emitted
    /\ emitted' = emitted \cup {e}
    /\ UNCHANGED <<published, owner, fresh, procVars, delivered, failures, overruns>>

\* Mutants: published rows come back; the claim of a dead process never ends.
ClaimableIgnoringPublished(e) == e \in emitted /\ (owner[e] = NoOwner \/ ~fresh[e])
ClaimableNeverStale(e) == e \in emitted /\ e \notin published /\ owner[e] = NoOwner
Claimable(e) ==
    /\ e \in emitted
    /\ e \notin published
    /\ owner[e] = NoOwner \/ ~fresh[e]

\* ORDER BY occurred_at, id LIMIT batch_size
FirstRows(S) == {e \in S : Cardinality({f \in S : f < e}) < BatchSize}

\* dispatch_once() claims when its previous batch is done.
Claim(d) ==
    LET rows == FirstRows({e \in Events : Claimable(e)}) IN
    /\ d \in up
    /\ batch[d] = {} /\ rows # {}
    /\ owner' = [e \in Events |-> IF e \in rows THEN d ELSE owner[e]]
    /\ fresh' = [e \in Events |-> fresh[e] \/ e \in rows]
    /\ batch' = [batch EXCEPT ![d] = rows]
    /\ UNCHANGED <<emitted, published, at, broken, up, delivered, failures, overruns>>

\* The rows of a batch are published one after the other.
Current(d, e) == d \in up /\ e \in batch[d] /\ \A f \in batch[d] : e <= f

\* FanoutSink.publish(): the loop over the sinks has one left to call.
\* Mutant: one too many.
MoreSinksOffByOne(d) == at[d] <= NumSinks
MoreSinks(d) == at[d] < NumSinks

\* The next sink accepts the event ...
Accept(d, e) ==
    /\ Current(d, e)
    /\ ~broken[d] /\ MoreSinks(d)
    /\ ~(e \in Poison /\ at[d] + 1 = NumSinks)
    /\ at' = [at EXCEPT ![d] = @ + 1]
    /\ delivered' = delivered \cup {<<e, at[d] + 1>>}
    /\ UNCHANGED <<rowVars, batch, broken, up, failures, overruns>>

\* ... or raises; the sinks before it have already acted.
Refuse(d, e) ==
    /\ Current(d, e)
    /\ ~broken[d] /\ MoreSinks(d)
    /\ \/ e \in Poison /\ at[d] + 1 = NumSinks /\ failures' = failures
       \/ e \notin Poison /\ failures < MaxFailures /\ failures' = failures + 1
    /\ broken' = [broken EXCEPT ![d] = TRUE]
    /\ UNCHANGED <<rowVars, batch, at, up, delivered, overruns>>

\* The row is still this dispatcher's to settle.  Mutant: it always is.
OwnsAlways(d, e) == e \notin published
Owns(d, e) == e \notin published /\ owner[e] = d

\* publish() is over: with success once every sink accepted, and in the except
\* branch when one raised.  Mutant: after the first sink.
PublishReturnedEarly(d) == ~broken[d] /\ at[d] > 0
PublishReturned(d) == ~broken[d] /\ at[d] = NumSinks

NextRow(d, e) ==
    /\ batch' = [batch EXCEPT ![d] = @ \ {e}]
    /\ at' = [at EXCEPT ![d] = 0]
    /\ broken' = [broken EXCEPT ![d] = FALSE]
    /\ UNCHANGED <<emitted, up, delivered, failures, overruns>>

Unclaim(d, e) ==
    /\ owner' = [owner EXCEPT ![e] = IF Owns(d, e) THEN NoOwner ELSE @]
    /\ fresh' = [fresh EXCEPT ![e] = @ /\ ~Owns(d, e)]

MarkPublished(d, e) ==
    /\ Current(d, e) /\ PublishReturned(d)
    /\ published' = IF Owns(d, e) THEN published \cup {e} ELSE published
    /\ Unclaim(d, e)
    /\ NextRow(d, e)

MarkFailed(d, e) ==
    /\ Current(d, e) /\ broken[d]
    /\ UNCHANGED published
    /\ Unclaim(d, e)
    /\ NextRow(d, e)

\* The process dies, by itself or because a store call raised: run() catches
\* nothing.  Its claims stay in the table.
Crash(d) ==
    /\ d \in up /\ up # {d}
    /\ up' = up \ {d}
    /\ batch' = [batch EXCEPT ![d] = {}]
    /\ at' = [at EXCEPT ![d] = 0]
    /\ broken' = [broken EXCEPT ![d] = FALSE]
    /\ UNCHANGED <<rowVars, delivered, failures, overruns>>

\* claim_ttl passes: for a row whose claimant died, and for one at the end of
\* a batch that takes longer than claim_ttl.
Expire(e) ==
    /\ owner[e] # NoOwner /\ fresh[e]
    /\ owner[e] \notin up
    /\ fresh' = [fresh EXCEPT ![e] = FALSE]
    /\ UNCHANGED <<emitted, published, owner, procVars, delivered, failures, overruns>>

Overrun(e) ==
    /\ owner[e] # NoOwner /\ fresh[e]
    /\ owner[e] \in up
    /\ overruns < MaxOverruns
    /\ overruns' = overruns + 1
    /\ fresh' = [fresh EXCEPT ![e] = FALSE]
    /\ UNCHANGED <<emitted, published, owner, procVars, delivered, failures>>

-----------------------------------------------------------------------------
Work(d) ==
    \/ Claim(d)
    \/ \E e \in Events : Accept(d, e) \/ MarkPublished(d, e) \/ MarkFailed(d, e)

Next ==
    \/ \E e \in Events : Emit(e) \/ Expire(e) \/ Overrun(e)
    \/ \E d \in Dispatchers : Work(d) \/ Crash(d)
    \/ \E d \in Dispatchers, e \in Events : Refuse(d, e)

Spec == Init /\ [][Next]_vars

\* run() loops for as long as its process lives, a sink answers or raises, and
\* time passes.
Fairness ==
    /\ \A d \in Dispatchers : WF_vars(Work(d) \/ \E e \in Events : Refuse(d, e))
    /\ \A e \in Events : WF_vars(Expire(e))

FairSpec == Spec /\ Fairness

-----------------------------------------------------------------------------
(* Properties. *)

\* Every row and every process is in a state the code can produce.
TypeOK ==
    /\ emitted \in SUBSET Events /\ published \in SUBSET Events
    /\ owner \in [Events -> Dispatchers \cup {NoOwner}]
    /\ fresh \in [Events -> BOOLEAN]
    /\ batch \in [Dispatchers -> SUBSET Events]
    /\ at \in [Dispatchers -> 0..NumSinks]
    /\ broken \in [Dispatchers -> BOOLEAN]
    /\ up \in SUBSET Dispatchers
    /\ delivered \in SUBSET (Events \X Sinks)
    /\ failures \in Nat /\ overruns \in Nat

\* At-least-once: the outbox implements EventDelivery.  A row gets published_at
\* only after every sink accepted it, although a claim may have changed hands,
\* a fan-out may have failed halfway and processes may have died in between.
Delivery == INSTANCE EventDelivery WITH acknowledged <- published
AtLeastOnce == Delivery!Spec

\* A claim is given back only by the dispatcher that holds it: the late
\* mark_failed or mark_published of one whose claim went stale and was taken
\* over leaves the new claimant's row alone.
ClaimReleasedByHolder ==
    [][\A e \in Events : owner[e] # NoOwner /\ owner'[e] = NoOwner =>
        \E d \in up : owner[e] = d /\ e \in batch[d] /\ e \notin batch'[d]]_vars

\* published_at is final, and a published row is never claimed again.
PublishedFinal ==
    [][\A e \in published : e \in published' /\ owner'[e] = NoOwner]_vars

\* Every event no sink refuses for good is published in the end, whatever
\* dispatchers die, provided the refused ones do not fill a batch.
HealthyDelivered ==
    Cardinality(Poison) < BatchSize =>
        \A e \in Events \ Poison : e \in emitted ~> e \in published
=============================================================================
