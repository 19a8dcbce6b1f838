------------------------------- MODULE Orders -------------------------------
(***************************************************************************)
(* Collected Xianyu orders of one device and direction: the durable        *)
(* delivery protocol order-delivery/1 (order_delivery.py), the older       *)
(* screen push with its checkpoint (fleet_orders.py) and the first batch   *)
(* ingest (orders_service.py).  Deliveries and screen pushes lock the      *)
(* device row and the unique order key refuses a concurrent insert, so     *)
(* each request is one step; requests arrive late, twice and out of order. *)
(* A row's optional columns are its status here, None when not collected.  *)
(***************************************************************************)
EXTENDS ApiRequests, FiniteSets, FiniteSetsExt

CONSTANTS OrderKeys,     \* natural keys of orders
          Statuses,      \* values of status_text
          OrderTasks,    \* collection tasks, numbered by (created_at, id)
          MaxScreen,     \* screens a task may collect (three in the code)
          Runs,          \* run keys of the older push, no delivery tasks
          None

ASSUME OrdersAssumption ==
    OrderTasks \subseteq Nat \ {0} /\ MaxScreen \in Nat \ {0} /\ None \notin Statuses

VARIABLES order,         \* order[k]: the xianyu_order row and its projection
          receipt,       \* receipt[t][s]: payload stored for screen s of task t
          sealed,        \* sealed[t]: total of the COMPLETE receipt, or 0
          conflicted,    \* tasks with a receipt marked PAYLOAD_CONFLICT
          oldPages,      \* oldPages[r]: screens stored by the older push
          checkpoint     \* its resume point: run (or None) and last screen

orderVars == <<order, receipt, sealed, conflicted, oldPages, checkpoint>>

Screens == 1..MaxScreen
Payloads == UNION {[ks -> Statuses \cup {None}] : ks \in SUBSET OrderKeys}
NoSource == <<0, 0>>
NoPayload == [stored |-> FALSE, rows |-> <<>>]

OrdersInit ==
    /\ order = [k \in OrderKeys |-> [exists |-> FALSE, status |-> None, src |-> NoSource]]
    /\ receipt = [t \in OrderTasks |-> [s \in Screens |-> NoPayload]]
    /\ sealed = [t \in OrderTasks |-> 0]
    /\ conflicted = {}
    /\ oldPages = [r \in Runs |-> {}]
    /\ checkpoint = [run |-> None, last |-> 0]

Received(t) == {s \in Screens : receipt[t][s].stored}

(* _upsert_orders() for one row: a status that was not collected changes   *)
(* nothing.                                                                *)
Upserted(o, st) == [o EXCEPT !.exists = TRUE, !.status = IF st = None THEN @ ELSE st]

(* A projection written by a later task, or a later screen of the task, is *)
(* not replaced.                                                           *)
Later(a, b) == a[1] > b[1] \/ (a[1] = b[1] /\ a[2] > b[2])
(* Mutant: rows are applied in the order they arrive.                      *)
StaleNever(k, t, s) == FALSE
Stale(k, t, s) == Later(order[k].src, <<t, s>>)

(* push() of a SCREEN the server has no receipt for: screens arrive in     *)
(* order, before the task is sealed and before any conflict.               *)
DeliverScreen(w, t, s, rows) ==
    /\ AtOnce(w)
    /\ ~receipt[t][s].stored /\ t \notin conflicted /\ sealed[t] = 0
    /\ Received(t) = 1..(s - 1)
    /\ order' = [k \in OrderKeys |->
                    IF k \in DOMAIN rows /\ ~Stale(k, t, s)
                    THEN [Upserted(order[k], rows[k]) EXCEPT !.src = <<t, s>>]
                    ELSE order[k]]
    /\ receipt' = [receipt EXCEPT ![t][s] = [stored |-> TRUE, rows |-> rows]]
    /\ UNCHANGED <<sealed, conflicted, oldPages, checkpoint>>

(* The screen is stored: the same payload is answered again, another one   *)
(* marks the conflict, committed before the request is refused.            *)
DeliverAgain(w, t, s, rows) ==
    /\ AtOnce(w)
    /\ receipt[t][s].stored
    /\ conflicted' = IF rows = receipt[t][s].rows THEN conflicted ELSE conflicted \cup {t}
    /\ UNCHANGED <<order, receipt, sealed, oldPages, checkpoint>>

(* COMPLETE seals a task whose screens are all there; a second COMPLETE    *)
(* with another total is a conflict.                                       *)
DeliverComplete(w, t, total) ==
    /\ AtOnce(w)
    /\ \/ /\ sealed[t] = 0 /\ t \notin conflicted /\ Received(t) = 1..total
          /\ sealed' = [sealed EXCEPT ![t] = total] /\ UNCHANGED conflicted
       \/ /\ sealed[t] > 0
          /\ conflicted' = IF total = sealed[t] THEN conflicted ELSE conflicted \cup {t}
          /\ UNCHANGED sealed
    /\ UNCHANGED <<order, receipt, oldPages, checkpoint>>

(* push_screen(): _guard_checkpoint() refuses a gap and any screen but the *)
(* first of a run the checkpoint is not bound to.                          *)
(* Mutant: a run takes the checkpoint over with any screen.                *)
GuardBound(r, s) == checkpoint.run = r => s <= checkpoint.last + 1
GuardCheckpoint(r, s) ==
    IF checkpoint.run = r THEN s <= checkpoint.last + 1 ELSE s = 1

PushScreen(w, r, s, rows) ==
    /\ AtOnce(w)
    /\ s \notin oldPages[r]
    /\ \A k \in DOMAIN rows : order[k].src = NoSource
    /\ GuardCheckpoint(r, s)
    /\ order' = [k \in OrderKeys |-> IF k \in DOMAIN rows THEN Upserted(order[k], rows[k])
                                                          ELSE order[k]]
    /\ oldPages' = [oldPages EXCEPT ![r] = @ \cup {s}]
    /\ checkpoint' = [run |-> r,
                      last |-> IF checkpoint.run = r /\ checkpoint.last > s
                               THEN checkpoint.last ELSE s]
    /\ UNCHANGED <<receipt, sealed, conflicted>>

(* ingest(): the first write of a key stays.                               *)
IngestOrder(w, k, st) ==
    /\ AtOnce(w)
    /\ ~order[k].exists
    /\ order' = [order EXCEPT ![k] = Upserted(@, st)]
    /\ UNCHANGED <<receipt, sealed, conflicted, oldPages, checkpoint>>

OrdersNext ==
    \E w \in Workers :
       \/ \E t \in OrderTasks, s \in Screens :
             \/ \E rows \in Payloads : DeliverScreen(w, t, s, rows) \/ DeliverAgain(w, t, s, rows)
             \/ DeliverComplete(w, t, s)
       \/ \E r \in Runs, s \in Screens, rows \in Payloads : PushScreen(w, r, s, rows)
       \/ \E k \in OrderKeys, st \in Statuses \cup {None} : IngestOrder(w, k, st)

-----------------------------------------------------------------------------
(* The delivery a row was last seen in, by collection and not by arrival.  *)
Observations(k) ==
    {o \in OrderTasks \X Screens :
        receipt[o[1]][o[2]].stored /\ k \in DOMAIN receipt[o[1]][o[2]].rows}

(* An order shows the newest collection it occurs in, in whatever order    *)
(* the screens of several tasks reach the server and whatever the older    *)
(* routes push in between.                                                 *)
NewestObservation ==
    \A k \in OrderKeys :
       IF Observations(k) = {} THEN order[k].src = NoSource
       ELSE /\ order[k].src \in Observations(k)
            /\ \A o \in Observations(k) : ~Later(o, order[k].src)
            /\ LET st == receipt[order[k].src[1]][order[k].src[2]].rows[k]
               IN  st # None => order[k].status = st

(* The stored screens of a collection have no gap, so a history window     *)
(* never lists a missing screen, and a sealed task has all of its screens. *)
PagesContiguous ==
    /\ \A r \in Runs : oldPages[r] = 1..Cardinality(oldPages[r])
    /\ \A t \in OrderTasks : /\ Received(t) = 1..Cardinality(Received(t))
                             /\ sealed[t] > 0 => Received(t) = 1..sealed[t]

(* Orders collected from screens are current and complete, whichever       *)
(* route and order the screens arrived by.                                 *)
OrdersTrue == NewestObservation /\ PagesContiguous
=============================================================================
