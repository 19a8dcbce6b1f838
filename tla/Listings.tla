------------------------------ MODULE Listings ------------------------------
(***************************************************************************)
(* Collected listings of one device (fleet_listings.py): a pushed screen   *)
(* upserts each listing by its identity and appends a snapshot when its    *)
(* content changed.  push_screen() locks nothing and knows no order.  The  *)
(* Companion goes on with the next screen when a push failed or timed out, *)
(* and a run that is repeated pushes its screens again with what it reads  *)
(* then: pushes overlap and arrive in any order.                           *)
(***************************************************************************)
EXTENDS ApiRequests, Sequences

CONSTANTS Items,         \* item keys
          Hashes,        \* what _row_hash() tells apart
          MaxPush        \* bound: screens of all runs

ASSUME ListingsAssumption == MaxPush \in Nat

VARIABLES stored,        \* screens with a fleet_listing_screen row
          listing,       \* listing[i]: content hash and snapshot_count
          snapshots,     \* snapshots[i]: content hashes, in order
          raced          \* history: listings written from a read that another screen had outdated

listingVars == <<stored, listing, snapshots, raced>>

ListingScreens == 1 .. MaxPush
(* The listings a screen shows, each with its content.                     *)
ScreenRows == UNION {[shown -> Hashes] : shown \in SUBSET Items}

NoListing == [hash |-> "none", count |-> 0]

ListingsInit ==
    /\ stored = {} /\ raced = {}
    /\ listing = [i \in Items |-> NoListing]
    /\ snapshots = [i \in Items |-> <<>>]

PushRead(w, n, shows) ==
    /\ n \notin stored
    /\ Begin(w, [op |-> "PUSH", n |-> n, rows |-> shows, saw |-> listing, had |-> stored])
    /\ UNCHANGED listingVars

(* Mutant: nothing refuses a screen that was stored since it was read.     *)
ScreenFreeUnchecked(n) == TRUE
(* uq_fleet_listing_screen                                                 *)
ScreenFree(n) == n \notin stored

(* uq_fleet_listing_identity: a listing that was not there when it was     *)
(* read is inserted.                                                       *)
IdentitiesFree(r) == \A i \in DOMAIN r.rows : r.saw[i] = NoListing => listing[i] = NoListing

(* The listings whose content differs from what was read.                  *)
Differing(r) == {i \in DOMAIN r.rows : r.saw[i].hash # r.rows[i]}

(* The rows are written from what was read: count is read + 1.             *)
PushCommit(w) ==
    LET r == req[w] IN
    /\ r.op = "PUSH" /\ ScreenFree(r.n) /\ IdentitiesFree(r)
    /\ stored' = stored \cup {r.n}
    /\ listing' = [i \in Items |-> IF i \in Differing(r)
                                   THEN [hash |-> r.rows[i], count |-> r.saw[i].count + 1] ELSE listing[i]]
    /\ snapshots' = [i \in Items |-> IF i \in Differing(r) THEN Append(snapshots[i], r.rows[i])
                                                           ELSE snapshots[i]]
    /\ raced' = IF stored \subseteq r.had \cup {r.n} THEN raced
                ELSE raced \cup {i \in Differing(r) : r.saw[i] # listing[i]}
    /\ End(w)

(* A unique constraint, a deadlock or the connection ends the transaction. *)
PushFails(w) == req[w].op = "PUSH" /\ End(w) /\ UNCHANGED listingVars

ListingsNext ==
    \E w \in Workers :
       \/ \E n \in ListingScreens, shows \in ScreenRows : PushRead(w, n, shows)
       \/ PushCommit(w) \/ PushFails(w)

-----------------------------------------------------------------------------
(* The row of a listing is its last snapshot and never counts more of them *)
(* than there are, in whatever order screens and their copies arrive.  Its *)
(* history is its changes and only those: snapshot_count counts them and   *)
(* two in a row differ, unless pushes of two different screens overlapped  *)
(* on it, where the row lock that push_screen() does not take is missing.  *)
ListingHistory ==
    \A i \in Items :
       /\ snapshots[i] # <<>> => listing[i].hash = snapshots[i][Len(snapshots[i])]
       /\ listing[i].count <= Len(snapshots[i])
       /\ i \notin raced =>
             /\ listing[i].count = Len(snapshots[i])
             /\ \A j \in 1..(Len(snapshots[i]) - 1) : snapshots[i][j] # snapshots[i][j + 1]
=============================================================================
