------------------------------- MODULE Sources -------------------------------
(***************************************************************************)
(* Source connections of the library (source_routes.py,                    *)
(* source_service.py): a sync run reads a file page by page, by line       *)
(* offset, while its owner rewrites it, and links every record to a        *)
(* product or an asset by its external id.  A whole run is one             *)
(* transaction; runs of the same connection may overlap.  The              *)
(* content of a record is a number, 0 for one that normalize_record()      *)
(* refuses; in a media source it is the digest of the file the row names.  *)
(***************************************************************************)
EXTENDS ApiRequests, Sequences, SequencesExt

CONSTANTS ExternalIds,   \* product_id or file_name of a row
          Contents,      \* contents of a record, 0 among them
          Files,         \* bound: the files the owner may write
          MaxWrites,     \* bound: how often
          PageSize

Records == [id : ExternalIds, content : Contents]

ASSUME SourceAssumption ==
    /\ PageSize \in Nat \ {0} /\ 0 \in Contents
    /\ <<>> \in Files /\ Files \subseteq Seq(Records)

VARIABLES file,          \* the CSV file
          writes,        \* how often it was written
          links,         \* links[e]: content of the source_record_link, 0 for none
          entityKind,    \* entity_kind of the connection, NONE before it is created
          products,      \* products[e]: products created for the external id
          assets,        \* digests with a media_asset row
          objects,       \* digests in the object store, which no rollback undoes
          errors,        \* external ids with a sync_error
          lastRun,       \* the completed run with the latest completed_at
          stamps,        \* completed_at given out
          scanned        \* history: what completed full runs have answered for

sourceVars == <<file, writes, links, entityKind, products, assets, objects, errors, lastRun, stamps, scanned>>
syncVars == <<links, entityKind, products, assets, errors, lastRun, scanned>>

SourcesInit ==
    /\ file = <<>> /\ writes = 0
    /\ entityKind = "NONE" /\ assets = {} /\ objects = {}
    /\ links = [e \in ExternalIds |-> 0] /\ products = [e \in ExternalIds |-> 0] /\ errors = {}
    /\ lastRun = [at |-> 0, cursor |-> 0] /\ stamps = 0 /\ scanned = {}

(* The external ids of the rows behind line cursor c.                      *)
Unread(f, c) == {f[k].id : k \in {k \in DOMAIN f : k > c}}

(* The owner of the source writes the file anew: rows appear, change, go   *)
(* and move.  The field rows of an open run is history: the external ids   *)
(* that were there when it started, without those that this took from      *)
(* behind its line cursor before it read them.                             *)
FileChanges ==
    /\ writes < MaxWrites /\ writes' = writes + 1
    /\ file' \in Files
    /\ req' = [w \in Workers |->
                  IF req[w] = Idle THEN Idle
                  ELSE [req[w] EXCEPT !.rows = @ \ (Unread(file, req[w].cursor) \ Unread(file', req[w].cursor))]]
    /\ UNCHANGED <<left, objects, stamps, syncVars>>

(* create_source_connection(): its name is unique.                         *)
CreateConnection(w, k) ==
    /\ AtOnce(w) /\ entityKind = "NONE" /\ entityKind' = k
    /\ UNCHANGED <<file, writes, links, products, assets, objects, errors, lastRun, stamps, scanned>>

(* start_sync_run(): an incremental run starts at the cursor the last      *)
(* completed one ended with, 0 (from the top) if that read a short page.   *)
SyncStart(w, mode) ==
    /\ entityKind # "NONE"
    /\ Begin(w, [op |-> "SYNC", mode |-> mode, rows |-> Unread(file, 0),
                 cursor |-> IF mode = "incremental" THEN lastRun.cursor ELSE 0,
                 after |-> 0, page |-> <<>>, last |-> FALSE, wrote |-> [e \in {} |-> 0], failed |-> {},
                 created |-> {}, stored |-> {}, done |-> 0, misread |-> FALSE])
    /\ UNCHANGED sourceVars

(* read_page(): the lines behind the cursor.                               *)
Page(cursor) ==
    SubSeq(file, cursor + 1, IF cursor + PageSize <= Len(file) THEN cursor + PageSize ELSE Len(file))

(* The next turn of the loop in execute_sync_run(): a short page is the    *)
(* last one and leaves no cursor (0), an empty one leaves the cursor alone.*)
ReadPage(w) ==
    LET r == req[w]  p == Page(r.cursor)  full == Len(p) = PageSize  next == r.cursor + Len(p) IN
    /\ r # Idle /\ r.page = <<>> /\ ~r.last
    /\ req' = [req EXCEPT ![w] = [r EXCEPT !.page = p, !.cursor = next, !.last = ~full,
                     !.after = IF p = <<>> THEN @ ELSE IF full THEN next ELSE 0]]
    /\ UNCHANGED <<left, file, writes, objects, stamps, syncVars>>

(* read_page() answers a file it cannot read like the end of the file: the *)
(* run completes with the pages read so far.                               *)
ReadFails(w) ==
    /\ req[w] # Idle /\ req[w].page = <<>> /\ ~req[w].last
    /\ req' = [req EXCEPT ![w].last = TRUE, ![w].misread = TRUE]
    /\ UNCHANGED <<left, file, writes, objects, stamps, syncVars>>

-----------------------------------------------------------------------------
(* The record the run has in hand.                                         *)
InHand(w) == req[w] # Idle /\ req[w].page # <<>>
Record(w) == Head(req[w].page)

(* What the run sees of a link: its own writes and what is committed.      *)
Seen(w, e) == IF e \in DOMAIN req[w].wrote THEN req[w].wrote[e] ELSE links[e]
Malformed(w) == Record(w).content = 0
Changed(w) == ~Malformed(w) /\ Seen(w, Record(w).id) # Record(w).content

(* _sync_media(): an asset of the digest is taken as it is; else the file  *)
(* is fetched, put into the object store and given an asset row.           *)
NewAssets(w) ==
    IF entityKind = "media" THEN {Record(w).content} \ (assets \cup req[w].stored) ELSE {}

(* _sync_product(): a record without a link gets a product, one with a     *)
(* link changes the product it has.                                        *)
NewProducts(w) ==
    IF entityKind = "product" /\ Seen(w, Record(w).id) = 0 THEN {Record(w).id} ELSE {}

(* Another open run has written the same link or the same asset: the       *)
(* insert or update waits.                                                 *)
Waits(w) ==
    \E v \in Workers \ {w} :
       req[v] # Idle /\ (Record(w).id \in DOMAIN req[v].wrote \/ NewAssets(w) \cap req[v].stored # {})

RecordSame(w) ==
    /\ InHand(w) /\ ~Malformed(w) /\ ~Changed(w)
    /\ req' = [req EXCEPT ![w].page = Tail(@)]
    /\ UNCHANGED <<left, file, writes, objects, stamps, syncVars>>

(* A sync_error: a record that is refused, or a media file that is not     *)
(* there or has another digest.                                            *)
(* Mutant: a failed record is passed over.                                 *)
FailedPassedOver(w) == req[w].failed
Failed(w) == req[w].failed \cup {Record(w).id}

RecordFails(w) ==
    /\ InHand(w) /\ (Malformed(w) \/ (Changed(w) /\ NewAssets(w) # {}))
    /\ req' = [req EXCEPT ![w].page = Tail(@), ![w].failed = Failed(w)]
    /\ UNCHANGED <<left, file, writes, objects, stamps, syncVars>>

RecordSynced(w) ==
    LET r == req[w]  e == Record(w).id IN
    /\ InHand(w) /\ Changed(w) /\ ~Waits(w)
    /\ req' = [req EXCEPT ![w] = [r EXCEPT !.page = Tail(@),
                     !.wrote = [x \in DOMAIN @ \cup {e} |-> IF x = e THEN Record(w).content ELSE r.wrote[x]],
                     !.created = @ \cup NewProducts(w), !.stored = @ \cup NewAssets(w)]]
    /\ objects' = objects \cup NewAssets(w)
    /\ UNCHANGED <<left, file, writes, stamps, syncVars>>

(* The run is marked completed.                                            *)
SyncDone(w) ==
    /\ req[w] # Idle /\ req[w].page = <<>> /\ req[w].last /\ req[w].done = 0
    /\ req' = [req EXCEPT ![w].done = stamps + 1] /\ stamps' = stamps + 1
    /\ UNCHANGED <<left, file, writes, objects, syncVars>>

(* The commit after the loop: links, products, assets, errors and the run. *)
SyncCommit(w) ==
    LET r == req[w] IN
    /\ r # Idle /\ r.done > 0
    /\ links' = [e \in ExternalIds |-> IF e \in DOMAIN r.wrote THEN r.wrote[e] ELSE links[e]]
    /\ products' = [e \in ExternalIds |-> IF e \in r.created THEN products[e] + 1 ELSE products[e]]
    /\ assets' = assets \cup r.stored
    /\ errors' = errors \cup r.failed
    /\ lastRun' = IF r.done > lastRun.at THEN [at |-> r.done, cursor |-> r.after] ELSE lastRun
    /\ scanned' = IF r.mode = "full" /\ ~r.misread THEN scanned \cup r.rows ELSE scanned
    /\ End(w)
    /\ UNCHANGED <<file, writes, entityKind, objects, stamps>>

(* The run fails or its worker dies: everything it wrote is rolled back,   *)
(* the run record with its status too.                                     *)
SyncFails(w) == req[w] # Idle /\ End(w) /\ UNCHANGED sourceVars

SourcesNext ==
    \/ FileChanges
    \/ \E w \in Workers :
          \/ \E k \in {"product", "media"} : CreateConnection(w, k)
          \/ \E mode \in {"full", "incremental"} : SyncStart(w, mode)
          \/ ReadPage(w) \/ ReadFails(w) \/ RecordSame(w) \/ RecordFails(w) \/ RecordSynced(w)
          \/ SyncDone(w) \/ SyncCommit(w) \/ SyncFails(w)

-----------------------------------------------------------------------------
(* A completed full run that could read the file leaves a link or an error *)
(* for every record that was there when it started and that it could still *)
(* read, though the file was rewritten and other runs failed or overlapped *)
(* meanwhile.  (The cursor of read_page() is a line number: a row that     *)
(* moves up across it, since one before it went, is left out unnoticed.)   *)
(* An external id has one product, made with its link, or names an asset   *)
(* whose bytes are in the object store.                                    *)
SyncComplete ==
    /\ \A e \in scanned : links[e] # 0 \/ e \in errors
    /\ entityKind = "product" => \A e \in ExternalIds : products[e] = IF links[e] = 0 THEN 0 ELSE 1
    /\ entityKind = "media" =>
          assets \subseteq objects /\ \A e \in ExternalIds : links[e] \in assets \cup {0}
=============================================================================
