-------------------------------- MODULE Media --------------------------------
(***************************************************************************)
(* Media uploads, assets, derivatives, groups and frozen pools:            *)
(* ControlService of services.py (create_media() .. record_media_          *)
(* derivative_result()), features/media_assets and the object store ports  *)
(* of media_store.py.  A byte string is its digest; sizes and content      *)
(* types follow it.  An object put is atomic, as in the S3 store that      *)
(* production requires.                                                    *)
(***************************************************************************)
EXTENDS ApiRequests, FiniteSets, FiniteSetsExt

CONSTANTS Digests,       \* digests of byte strings, which name the assets
          Uploads,       \* media_upload rows; an upload's id names its object
          Derivs,        \* media_derivative rows
          MGroups,       \* media groups
          TaskKeys,      \* taskKey values of freeze_pool()
          RenderOf,      \* RenderOf[h]: digest of the watermarked image of h
          Absent         \* no digest, no object

ASSUME MediaAssumption ==
    /\ RenderOf \in [Digests -> Digests]
    /\ Absent \notin Digests \cup Uploads /\ Digests \cap Uploads = {}

VARIABLES
    asset,     \* media_asset rows by digest: registered, source, object key
    object,    \* object store: key to digest of the stored bytes, or Absent
    upload,    \* media_upload rows: state, expected digest, source, live grant
    deriv,     \* media_derivative rows: state, source, output
    mgroup,    \* media groups: live, member assets
    frozen     \* media.pool.frozen audit rows: task key, time, assets

mediaVars == <<asset, object, upload, deriv, mgroup, frozen>>

NoAsset == [reg |-> FALSE, src |-> Absent, key |-> Absent]

MediaInit ==
    /\ asset = [h \in Digests |-> NoAsset]
    /\ object = [k \in Uploads \cup Digests |-> Absent]
    /\ upload = [u \in Uploads |-> [state |-> "NONE", sha |-> Absent, src |-> Absent, live |-> FALSE]]
    /\ deriv = [d \in Derivs |-> [state |-> "NONE", src |-> Absent, out |-> Absent]]
    /\ mgroup = [g \in MGroups |-> [live |-> FALSE, members |-> {}]]
    /\ frozen = {}

Assets == {h \in Digests : asset[h].reg}
Sources == Assets \cup {Absent}

-----------------------------------------------------------------------------
(* Uploads                                                                 *)

(* Registers a digest unless it is known: unique (tenant_id, sha256).      *)
Register(h, src, key) ==
    asset' = [asset EXCEPT ![h] = IF @.reg THEN @ ELSE [reg |-> TRUE, src |-> src, key |-> key]]

(* create_media(): metadata of an object stored elsewhere.                 *)
CreateMedia(w, h, src) ==
    /\ AtOnce(w) /\ Register(h, src, Absent)
    /\ UNCHANGED <<object, upload, deriv, mgroup, frozen>>

(* initiate_media_upload(): a known digest needs no upload.                *)
InitiateUpload(w, u, h, src) ==
    /\ upload[u].state = "NONE" /\ ~ asset[h].reg
    /\ AtOnce(w)
    /\ upload' = [upload EXCEPT ![u] = [state |-> "PENDING", sha |-> h, src |-> src,
                                        live |-> TRUE]]
    /\ UNCHANGED <<asset, object, deriv, mgroup, frozen>>

UploadExpires(u) ==
    /\ upload[u].live
    /\ upload' = [upload EXCEPT ![u].live = FALSE]
    /\ UNCHANGED <<asset, object, deriv, mgroup, frozen, reqVars>>

(* Mutant: the API stores the bytes without looking at their digest.       *)
AcceptsAny(u, d) == upload[u].state # "COMPLETED" /\ upload[u].live

(* store_media_upload_content(): what must hold of the row and the bytes.  *)
Accepts(u, d) == upload[u].state # "COMPLETED" /\ upload[u].live /\ upload[u].sha = d

StoreRead(w, u, d) ==
    /\ upload[u].state # "NONE" /\ Accepts(u, d)
    /\ Begin(w, [op |-> "PUT", upload |-> u, bytes |-> d])
    /\ UNCHANGED mediaVars

(* The bytes are put after the transaction that read the row has ended.    *)
StorePut(w) ==
    /\ req[w].op = "PUT"
    /\ object' = [object EXCEPT ![req[w].upload] = req[w].bytes]
    /\ End(w)
    /\ UNCHANGED <<asset, upload, deriv, mgroup, frozen>>

(* The client uses the presigned URL, which is bound to the checksum.      *)
PresignedPut(u) ==
    /\ upload[u].live /\ object[u] # upload[u].sha
    /\ object' = [object EXCEPT ![u] = upload[u].sha]
    /\ UNCHANGED <<asset, upload, deriv, mgroup, frozen, reqVars>>

(* complete_media_upload(): the row is read and the object inspected ...   *)
CompleteRead(w, u) ==
    /\ upload[u].state \in {"PENDING", "FAILED"}
    /\ Begin(w, [op |-> "COMPLETE", upload |-> u, good |-> object[u] = upload[u].sha])
    /\ UNCHANGED mediaVars

(* ... then the row is locked, but its state is not looked at again.       *)
CompleteCommit(w) ==
    /\ req[w].op = "COMPLETE"
    /\ LET u == req[w].upload
       IN  \/ /\ req[w].good /\ upload[u].live
              /\ Register(upload[u].sha, upload[u].src, u)
              /\ upload' = [upload EXCEPT ![u].state = "COMPLETED"]
           \/ /\ ~ (req[w].good /\ upload[u].live)
              /\ upload' = [upload EXCEPT ![u].state = "FAILED"]
              /\ UNCHANGED asset
    /\ End(w)
    /\ UNCHANGED <<object, deriv, mgroup, frozen>>
-----------------------------------------------------------------------------
(* Derivatives                                                             *)

RequestDerivative(w, d, h) ==
    /\ deriv[d].state = "NONE" /\ asset[h].reg
    /\ AtOnce(w)
    /\ deriv' = [deriv EXCEPT ![d] = [state |-> "PENDING", src |-> h, out |-> Absent]]
    /\ UNCHANGED <<asset, object, upload, mgroup, frozen>>

(* record_media_derivative_result(): the row is locked; a failure may name *)
(* any output.                                                             *)
RecordResult(w, d, ok, h) ==
    /\ deriv[d].state = "PENDING"
    /\ ok => h \in Assets /\ asset[h].src = deriv[d].src
    /\ AtOnce(w)
    /\ deriv' = [deriv EXCEPT ![d].state = IF ok THEN "SUCCEEDED" ELSE "FAILED", ![d].out = h]
    /\ UNCHANGED <<asset, object, upload, mgroup, frozen>>

(* render_watermark(): reads the source, renders it and puts the result    *)
(* under a key made of its digest ...                                      *)
RenderRead(w, h) ==
    /\ asset[h].reg /\ asset[h].key # Absent /\ object[asset[h].key] # Absent
    /\ Begin(w, [op |-> "RENDER", src |-> h, out |-> RenderOf[object[asset[h].key]]])
    /\ object' = [object EXCEPT ![RenderOf[object[asset[h].key]]] =
                                    RenderOf[object[asset[h].key]]]
    /\ UNCHANGED <<asset, upload, deriv, mgroup, frozen>>

(* Mutant: a known digest is taken as the output whatever its source.      *)
BoundToAny(out, src) == FALSE

(* The digest is already the derivative of another source.                 *)
BoundElsewhere(out, src) == asset[out].reg /\ asset[out].src # src

(* ... then registers asset and derivative together.                       *)
RenderCommit(w) ==
    /\ req[w].op = "RENDER"
    /\ \/ /\ BoundElsewhere(req[w].out, req[w].src)
          /\ UNCHANGED <<asset, deriv>>
       \/ /\ ~ BoundElsewhere(req[w].out, req[w].src)
          /\ Register(req[w].out, req[w].src, req[w].out)
          /\ \E d \in Derivs :
                /\ deriv[d].state = "NONE"
                /\ deriv' = [deriv EXCEPT ![d] = [state |-> "SUCCEEDED", src |-> req[w].src,
                                                  out |-> req[w].out]]
    /\ End(w)
    /\ UNCHANGED <<object, upload, mgroup, frozen>>
-----------------------------------------------------------------------------
(* Groups and pools                                                        *)

CreateGroup(w, g) ==
    /\ ~ mgroup[g].live /\ AtOnce(w)
    /\ mgroup' = [mgroup EXCEPT ![g] = [live |-> TRUE, members |-> {}]]
    /\ UNCHANGED <<asset, object, upload, deriv, frozen>>

(* delete_media_group(): the group is locked, its memberships go with it.  *)
DeleteGroup(w, g) ==
    /\ mgroup[g].live /\ AtOnce(w)
    /\ mgroup' = [mgroup EXCEPT ![g] = [live |-> FALSE, members |-> {}]]
    /\ UNCHANGED <<asset, object, upload, deriv, frozen>>

(* update_media_taxonomy(): the memberships it sees are replaced by those  *)
(* of the groups G, which it has found to exist ...                        *)
TaxonomyRead(w, h, G) ==
    /\ asset[h].reg /\ \A g \in G : mgroup[g].live
    /\ Begin(w, [op |-> "TAXONOMY", asset |-> h, groups |-> G,
                 seen |-> {g \in MGroups : h \in mgroup[g].members}])
    /\ UNCHANGED mediaVars

(* ... the foreign key and unique (group_id, media_asset_id) may refuse.   *)
TaxonomyCommit(w) ==
    /\ req[w].op = "TAXONOMY"
    /\ LET r == req[w]
           Keeps(g) == r.asset \in mgroup[g].members /\ g \notin r.seen
       IN  mgroup' = IF \A g \in r.groups : mgroup[g].live /\ ~ Keeps(g)
                       THEN [g \in MGroups |->
                               [mgroup[g] EXCEPT !.members =
                                  IF g \in r.groups THEN @ \cup {r.asset}
                                  ELSE IF Keeps(g) THEN @ ELSE @ \ {r.asset}]]
                       ELSE mgroup
    /\ End(w)
    /\ UNCHANGED <<asset, object, upload, deriv, frozen>>

(* freeze_pool(): a task key with a row is answered from it; otherwise n   *)
(* members are picked by their rank under a seed of the request.           *)
FreezeRead(w, k, g, n) ==
    /\ ~ \E r \in frozen : r.key = k
    /\ mgroup[g].live /\ Cardinality(mgroup[g].members) >= n
    /\ Begin(w, [op |-> "FREEZE", key |-> k, time |-> MaxRequests - left,
                 pick |-> CHOOSE S \in kSubset(n, mgroup[g].members) : TRUE])
    /\ UNCHANGED mediaVars

FreezeCommit(w) ==
    /\ req[w].op = "FREEZE"
    /\ frozen' = frozen \cup {[key |-> req[w].key, time |-> req[w].time, pick |-> req[w].pick]}
    /\ End(w)
    /\ UNCHANGED <<asset, object, upload, deriv, mgroup>>
-----------------------------------------------------------------------------
MediaNext ==
    \/ \E w \in Workers :
        \/ StorePut(w) \/ CompleteCommit(w) \/ RenderCommit(w) \/ TaxonomyCommit(w)
        \/ FreezeCommit(w)
        \/ \E h \in Digests :
            \/ \E src \in Sources : CreateMedia(w, h, src)
            \/ \E u \in Uploads, src \in Sources : InitiateUpload(w, u, h, src)
            \/ \E u \in Uploads : StoreRead(w, u, h)
            \/ \E d \in Derivs : RequestDerivative(w, d, h)
            \/ \E G \in SUBSET MGroups : TaxonomyRead(w, h, G)
            \/ RenderRead(w, h)
        \/ \E u \in Uploads : CompleteRead(w, u)
        \/ \E d \in Derivs, ok \in BOOLEAN, h \in Sources : RecordResult(w, d, ok, h)
        \/ \E g \in MGroups : CreateGroup(w, g) \/ DeleteGroup(w, g)
        \/ \E k \in TaskKeys, g \in MGroups, n \in 1 .. 2 : FreezeRead(w, k, g, n)
    \/ \E u \in Uploads : UploadExpires(u) \/ PresignedPut(u)
-----------------------------------------------------------------------------
(* The object of an asset registered by an upload or a rendering holds the *)
(* bytes of the asset's digest, also when bytes are put late: after the    *)
(* upload that was read as pending has been completed.                     *)
AssetBytesMatch ==
    \A h \in Digests : asset[h].reg /\ asset[h].key # Absent => object[asset[h].key] = h

(* A successful derivative leads back to its source: its output is an      *)
(* asset of that source.                                                   *)
DerivativeTraceable ==
    \A d \in Derivs : deriv[d].state = "SUCCEEDED" =>
        asset[deriv[d].out].reg /\ asset[deriv[d].out].src = deriv[d].src
=============================================================================
