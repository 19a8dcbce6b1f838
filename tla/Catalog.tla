------------------------------- MODULE Catalog -------------------------------
(***************************************************************************)
(* Products, content items, their groups and imports: ControlService of    *)
(* services.py (create_product() .. remove_content_group_member()) and     *)
(* features/content_io.  Rows are tenant-scoped and one tenant is          *)
(* modelled.  Titles, descriptions and attributes are the price here: one  *)
(* field that says whose write is in the row.                              *)
(***************************************************************************)
EXTENDS ApiRequests, FiniteSets, FiniteSetsExt

CONSTANTS Products,      \* product ids
          Spus,          \* SPU codes
          Prices,        \* values a product write carries
          Keys,          \* Idempotency-Key and importKey values
          ContentItems,  \* content items
          Groups,        \* product groups and content groups
          Seeded,        \* products that exist at the start
          SpuOf          \* SpuOf[p]: SPU code of a product that exists at the start

ASSUME CatalogAssumption ==
    /\ Seeded \subseteq Products /\ SpuOf \in [Seeded -> Spus]
    /\ \A p, q \in Seeded : SpuOf[p] = SpuOf[q] => p = q

VARIABLES
    product,    \* product rows; status NONE: no row
    pgroup,     \* product_group_membership: pairs of group and product
    keyed,      \* product.created audit rows: key, requested SPU, product
    imports,    \* import keys with an applied audit row
    plan,       \* state of the publish plan of a product: NONE, OPEN or CLOSED
    content,    \* content rows: status and revision numbers
    cgroup,     \* content_group_membership: pairs of group and content
    posted,     \* mobile tasks of dispatch_post_to_xianyu: content, revision
    revisions,  \* history: every revision a product row has had, with its content
    batched     \* history: products a batch request has written

catalogVars == <<product, pgroup, keyed, imports, plan, content, cgroup, posted,
                 revisions, batched>>
contentVars == <<content, cgroup, posted>>
productVars == <<product, pgroup, keyed, imports, plan, revisions, batched>>

NoProduct == [status |-> "NONE", spu |-> CHOOSE s \in Spus : TRUE,
              price |-> CHOOSE x \in Prices : TRUE, media |-> {}, rev |-> 0]

NewProduct(s, x, ms) ==
    [status |-> "ACTIVE", spu |-> s, price |-> x, media |-> ms, rev |-> 1]

(* What a revision number stands for: everything but the number.           *)
Body(r) == [status |-> r.status, spu |-> r.spu, price |-> r.price, media |-> r.media]

CatalogInit ==
    /\ product = [p \in Products |->
                    IF p \in Seeded THEN NewProduct(SpuOf[p], CHOOSE x \in Prices : TRUE, {})
                                    ELSE NoProduct]
    /\ pgroup = {} /\ keyed = {} /\ imports = {}
    /\ plan = [p \in Products |-> "NONE"]
    /\ content = [c \in ContentItems |-> [status |-> "NONE", revs |-> {}]]
    /\ cgroup = {} /\ posted = {}
    /\ revisions = [p \in Products |->
                  IF p \in Seeded THEN {<<1, Body(product[p])>>} ELSE {}]
    /\ batched = {}

Exists(p) == product[p].status # "NONE"
ActiveProduct(p) == product[p].status = "ACTIVE"
SpuTaken(s) == \E p \in Products : Exists(p) /\ product[p].spu = s

(* Rows written by a committing request: f[p] is the new row of p.         *)
Write(S, f) ==
    /\ product' = [p \in Products |-> IF p \in S THEN f[p] ELSE product[p]]
    /\ revisions' = [p \in Products |->
                   IF p \in S THEN revisions[p] \cup {<<f[p].rev, Body(f[p])>>} ELSE revisions[p]]

-----------------------------------------------------------------------------
(* Products                                                                *)

(* create_product(): an Idempotency-Key already used for the same request  *)
(* answers with that product, for another request is refused; the SPU must *)
(* be free.  Nothing is locked.                                            *)
CreateRead(w, k, s, x, ms) ==
    /\ ~ \E e \in keyed : e.key = k
    /\ ~ SpuTaken(s)
    /\ Begin(w, [op |-> "CREATE", key |-> k, row |-> NewProduct(s, x, ms)])
    /\ UNCHANGED catalogVars

(* The insert: unique (tenant_id, spu_code) rolls the request back.        *)
CreateCommit(w) ==
    /\ req[w].op = "CREATE"
    /\ End(w)
    /\ \/ /\ SpuTaken(req[w].row.spu)
          /\ UNCHANGED <<product, revisions, keyed>>
       \/ /\ ~ SpuTaken(req[w].row.spu)
          /\ \E p \in Products :
                /\ ~ Exists(p)
                /\ Write({p}, [q \in {p} |-> req[w].row])
                /\ keyed' = keyed \cup {[key |-> req[w].key, spu |-> req[w].row.spu,
                                         product |-> p]}
    /\ UNCHANGED <<pgroup, imports, plan, batched, contentVars>>

(* Mutant: update_product_media() forgets to bump the revision.            *)
NextRevKept(rev) == rev

NextRev(rev) == rev + 1

(* update_product(): row locked, expectedRevision checked, fields, SPU and *)
(* media list replaced together.  An archived product may be edited.       *)
UpdateProduct(w, p, rev, s, x, ms) ==
    /\ Exists(p) /\ product[p].rev = rev
    /\ \A q \in Products \ {p} : Exists(q) => product[q].spu # s
    /\ AtOnce(w)
    /\ Write({p}, [q \in {p} |-> [product[p] EXCEPT !.spu = s, !.price = x, !.media = ms,
                                                    !.rev = @ + 1]])
    /\ UNCHANGED <<pgroup, keyed, imports, plan, batched, contentVars>>

(* update_product_media(): row locked, expectedRevision checked.           *)
UpdateProductMedia(w, p, rev, ms) ==
    /\ Exists(p) /\ product[p].rev = rev
    /\ AtOnce(w)
    /\ Write({p}, [q \in {p} |-> [product[p] EXCEPT !.media = ms, !.rev = NextRev(@)]])
    /\ UNCHANGED <<pgroup, keyed, imports, plan, batched, contentVars>>

(* archive_product(): row locked, refused while an open plan refers to it. *)
ArchiveProduct(w, p) ==
    /\ ActiveProduct(p) /\ plan[p] # "OPEN"
    /\ AtOnce(w)
    /\ Write({p}, [q \in {p} |-> [product[p] EXCEPT !.status = "ARCHIVED", !.rev = @ + 1]])
    /\ UNCHANGED <<pgroup, keyed, imports, plan, batched, contentVars>>

(* The batch requests read their ACTIVE rows without a lock.               *)
BatchRead(w, kind, S, x) ==
    /\ S # {} /\ \A p \in S : ActiveProduct(p)
    /\ Begin(w, [op |-> kind, rows |-> [p \in S |-> product[p]], price |-> x])
    /\ UNCHANGED catalogVars

(* They write the columns they change, computed from the rows as read.     *)
BatchCommit(w, f) ==
    /\ LET S == DOMAIN req[w].rows
       IN  /\ Write(S, [p \in S |-> [f[p] EXCEPT !.rev = req[w].rows[p].rev + 1]])
           /\ batched' = batched \cup S
    /\ End(w)
    /\ UNCHANGED <<pgroup, keyed, imports, plan, contentVars>>

BatchUpdatePrice(w) ==
    /\ req[w].op = "BATCH_PRICE"
    /\ BatchCommit(w, [p \in Products |-> [product[p] EXCEPT !.price = req[w].price]])

(* batch_delete_products() does not ask for open plans.                    *)
BatchDelete(w) ==
    /\ req[w].op = "BATCH_DELETE"
    /\ BatchCommit(w, [p \in Products |-> [product[p] EXCEPT !.status = "ARCHIVED"]])

(* batch_update_product_group(): the memberships it saw go, the new one    *)
(* comes; unique (group_id, product_id) rolls it back.                     *)
BatchGroupRead(w, g, S) ==
    /\ S # {} /\ \A p \in S : ActiveProduct(p)
    /\ Begin(w, [op |-> "BATCH_GROUP", group |-> g, prods |-> S,
                 seen |-> {m \in pgroup : m[2] \in S}])
    /\ UNCHANGED catalogVars

BatchGroupWrite(w) ==
    /\ req[w].op = "BATCH_GROUP"
    /\ LET kept == pgroup \ req[w].seen
           new  == {req[w].group} \X req[w].prods
       IN  pgroup' = IF kept \cap new = {} THEN kept \cup new ELSE pgroup
    /\ End(w)
    /\ UNCHANGED <<product, keyed, imports, plan, revisions, batched, contentVars>>

(* An import reads which of its SPU codes exist; those rows are skipped.   *)
ImportRead(w, k, S, grouped) ==
    /\ S # {}
    /\ Begin(w, [op |-> "IMPORT", key |-> k, grouped |-> grouped,
                 spus |-> {s \in S : ~ SpuTaken(s)}])
    /\ UNCHANGED catalogVars

(* import_products() has no key.                                           *)
ImportProducts(w, S, grouped) == ImportRead(w, "NONE", S, grouped)

(* content_io run_import(): a key that was applied is replayed; codes that *)
(* the file repeats are errors and skipped; a dry run writes nothing.      *)
RunImport(w, k, S, grouped) == k \notin imports /\ ImportRead(w, k, S, grouped)

(* A taken SPU breaks the unique constraint.  A row with a group writes a  *)
(* content_group_membership that names the product as content, which the   *)
(* foreign key refuses.                                                    *)
ImportRefused(r) ==
    \/ \E s \in r.spus : SpuTaken(s)
    \/ r.grouped /\ r.spus # {}

ImportCommit(w) ==
    /\ req[w].op = "IMPORT"
    /\ End(w)
    /\ \/ /\ ImportRefused(req[w])
          /\ UNCHANGED <<product, revisions, imports>>
       \/ /\ ~ ImportRefused(req[w])
          /\ imports' = imports \cup ({req[w].key} \ {"NONE"})
          /\ \E ids \in kSubset(Cardinality(req[w].spus), {p \in Products : ~ Exists(p)}) :
             \E f \in [ids -> req[w].spus] :
                /\ \A s \in req[w].spus : \E p \in ids : f[p] = s
                /\ Write(ids, [p \in ids |-> NewProduct(f[p], NoProduct.price, {})])
    /\ UNCHANGED <<pgroup, keyed, plan, batched, contentVars>>

(* create_plan() and submit_plan() read that the product is ACTIVE without *)
(* locking it; the plan is closed when its workflow ends.                  *)
PlanRead(w, p) ==
    /\ ActiveProduct(p) /\ plan[p] = "NONE"
    /\ Begin(w, [op |-> "PLAN", product |-> p])
    /\ UNCHANGED catalogVars

PlanOpen(w) ==
    /\ req[w].op = "PLAN"
    /\ plan' = [plan EXCEPT ![req[w].product] = IF @ = "NONE" THEN "OPEN" ELSE @]
    /\ End(w)
    /\ UNCHANGED <<product, pgroup, keyed, imports, revisions, batched, contentVars>>

PlanClose(p) ==
    /\ plan[p] = "OPEN" /\ plan' = [plan EXCEPT ![p] = "CLOSED"]
    /\ UNCHANGED <<product, pgroup, keyed, imports, revisions, batched, contentVars, reqVars>>
-----------------------------------------------------------------------------
(* Content                                                                 *)

(* _assign_content_group(): in group g, and in no other it can see.        *)
AssignGroup(c, g) == {m \in cgroup : m[2] # c} \cup {<<g, c>>}

CreateContent(w, c, g) ==
    /\ content[c].status = "NONE"
    /\ AtOnce(w)
    /\ content' = [content EXCEPT ![c] = [status |-> "ACTIVE", revs |-> {1}]]
    /\ cgroup' = AssignGroup(c, g)
    /\ UNCHANGED <<posted, productVars>>

(* Mutant: next_revision_no() counts from the number it inserts.           *)
NextRevisionNoGap(c) == Max(content[c].revs \cup {0}) + 2

(* repository.next_revision_no()                                           *)
NextRevisionNo(c) == Max(content[c].revs \cup {0}) + 1

(* add_revision(): status and highest number are read without a lock.      *)
AddRevisionRead(w, c, g) ==
    /\ content[c].status = "ACTIVE"
    /\ Begin(w, [op |-> "REVISION", content |-> c, no |-> NextRevisionNo(c), group |-> g])
    /\ UNCHANGED catalogVars

(* unique (content_id, revision_no) rolls the second of two writers back.  *)
AddRevisionCommit(w) ==
    /\ req[w].op = "REVISION"
    /\ LET c == req[w].content  n == req[w].no
       IN  IF n \in content[c].revs
             THEN UNCHANGED <<content, cgroup>>
             ELSE /\ content' = [content EXCEPT ![c].revs = @ \cup {n}]
                  /\ cgroup' = AssignGroup(c, req[w].group)
    /\ End(w)
    /\ UNCHANGED <<posted, productVars>>

ArchiveContent(w, c) ==
    /\ content[c].status = "ACTIVE"
    /\ AtOnce(w)
    /\ content' = [content EXCEPT ![c].status = "ARCHIVED"]
    /\ UNCHANGED <<cgroup, posted, productVars>>

(* add_content_group_member(), remove_content_group_member()               *)
AddMember(w, c, g) ==
    /\ content[c].status # "NONE" /\ AtOnce(w)
    /\ cgroup' = cgroup \cup {<<g, c>>}
    /\ UNCHANGED <<content, posted, productVars>>

RemoveMember(w, c, g) ==
    /\ <<g, c>> \in cgroup /\ AtOnce(w)
    /\ cgroup' = cgroup \ {<<g, c>>}
    /\ UNCHANGED <<content, posted, productVars>>

(* dispatch_post_to_xianyu(): reads the content and its latest revision;   *)
(* the mobile task is created by a second transaction whose key is the     *)
(* content and the revision, so a repeated request creates nothing.        *)
DispatchRead(w, c) ==
    /\ content[c].status = "ACTIVE"
    /\ Begin(w, [op |-> "DISPATCH", content |-> c, no |-> Max(content[c].revs)])
    /\ UNCHANGED catalogVars

DispatchCommit(w) ==
    /\ req[w].op = "DISPATCH"
    /\ posted' = posted \cup {<<req[w].content, req[w].no>>}
    /\ End(w)
    /\ UNCHANGED <<content, cgroup, productVars>>
-----------------------------------------------------------------------------
CatalogNext(registered) ==
    \/ \E w \in Workers :
        \/ \E k \in Keys, s \in Spus, x \in Prices, ms \in SUBSET registered :
               CreateRead(w, k, s, x, ms)
        \/ CreateCommit(w) \/ BatchUpdatePrice(w) \/ BatchDelete(w)
        \/ BatchGroupWrite(w) \/ ImportCommit(w)
        \/ PlanOpen(w) \/ AddRevisionCommit(w) \/ DispatchCommit(w)
        \/ \E p \in Products :
            \/ ArchiveProduct(w, p) \/ PlanRead(w, p)
            \/ \E s \in Spus, x \in Prices, ms \in SUBSET registered :
                   UpdateProduct(w, p, product[p].rev, s, x, ms)
            \/ \E ms \in SUBSET registered : UpdateProductMedia(w, p, product[p].rev, ms)
        \/ \E S \in SUBSET Products :
            \/ \E x \in Prices : BatchRead(w, "BATCH_PRICE", S, x)
            \/ BatchRead(w, "BATCH_DELETE", S, NoProduct.price)
            \/ \E g \in Groups : BatchGroupRead(w, g, S)
        \/ \E S \in SUBSET Spus, b \in BOOLEAN :
            \/ ImportProducts(w, S, b)
            \/ \E k \in Keys : RunImport(w, k, S, b)
        \/ \E c \in ContentItems :
            \/ ArchiveContent(w, c) \/ DispatchRead(w, c)
            \/ \E g \in Groups : \/ CreateContent(w, c, g) \/ AddRevisionRead(w, c, g)
                                 \/ AddMember(w, c, g) \/ RemoveMember(w, c, g)
    \/ \E p \in Products : PlanClose(p)
-----------------------------------------------------------------------------
(* A product that only requests with a row lock and an expectedRevision    *)
(* have written: its revision number stands for one content, so an editor  *)
(* who presents the number it read overwrites nothing it has not seen.     *)
(* (The batch requests do not keep this.)                                  *)
RevisionNamesContent ==
    \A p \in Products \ batched : \A a, b \in revisions[p] : a[1] = b[1] => a = b

(* The revisions of a content item are numbered without a gap, although    *)
(* concurrent add_revision() requests read the same highest number.        *)
RevisionsContiguous ==
    \A c \in ContentItems : content[c].revs = 1 .. Cardinality(content[c].revs)
=============================================================================
