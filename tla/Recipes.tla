------------------------------ MODULE Recipes ------------------------------
(***************************************************************************)
(* The automation registry: staged promotion of automation packages and    *)
(* the deployment of recipe packages to devices (services.py), with the    *)
(* pin a task takes at its first claim (mobile_service.py).  A slot is a   *)
(* device and a command type of the recipe; a request changes all its      *)
(* slots or none.  Recipe requests lock the devices, a promotion locks     *)
(* nothing.                                                                *)
(***************************************************************************)
EXTENDS ApiRequests, Sequences

CONSTANTS Recipe,        \* recipe versions, numbers from 1
          Slots,         \* device and command type
          ActionKeys,    \* idempotency keys of deployment requests
          Configs        \* configurations of a feature

ASSUME RecipeAssumption == Recipe \subseteq Nat \ {0} /\ Configs # {}

VARIABLES registered,    \* recipe versions in the registry
          current,       \* current[s]: version PUBLISHED in the slot, or 0
          past,          \* past[s]: versions with a REVOKED row in the slot
          spent,         \* spent[k]: request stored under the action key
          acted,         \* history: requests in the order of their first commit
          job,           \* job[s]: a task that needs the slot, and its pin
          pct,           \* rollout_percentage of an automation package, -1: no row
          qualified,     \* its production_qualified
          cleared,       \* history: stages it was promoted to
          featureDraft,  \* the configuration draft of a feature, version 0: no row
          draftsSaved    \* history: versions and configurations clients were told

deployVars == <<registered, current, past, spent, acted>>
promoteVars == <<pct, qualified, cleared>>
recipeVars == <<deployVars, job>>
draftVars == <<featureDraft, draftsSaved>>

Stages == <<0, 5, 25, 100>>
NoAction == [act |-> "NONE", v |-> 0, slots |-> {}, expected |-> 0]
NoJob == [state |-> "NONE", pin |-> 0, pinned |-> FALSE]

(* The requests a client makes; expected is given to a rollback only.      *)
Requests ==
    [act : {"publish", "revoke"}, v : Recipe, slots : SUBSET Slots \ {{}}, expected : {0}]
    \cup [act : {"rollback"}, v : Recipe, slots : SUBSET Slots \ {{}}, expected : Recipe]

RecipesInit ==
    /\ registered = {}
    /\ current = [s \in Slots |-> 0] /\ past = [s \in Slots |-> {}]
    /\ spent = [k \in ActionKeys |-> NoAction] /\ acted = <<>>
    /\ job = [s \in Slots |-> NoJob]

PackagesInit == pct = -1 /\ qualified = FALSE /\ cleared = {}

(* register_recipe(): name and version are unique; a repeat is answered.   *)
RegisterRecipe(w, v) ==
    /\ AtOnce(w)
    /\ v \notin registered /\ registered' = registered \cup {v}
    /\ UNCHANGED <<current, past, spent, acted, job>>

(* What a request does to one slot.                                        *)
SlotAfter(r, cur) ==
    CASE r.act = "revoke" -> IF cur = r.v THEN 0 ELSE cur
      [] OTHER -> r.v

(* A rollback names the version it replaces and one the slot had before.   *)
(* Mutant: any registered version may be rolled back to.                   *)
RollbackUnchecked(r, s) == current[s] = r.expected /\ r.v # r.expected
RollbackAllowed(r, s) ==
    current[s] = r.expected /\ r.v # r.expected /\ r.v \in past[s]

(* Mutant: the request of a known key is carried out again.                *)
KeyNeverSpent(k) == TRUE
KeyUnspent(k) == spent[k] = NoAction

(* _change_recipe(): a known key replays its answer (or is refused, for    *)
(* another request), a new one is carried out in all slots.                *)
ChangeRecipe(w, k, r) ==
    /\ AtOnce(w)
    /\ KeyUnspent(k) /\ spent[k] \in {NoAction, r}
    /\ r.v \in registered
    /\ r.act = "rollback" => \A s \in r.slots : RollbackAllowed(r, s)
    /\ current' = [s \in Slots |-> IF s \in r.slots THEN SlotAfter(r, current[s]) ELSE current[s]]
    /\ past' = [s \in Slots |->
                  IF s \in r.slots /\ current[s] # 0 /\ current'[s] # current[s]
                  THEN past[s] \cup {current[s]} ELSE past[s]]
    /\ spent' = [spent EXCEPT ![k] = r]
    /\ acted' = IF spent[k] = NoAction THEN Append(acted, r) ELSE acted
    /\ UNCHANGED <<registered, job>>

-----------------------------------------------------------------------------
(* A task of the slot is queued, claimed, loses its lease or ends.  The    *)
(* first claim pins what is published then (0: the builtin recipe).        *)
PinAtClaim(s) == IF job[s].pinned THEN job[s].pin ELSE current[s]

JobMoves(s) ==
    /\ \/ /\ job[s].state \in {"NONE", "DONE"}
          /\ job' = [job EXCEPT ![s] = [NoJob EXCEPT !.state = "QUEUED"]]
       \/ /\ job[s].state = "QUEUED"
          /\ job' = [job EXCEPT ![s] = [state |-> "CLAIMED", pin |-> PinAtClaim(s),
                                        pinned |-> TRUE]]
       \/ /\ job[s].state = "CLAIMED"
          /\ \E st \in {"QUEUED", "DONE"} : job' = [job EXCEPT ![s].state = st]
    /\ UNCHANGED <<reqVars, deployVars>>

(* list_active_recipes() and download_recipe(): the published version and  *)
(* the one a task that is not final has pinned.                            *)
(* Mutant: only what is published is served.                               *)
ServedPublished(s) == {current[s]} \ {0}
Served(s) ==
    ({current[s]} \cup (IF job[s].state \in {"QUEUED", "CLAIMED"} THEN {job[s].pin} ELSE {})) \ {0}

-----------------------------------------------------------------------------
(* promote_automation(): evaluate_rollout_promotion() judges the stage it  *)
(* read and the evidence handed in.                                        *)
(* Mutant: a stage may be skipped.                                         *)
NextStageSkipping(from, to) == to > from
NextStage(from, to) ==
    \E i \in 1..(Len(Stages) - 1) : from = Stages[i] /\ to = Stages[i + 1]

(* register_automation(): manifest and signature have been verified; name  *)
(* and version are unique, and the rollout starts at nothing.              *)
RegisterAutomation(w) ==
    /\ AtOnce(w)
    /\ pct = -1
    /\ pct' = 0 /\ qualified' = FALSE /\ cleared' = {0}

PromoteRead(w) ==
    /\ pct # -1 /\ Begin(w, [op |-> "PROMOTE", saw |-> [pct |-> pct, qualified |-> qualified]])
    /\ UNCHANGED promoteVars

(* Only changed columns are written: production_qualified is when it       *)
(* differs from what this request read.                                    *)
PromoteCommit(w, to) ==
    LET saw == req[w].saw IN
    /\ req[w].op = "PROMOTE"
    /\ IF NextStage(saw.pct, to)
       THEN /\ pct' = to /\ cleared' = cleared \cup {to}
            /\ qualified' = IF (to = 100) # saw.qualified THEN to = 100 ELSE qualified
       ELSE UNCHANGED promoteVars
    /\ End(w)

PackagesNext ==
    \E w \in Workers :
       \/ RegisterAutomation(w) \/ PromoteRead(w)
       \/ \E to \in {5, 25, 100} : PromoteCommit(w, to)

RecipesNext ==
    \/ \E w \in Workers :
          \/ \E v \in Recipe : RegisterRecipe(w, v)
          \/ \E k \in ActionKeys, r \in Requests : ChangeRecipe(w, k, r)
    \/ \E s \in Slots : JobMoves(s)

(* Feature configuration drafts (operation_service.py)                     *)
DraftsInit == featureDraft = [version |-> 0, config |-> CHOOSE c \in Configs : TRUE] /\ draftsSaved = {}

(* put_feature_config_draft(): the client names the version it has seen;   *)
(* one that is not the version in the table is refused at once ...         *)
DraftRead(w, c) ==
    /\ Begin(w, [op |-> "DRAFT", expected |-> featureDraft.version, config |-> c])
    /\ UNCHANGED draftVars

(* ... and once more by the write: the unique key of a first insert, the   *)
(* WHERE version = expected of update_feature_config_draft() afterwards.   *)
(* Mutant: the update finds its row by id alone.                           *)
DraftCurrentById(expected) == expected = 0 => featureDraft.version = 0
DraftCurrent(expected) == featureDraft.version = expected

DraftWrite(w) ==
    LET new == [version |-> req[w].expected + 1, config |-> req[w].config] IN
    /\ req[w].op = "DRAFT"
    /\ IF DraftCurrent(req[w].expected)
       THEN featureDraft' = new /\ draftsSaved' = draftsSaved \cup {new}
       ELSE UNCHANGED draftVars
    /\ End(w)

DraftsNext == \E w \in Workers : (\E c \in Configs : DraftRead(w, c)) \/ DraftWrite(w)

-----------------------------------------------------------------------------
(* The versions a slot goes through, one after each accepted request.      *)
PassesThrough(s, h) ==
    /\ h[0] = 0
    /\ \A i \in DOMAIN acted :
          h[i] = IF s \in acted[i].slots THEN SlotAfter(acted[i], h[i - 1]) ELSE h[i - 1]

(* What a slot runs is the outcome of the distinct requests in the order   *)
(* they were first accepted: a retry that arrives after later requests     *)
(* brings nothing back.  A rollback returned every slot to a version it    *)
(* had run before.                                                         *)
DeploymentFollowsActions ==
    \A s \in Slots : \E h \in [0..Len(acted) -> Recipe \cup {0}] :
       /\ PassesThrough(s, h) /\ current[s] = h[Len(acted)]
       /\ \A i \in DOMAIN acted :
             acted[i].act = "rollback" /\ s \in acted[i].slots =>
                \E j \in 1..(i - 1) : h[j] = acted[i].v

(* Once claimed, a task can download the version it was claimed with until *)
(* it is final, whatever is published, revoked or rolled back meanwhile.   *)
PinServed ==
    \A s \in Slots :
       job[s].pinned /\ job[s].state # "DONE" /\ job[s].pin # 0 => job[s].pin \in Served(s)

(* A package is production-qualified only after every stage was cleared,   *)
(* however promotions of the same package overlap.                         *)
StagedPromotion == qualified \/ pct = 100 => cleared = {0, 5, 25, 100}

(* Of two clients that edit the same version of a draft one is told so:    *)
(* the versions told to clients are consecutive, and each has one          *)
(* configuration, the last of which is in the table.                       *)
DraftsNotLost ==
    /\ \A a, b \in draftsSaved : a.version = b.version => a = b
    /\ {a.version : a \in draftsSaved} = 1..featureDraft.version
    /\ featureDraft.version > 0 => featureDraft \in draftsSaved

(* The registry: deployments, the versions of running tasks, the staged    *)
(* promotion of packages and the drafts of feature configurations.         *)
RegistrySound == DeploymentFollowsActions /\ PinServed /\ StagedPromotion /\ DraftsNotLost
=============================================================================
