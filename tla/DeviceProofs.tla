----------------------------- MODULE DeviceProofs -----------------------------
(***************************************************************************)
(* Invariants of the fleet services that act on devices: the automation    *)
(* registry, the edge Companion, fleet identity, live control, the install *)
(* window, the LAMDA driver, the control feed and the step scripts.  As in *)
(* FleetProofs, whose lemmas about requests are used here, the inductive   *)
(* invariant of a service is claimed while it is the one that runs.        *)
(***************************************************************************)
EXTENDS FleetProofs

-----------------------------------------------------------------------------
(* Automation registry                                                     *)

(* What a slot ran before is among the versions it went through.           *)
SlotHistory(s, h) ==
    /\ h \in [0 .. Len(acted) -> Recipe \cup {0}]
    /\ PassesThrough(s, h) /\ current[s] = h[Len(acted)]
    /\ \A v \in past[s] \ {0} : \E j \in 1 .. Len(acted) : h[j] = v
    /\ \A i \in DOMAIN acted :
          acted[i].act = "rollback" /\ s \in acted[i].slots => \E j \in 1 .. (i - 1) : h[j] = acted[i].v

DeployInv ==
    /\ DOMAIN current = Slots /\ DOMAIN past = Slots
    /\ acted \in Seq(Requests)
    /\ \A s \in Slots : \E h \in [0 .. Len(acted) -> Recipe \cup {0}] : SlotHistory(s, h)
    /\ DOMAIN job = Slots
    /\ \A s \in Slots : /\ job[s].state \in {"NONE", "QUEUED", "CLAIMED", "DONE"}
                        /\ job[s].state = "NONE" => job[s] = NoJob

LEMMA DeployStart == RecipesInit => DeployInv
<1> SUFFICES ASSUME RecipesInit PROVE DeployInv
  OBVIOUS
<1>1. acted = <<>> /\ acted \in Seq(Requests) /\ Len(acted) = 0 /\ DOMAIN acted = {}
  BY DEF RecipesInit
<1>2. ASSUME NEW s \in Slots PROVE \E h \in [0 .. Len(acted) -> Recipe \cup {0}] : SlotHistory(s, h)
  <2> DEFINE h == [n \in 0 .. Len(acted) |-> 0]
  <2>1. h \in [0 .. Len(acted) -> Recipe \cup {0}] /\ h[0] = 0
    BY <1>1
  <2>2. current[s] = 0 /\ past[s] = {}
    BY <1>2 DEF RecipesInit
  <2>3. SlotHistory(s, h)
    BY <1>1, <2>1, <2>2 DEF SlotHistory, PassesThrough
  <2> QED BY <2>1, <2>3
<1>3. \A s \in Slots : job[s] = NoJob /\ NoJob.state = "NONE"
  BY DEF RecipesInit, NoJob
<1> QED BY <1>1, <1>2, <1>3 DEF DeployInv, RecipesInit

LEMMA DeploySound == DeployInv => DeploymentFollowsActions /\ PinServed
<1> SUFFICES ASSUME DeployInv PROVE DeploymentFollowsActions /\ PinServed
  OBVIOUS
<1>1. DeploymentFollowsActions
  BY DEF DeployInv, SlotHistory, DeploymentFollowsActions
<1>2. ASSUME NEW s \in Slots, job[s].pinned, job[s].state # "DONE", job[s].pin # 0 PROVE job[s].pin \in Served(s)
  <2>1. job[s].state # "NONE"
    BY <1>2 DEF DeployInv, NoJob
  <2>2. job[s].state \in {"QUEUED", "CLAIMED"}
    BY <1>2, <2>1 DEF DeployInv
  <2> QED BY <1>2, <2>2 DEF Served
<1> QED BY <1>1, <1>2 DEF PinServed

LEMMA RequestVersion ==
  ASSUME NEW r \in Requests
  PROVE  /\ r.v \in Recipe /\ r.act \in {"publish", "revoke", "rollback"} /\ r # NoAction
         /\ \A cur \in Recipe \cup {0} : SlotAfter(r, cur) \in Recipe \cup {0}
<1>1. r.v \in Recipe /\ r.act \in {"publish", "revoke", "rollback"}
  BY DEF Requests
<1>2. NoAction.act = "NONE"
  BY DEF NoAction
<1> QED BY <1>1, <1>2 DEF SlotAfter

LEMMA ChangeRecipeInv ==
  ASSUME DeployInv, NEW w, NEW k \in ActionKeys, NEW r \in Requests, ChangeRecipe(w, k, r)
  PROVE  DeployInv'
<1> DEFINE n == Len(acted)
<1>1. /\ spent[k] = NoAction
      /\ r.act = "rollback" => \A s \in r.slots : RollbackAllowed(r, s)
      /\ current' = [s \in Slots |-> IF s \in r.slots THEN SlotAfter(r, current[s]) ELSE current[s]]
      /\ past' = [s \in Slots |-> IF s \in r.slots /\ current[s] # 0 /\ current'[s] # current[s]
                                  THEN past[s] \cup {current[s]} ELSE past[s]]
      /\ UNCHANGED job
  BY DEF ChangeRecipe, KeyUnspent
<1>2. acted' = Append(acted, r)
  BY DEF ChangeRecipe, KeyUnspent
<1>3. /\ acted \in Seq(Requests) /\ acted' \in Seq(Requests) /\ n \in Nat /\ Len(acted') = n + 1
      /\ acted'[n + 1] = r /\ \A i \in 1 .. n : acted'[i] = acted[i]
      /\ DOMAIN acted = 1 .. n /\ DOMAIN acted' = 1 .. (n + 1)
  BY <1>2 DEF DeployInv
<1>4. ASSUME NEW s \in Slots PROVE \E h \in [0 .. Len(acted') -> Recipe \cup {0}] : SlotHistory(s, h)'
  <2>1. PICK g \in [0 .. n -> Recipe \cup {0}] : SlotHistory(s, g)
    BY DEF DeployInv
  <2>2. /\ g[0] = 0 /\ current[s] = g[n] /\ current[s] \in Recipe \cup {0}
        /\ \A i \in 1 .. n : g[i] = IF s \in acted[i].slots THEN SlotAfter(acted[i], g[i - 1]) ELSE g[i - 1]
        /\ \A v \in past[s] \ {0} : \E j \in 1 .. n : g[j] = v
        /\ \A i \in 1 .. n :
              acted[i].act = "rollback" /\ s \in acted[i].slots => \E j \in 1 .. (i - 1) : g[j] = acted[i].v
    BY <1>3, <2>1 DEF SlotHistory, PassesThrough
  <2>3. current'[s] = IF s \in r.slots THEN SlotAfter(r, current[s]) ELSE current[s]
    BY <1>1
  <2>4. current'[s] \in Recipe \cup {0}
    BY <2>2, <2>3, RequestVersion
  <2>5. PICK h \in [0 .. (n + 1) -> Recipe \cup {0}] : h[n + 1] = current'[s] /\ \A i \in 0 .. n : h[i] = g[i]
    <3> DEFINE f == [i \in 0 .. (n + 1) |-> IF i <= n THEN g[i] ELSE current'[s]]
    <3>1. f \in [0 .. (n + 1) -> Recipe \cup {0}] /\ f[n + 1] = current'[s] /\ \A i \in 0 .. n : f[i] = g[i]
      BY <1>3, <2>4
    <3> HIDE DEF f
    <3> QED BY <3>1
  <2>6. ASSUME NEW i \in 1 .. (n + 1)
        PROVE  h[i] = IF s \in acted'[i].slots THEN SlotAfter(acted'[i], h[i - 1]) ELSE h[i - 1]
    <3>1. CASE i = n + 1
      BY <1>3, <2>2, <2>3, <2>5, <3>1
    <3>2. CASE i \in 1 .. n
      <4>1. i - 1 \in 0 .. n /\ i \in 0 .. n
        BY <1>3, <3>2
      <4> QED BY <1>3, <2>2, <2>5, <3>2, <4>1
    <3> QED BY <1>3, <3>1, <3>2
  <2>7. current[s] # 0 => n \in 1 .. n
    BY <1>3, <2>2
  <2>8. ASSUME NEW v \in past'[s], v # 0 PROVE \E j \in 1 .. (n + 1) : h[j] = v
    <3>1. v \in past[s] \/ v = current[s]
      BY <1>1, <2>8
    <3>2. PICK j \in 1 .. n : g[j] = v
      BY <2>2, <2>7, <2>8, <3>1
    <3> QED BY <1>3, <2>5, <3>2
  <2>9. ASSUME NEW i \in 1 .. (n + 1), acted'[i].act = "rollback", s \in acted'[i].slots
        PROVE  \E j \in 1 .. (i - 1) : h[j] = acted'[i].v
    <3>1. CASE i = n + 1
      <4>1. r.v \in past[s] /\ r.v # 0
        BY <1>1, <1>3, <2>9, <3>1, RequestVersion, RecipeAssumption DEF RollbackAllowed
      <4>2. PICK j \in 1 .. n : g[j] = r.v
        BY <2>2, <4>1
      <4> QED BY <1>3, <2>5, <3>1, <4>2
    <3>2. CASE i \in 1 .. n
      <4>1. PICK j \in 1 .. (i - 1) : g[j] = acted[i].v
        BY <1>3, <2>2, <2>9, <3>2
      <4>2. j \in 0 .. n /\ acted'[i] = acted[i]
        BY <1>3, <3>2
      <4> QED BY <2>5, <4>1, <4>2
    <3> QED BY <1>3, <3>1, <3>2
  <2>10. h[0] = 0
    BY <1>3, <2>2, <2>5
  <2>11. SlotHistory(s, h)'
    <3>1. PassesThrough(s, h)'
      BY <1>3, <2>6, <2>10 DEF PassesThrough
    <3>2. \A v \in past'[s] \ {0} : \E j \in 1 .. (n + 1) : h[j] = v
      BY <2>8
    <3>3. \A i \in DOMAIN acted' :
             acted'[i].act = "rollback" /\ s \in acted'[i].slots => \E j \in 1 .. (i - 1) : h[j] = acted'[i].v
      BY <1>3, <2>9
    <3> QED BY <1>3, <2>5, <3>1, <3>2, <3>3 DEF SlotHistory
  <2> QED BY <1>3, <2>5, <2>11
<1> QED BY <1>1, <1>3, <1>4 DEF DeployInv

LEMMA DeployKept ==
  ASSUME DeployInv, UNCHANGED <<current, past, acted>>, DOMAIN job' = Slots,
         \A s \in Slots : job'[s].state \in {"NONE", "QUEUED", "CLAIMED", "DONE"} /\ (job'[s].state = "NONE" => job'[s] = NoJob)
  PROVE  DeployInv'
<1>1. \A s \in Slots : \A h : SlotHistory(s, h)' <=> SlotHistory(s, h)
  BY DEF SlotHistory, PassesThrough
<1> QED BY <1>1 DEF DeployInv

LEMMA DeployStep == DeployInv /\ RecipesNext => DeployInv'
<1> SUFFICES ASSUME DeployInv, RecipesNext PROVE DeployInv'
  OBVIOUS
<1>1. ASSUME NEW w, NEW v, RegisterRecipe(w, v) PROVE DeployInv'
  BY <1>1, DeployKept DEF RegisterRecipe, DeployInv
<1>2. ASSUME NEW s \in Slots, JobMoves(s) PROVE DeployInv'
  <2>1. /\ UNCHANGED <<current, past, acted>> /\ DOMAIN job = Slots
        /\ \A v \in Slots : job[v].state \in {"NONE", "QUEUED", "CLAIMED", "DONE"} /\ (job[v].state = "NONE" => job[v] = NoJob)
    BY <1>2 DEF JobMoves, deployVars, DeployInv
  <2>2. DOMAIN job' = Slots /\ \A v \in Slots \ {s} : job'[v] = job[v]
    BY <1>2, <2>1 DEF JobMoves
  <2>3. job'[s].state \in {"QUEUED", "CLAIMED", "DONE"}
    <3>1. CASE job' = [job EXCEPT ![s] = [NoJob EXCEPT !.state = "QUEUED"]]
      BY <2>1, <3>1 DEF NoJob
    <3>2. CASE job' = [job EXCEPT ![s] = [state |-> "CLAIMED", pin |-> PinAtClaim(s), pinned |-> TRUE]]
      BY <2>1, <3>2
    <3>3. ASSUME NEW st \in {"QUEUED", "DONE"}, job' = [job EXCEPT ![s].state = st] PROVE job'[s].state = st
      BY <2>1, <3>3
    <3> QED BY <1>2, <3>1, <3>2, <3>3 DEF JobMoves
  <2> QED BY <2>1, <2>2, <2>3, DeployKept
<1> QED BY <1>1, <1>2, ChangeRecipeInv DEF RecipesNext

-----------------------------------------------------------------------------
(* Stages of a package                                                     *)

(* The stages cleared form an initial part of the ladder, and a promotion  *)
(* has read one of them.                                                   *)
PromoteInv ==
    /\ DOMAIN req = Workers
    /\ pct = -1 \/ pct \in cleared
    /\ cleared \in {{}, {0}, {0, 5}, {0, 5, 25}, {0, 5, 25, 100}}
    /\ pct = -1 => cleared = {}
    /\ qualified => 100 \in cleared
    /\ \A w \in Workers : req[w].op \in {"IDLE", "PROMOTE"} /\ (req[w].op = "PROMOTE" => req[w].saw.pct \in cleared)

LEMMA PromoteStart ==
  ASSUME PackagesInit
  PROVE  StagedPromotion /\ (req = [w \in Workers |-> Idle] => PromoteInv)
BY DEF PackagesInit, PromoteInv, StagedPromotion, Idle

LEMMA PromoteSound == PromoteInv => StagedPromotion
BY DEF PromoteInv, StagedPromotion

LEMMA NextStages ==
  ASSUME NEW from, NEW to, NextStage(from, to)
  PROVE  (from = 0 /\ to = 5) \/ (from = 5 /\ to = 25) \/ (from = 25 /\ to = 100)
<1>1. Len(Stages) = 4 /\ Stages[1] = 0 /\ Stages[2] = 5 /\ Stages[3] = 25 /\ Stages[4] = 100
  BY DEF Stages
<1>2. PICK i \in 1 .. 3 : from = Stages[i] /\ to = Stages[i + 1]
  BY <1>1 DEF NextStage
<1>3. CASE i = 1
  <2>1. i + 1 = 2
    BY <1>3
  <2> QED BY <1>1, <1>2, <1>3, <2>1
<1>4. CASE i = 2
  <2>1. i + 1 = 3
    BY <1>4
  <2> QED BY <1>1, <1>2, <1>4, <2>1
<1>5. CASE i = 3
  BY <1>1, <1>2, <1>5
<1> QED BY <1>3, <1>4, <1>5

LEMMA PromoteStep == PromoteInv /\ PackagesNext => PromoteInv'
<1> SUFFICES ASSUME PromoteInv, PackagesNext PROVE PromoteInv'
  OBVIOUS
<1>1. ASSUME NEW w \in Workers, RegisterAutomation(w) PROVE PromoteInv'
  BY <1>1 DEF PromoteInv, RegisterAutomation, AtOnce
<1>2. ASSUME NEW w \in Workers, PromoteRead(w) PROVE PromoteInv'
  <2> DEFINE r == [op |-> "PROMOTE", saw |-> [pct |-> pct, qualified |-> qualified]]
  <2>1. r.op = "PROMOTE" /\ r.saw.pct = pct /\ pct # -1 /\ Begin(w, r) /\ UNCHANGED <<pct, qualified, cleared>>
    BY <1>2 DEF PromoteRead, promoteVars
  <2> HIDE DEF r
  <2>2. DOMAIN req' = Workers /\ req'[w] = r /\ \A v \in Workers \ {w} : req'[v] = req[v]
    BY <2>1, BeginFacts DEF PromoteInv
  <2> QED BY <2>1, <2>2 DEF PromoteInv
<1>3. ASSUME NEW w \in Workers, NEW to \in {5, 25, 100}, PromoteCommit(w, to) PROVE PromoteInv'
  <2>1. req[w].op = "PROMOTE" /\ End(w) /\ req[w].saw.pct \in cleared
    BY <1>3 DEF PromoteCommit, PromoteInv
  <2>2. DOMAIN req' = Workers /\ req'[w].op = "IDLE" /\ \A v \in Workers \ {w} : req'[v] = req[v]
    BY <2>1, EndFacts DEF PromoteInv
  <2>3. CASE UNCHANGED promoteVars
    BY <2>2, <2>3 DEF PromoteInv, promoteVars
  <2>4. CASE NextStage(req[w].saw.pct, to) /\ pct' = to /\ cleared' = cleared \cup {to} /\ (qualified' => to = 100 \/ qualified)
    <3>1. \/ req[w].saw.pct = 0 /\ to = 5
          \/ req[w].saw.pct = 5 /\ to = 25
          \/ req[w].saw.pct = 25 /\ to = 100
      BY <2>4, NextStages
    <3>2. cleared' \in {{}, {0}, {0, 5}, {0, 5, 25}, {0, 5, 25, 100}}
      <4>1. CASE cleared = {0}
        BY <2>1, <2>4, <3>1, <4>1
      <4>2. CASE cleared = {0, 5}
        BY <2>1, <2>4, <3>1, <4>2
      <4>3. CASE cleared = {0, 5, 25}
        BY <2>1, <2>4, <3>1, <4>3
      <4>4. CASE cleared = {0, 5, 25, 100}
        BY <2>1, <2>4, <3>1, <4>4
      <4>5. cleared # {}
        BY <2>1
      <4> QED BY <4>1, <4>2, <4>3, <4>4, <4>5 DEF PromoteInv
    <3> QED BY <2>2, <2>4, <3>2 DEF PromoteInv
  <2> QED BY <1>3, <2>3, <2>4 DEF PromoteCommit
<1> QED BY <1>1, <1>2, <1>3 DEF PackagesNext

-----------------------------------------------------------------------------
(* Drafts of feature configurations                                        *)

DraftRows == [version : Nat, config : Configs]

DraftsInv ==
    /\ DOMAIN req = Workers
    /\ featureDraft \in DraftRows /\ draftsSaved \subseteq DraftRows
    /\ DraftsNotLost
    /\ \A w \in Workers : /\ req[w].op \in {"IDLE", "DRAFT"}
                          /\ req[w].op = "DRAFT" => req[w].expected \in Nat /\ req[w].config \in Configs

LEMMA DraftsStart ==
  ASSUME DraftsInit
  PROVE  DraftsNotLost /\ (req = [w \in Workers |-> Idle] => DraftsInv)
<1>1. featureDraft \in DraftRows /\ featureDraft.version = 0 /\ draftsSaved = {}
  BY RecipeAssumption DEF DraftsInit, DraftRows
<1>2. DraftsNotLost
  BY <1>1 DEF DraftsNotLost
<1> QED BY <1>1, <1>2 DEF DraftsInv, Idle

LEMMA DraftsStep == DraftsInv /\ DraftsNext => DraftsInv'
<1> SUFFICES ASSUME DraftsInv, DraftsNext PROVE DraftsInv'
  OBVIOUS
<1>0. featureDraft.version \in Nat
  BY DEF DraftsInv, DraftRows
<1>1. ASSUME NEW w \in Workers, NEW c \in Configs, DraftRead(w, c) PROVE DraftsInv'
  <2> DEFINE r == [op |-> "DRAFT", expected |-> featureDraft.version, config |-> c]
  <2>1. r.op = "DRAFT" /\ r.expected \in Nat /\ r.config \in Configs /\ Begin(w, r) /\ UNCHANGED <<featureDraft, draftsSaved>>
    BY <1>0, <1>1 DEF DraftRead, draftVars
  <2> HIDE DEF r
  <2>2. DOMAIN req' = Workers /\ req'[w] = r /\ \A v \in Workers \ {w} : req'[v] = req[v]
    BY <2>1, BeginFacts DEF DraftsInv
  <2> QED BY <2>1, <2>2 DEF DraftsInv, DraftsNotLost
<1>2. ASSUME NEW w \in Workers, DraftWrite(w) PROVE DraftsInv'
  <2> DEFINE new == [version |-> req[w].expected + 1, config |-> req[w].config]
  <2>1. req[w].op = "DRAFT" /\ End(w) /\ req[w].expected \in Nat /\ req[w].config \in Configs
    BY <1>2 DEF DraftWrite, DraftsInv
  <2>2. DOMAIN req' = Workers /\ req'[w].op = "IDLE" /\ \A v \in Workers \ {w} : req'[v] = req[v]
    BY <2>1, EndFacts DEF DraftsInv
  <2>3. CASE UNCHANGED draftVars
    BY <2>2, <2>3 DEF DraftsInv, DraftsNotLost, draftVars
  <2>4. CASE featureDraft.version = req[w].expected /\ featureDraft' = new /\ draftsSaved' = draftsSaved \cup {new}
    <3>1. new \in DraftRows /\ new.version = featureDraft.version + 1
      BY <1>0, <2>1, <2>4 DEF DraftRows
    <3> HIDE DEF new
    <3>2. {a.version : a \in draftsSaved'} = 1 .. (featureDraft.version + 1)
      <4>1. {a.version : a \in draftsSaved'} = {a.version : a \in draftsSaved} \cup {new.version}
        BY <2>4
      <4>2. {a.version : a \in draftsSaved} = 1 .. featureDraft.version
        BY DEF DraftsInv, DraftsNotLost
      <4> QED BY <1>0, <3>1, <4>1, <4>2
    <3>3. \A a \in draftsSaved : a.version # new.version
      BY <1>0, <3>1 DEF DraftsInv, DraftsNotLost
    <3>4. DraftsNotLost'
      BY <2>4, <3>1, <3>2, <3>3 DEF DraftsInv, DraftsNotLost
    <3> QED BY <2>2, <2>4, <3>1, <3>4 DEF DraftsInv
  <2> QED BY <1>2, <2>3, <2>4 DEF DraftWrite, DraftCurrent
<1> QED BY <1>1, <1>2 DEF DraftsNext

-----------------------------------------------------------------------------
FleetRegistry ==
    /\ DeployInv
    /\ IF service = "packages" THEN PromoteInv ELSE PackagesInit
    /\ IF service = "drafts" THEN DraftsInv ELSE DraftsInit

\* What a slot runs follows the accepted requests in their order, a claimed
\* task is served its pin, no stage of a promotion is skipped and no draft is
\* lost: for every number of recipes, slots, keys, configurations and workers.
THEOREM RegistrySoundCorrect == Spec => []RegistrySound
<1>1. Init => FleetRegistry
  BY DeployStart, PromoteStart, DraftsStart DEF Init, FleetRegistry
<1>2. ASSUME FleetRegistry, [Next]_vars PROVE FleetRegistry'
  <2>1. DeployInv'
    <3>1. CASE RecipesNext
      BY <1>2, <3>1, DeployStep DEF FleetRegistry
    <3>2. CASE UNCHANGED <<current, past, acted, job>>
      BY <1>2, <3>2, DeployKept DEF FleetRegistry, DeployInv
    <3> QED BY <1>2, <3>1, <3>2 DEF Next, vars, rows, recipeVars, deployVars
  <2>2. (IF service = "packages" THEN PromoteInv ELSE PackagesInit)'
    <3>1. CASE service = "packages" /\ Next
      BY <1>2, <3>1, PromoteStep DEF FleetRegistry, Next
    <3>2. CASE service # "packages" /\ Next
      BY <1>2, <3>2 DEF FleetRegistry, Next, promoteVars, PackagesInit
    <3>3. CASE UNCHANGED vars
      <4>1. UNCHANGED <<service, req, pct, qualified, cleared>>
        BY <3>3 DEF vars, rows, reqVars, promoteVars
      <4> QED BY <1>2, <4>1 DEF FleetRegistry, PackagesInit, PromoteInv
    <3> QED BY <1>2, <3>1, <3>2, <3>3
  <2>3. (IF service = "drafts" THEN DraftsInv ELSE DraftsInit)'
    <3>1. CASE service = "drafts" /\ Next
      BY <1>2, <3>1, DraftsStep DEF FleetRegistry, Next
    <3>2. CASE service # "drafts" /\ Next
      BY <1>2, <3>2 DEF FleetRegistry, Next, draftVars, DraftsInit
    <3>3. CASE UNCHANGED vars
      <4>1. UNCHANGED <<service, req, featureDraft, draftsSaved>>
        BY <3>3 DEF vars, rows, reqVars, draftVars
      <4> QED BY <1>2, <4>1 DEF FleetRegistry, DraftsInit, DraftsInv, DraftsNotLost
    <3> QED BY <1>2, <3>1, <3>2, <3>3
  <2> QED BY <2>1, <2>2, <2>3 DEF FleetRegistry
<1>3. FleetRegistry => RegistrySound
  BY DeploySound, PromoteStart, PromoteSound, DraftsStart DEF FleetRegistry, RegistrySound, DraftsInv
<1> QED BY <1>1, <1>2, <1>3, PTL DEF Spec

-----------------------------------------------------------------------------
(* Edge Companion API                                                      *)

(* A code that has made a binding is used.                                 *)
PairInv ==
    /\ DOMAIN pairing = EdgeCodes /\ paired \in [EdgeCodes -> Nat]
    /\ \A c \in EdgeCodes : paired[c] <= 1 /\ (pairing[c] # "USED" => paired[c] = 0)
    /\ ~foreign

AskRows ==
    [state : {"NONE", "ASKED", "GONE"}, late : BOOLEAN, answer : {"NONE", "YES", "NO"},
     waiter : {"NONE", "WAITING", "CANCELLED", "YES", "NO"}]

(* The answer kept for a runner that does not wait yet is the hub's too.   *)
AskInv ==
    /\ ask \in [Asks -> AskRows]
    /\ ruling \in [Asks -> [value : {"NONE", "YES", "NO"}, recorded : BOOLEAN]]
    /\ \A c \in Asks :
          /\ ask[c].waiter = "WAITING" => ask[c].state = "ASKED"
          /\ ask[c].waiter \in {"YES", "NO"} => ask[c].waiter = ruling[c].value
          /\ ask[c].answer \in {"YES", "NO"} => ask[c].answer = ruling[c].value

Stopped == \E n \in 1 .. MaxCommands : <<"STOP", n>> \in acts
Flagging == \E w \in Workers : req[w].op = "FLAGGING"

StopInv ==
    /\ DOMAIN req = Workers
    /\ command \in [n : Nat, running : BOOLEAN, cancel : BOOLEAN]
    /\ DOMAIN health = {"stopped", "battery"}
    /\ command.cancel => <<"STOP", command.n>> \in acts
    /\ Stopped => health.stopped \/ cut \/ Flagging

CompanionInv == PairInv /\ AskInv /\ StopInv

LEMMA CompanionSound == CompanionInv => CompanionAccountable
BY DEF CompanionInv, PairInv, AskInv, StopInv, Stopped, Flagging, CompanionAccountable

LEMMA CompanionStart ==
  ASSUME CompanionInit
  PROVE  CompanionAccountable /\ (req = [w \in Workers |-> Idle] => CompanionInv)
<1>1. PairInv
  BY DEF CompanionInit, PairInv
<1>2. AskInv
  BY DEF CompanionInit, AskInv, AskRows, NoAsk
<1>3. /\ command \in [n : Nat, running : BOOLEAN, cancel : BOOLEAN] /\ ~command.cancel
      /\ DOMAIN health = {"stopped", "battery"} /\ acts = {}
  BY DEF CompanionInit
<1>4. CompanionAccountable
  BY <1>1, <1>2, <1>3 DEF PairInv, AskInv, CompanionAccountable
<1> QED BY <1>1, <1>2, <1>3, <1>4 DEF CompanionInv, StopInv, Stopped

LEMMA PairStep == PairInv /\ CompanionNext => PairInv'
<1> SUFFICES ASSUME PairInv, CompanionNext PROVE PairInv'
  OBVIOUS
<1>1. ASSUME NEW w \in Workers, NEW c \in EdgeCodes, IssueCode(w, c) PROVE PairInv'
  BY <1>1 DEF IssueCode, Issued, PairInv
<1>2. ASSUME NEW w \in Workers, NEW c \in EdgeCodes, PairCompanion(w, c) PROVE PairInv'
  BY <1>2 DEF PairCompanion, PairInv
<1>3. ASSUME NEW w \in Workers, RevokeBinding(w) PROVE PairInv'
  BY <1>3 DEF RevokeBinding, Revokes, PairInv
<1>4. CASE UNCHANGED pairVars
  BY <1>4 DEF PairInv, pairVars
<1>5. ASSUME NEW w \in Workers,
             \/ AuthenticatedBinding(w) \/ Look(w) \/ EmergencyStop(w) \/ StopRecorded(w) \/ StopFlagged(w)
             \/ \E b \in 0 .. 1 : ReportHealth(w, b)
             \/ \E approved \in BOOLEAN : AnswerConfirmation(w, approved)
      PROVE  UNCHANGED pairVars
  BY <1>5 DEF AuthenticatedBinding, Look, EmergencyStop, StopRecorded, StopFlagged, ReportHealth, AnswerConfirmation, companionVars
<1>6. ASSUME NEW c \in Asks,
             \/ RequireConfirmation(c) \/ ConfirmationLate(c) \/ WaitForResolution(c) \/ WaiterResumes(c) \/ Resolve(c)
             \/ \E value \in {"YES", "NO"} : HubAnswers(c, value)
      PROVE  UNCHANGED pairVars
  BY <1>6 DEF RequireConfirmation, ConfirmationLate, WaitForResolution, WaiterResumes, Resolve, ProcessEnds, HubAnswers
<1>7. CASE CommandStarts \/ CommandEnds \/ GatewayLost \/ GatewayBack
  BY <1>4, <1>7 DEF CommandStarts, CommandEnds, GatewayLost, ProcessEnds, GatewayBack
<1> QED BY <1>1, <1>2, <1>3, <1>4, <1>5, <1>6, <1>7 DEF CompanionNext

LEMMA DiscardedRow ==
  ASSUME NEW a \in AskRows
  PROVE  /\ Discarded(a) \in AskRows /\ Discarded(a).waiter # "WAITING" /\ Discarded(a).answer = "NONE"
         /\ Discarded(a).waiter \in {"YES", "NO"} => Discarded(a).waiter = a.waiter
BY DEF Discarded, AskRows

\* Confirmations that are discarded, and others that stay as they are.
LEMMA DiscardingKeeps ==
  ASSUME AskInv, UNCHANGED ruling, DOMAIN ask' = Asks, ask' = [c \in Asks |-> ask'[c]],
         \A c \in Asks : ask'[c] = ask[c] \/ ask'[c] = Discarded(ask[c])
  PROVE  AskInv'
<1>1. ASSUME NEW c \in Asks
      PROVE  /\ ask'[c] \in AskRows
             /\ ask'[c].waiter = "WAITING" => ask'[c].state = "ASKED"
             /\ ask'[c].waiter \in {"YES", "NO"} => ask'[c].waiter = ruling[c].value
             /\ ask'[c].answer \in {"YES", "NO"} => ask'[c].answer = ruling[c].value
  <2>1. ask[c] \in AskRows
    BY DEF AskInv
  <2>2. CASE ask'[c] = ask[c]
    BY <2>1, <2>2 DEF AskInv
  <2>3. CASE ask'[c] = Discarded(ask[c])
    BY <2>1, <2>3, DiscardedRow DEF AskInv
  <2> QED BY <2>2, <2>3
<1> QED BY <1>1 DEF AskInv

\* A step that changes one confirmation.
LEMMA OneAsk ==
  ASSUME AskInv, NEW c \in Asks, NEW a \in AskRows, ask' = [ask EXCEPT ![c] = a], ruling' \in [Asks -> [value : {"NONE", "YES", "NO"}, recorded : BOOLEAN]],
         \A d \in Asks : ruling'[d].value = ruling[d].value,
         a.waiter = "WAITING" => a.state = "ASKED",
         a.waiter \in {"YES", "NO"} => a.waiter = ruling[c].value,
         a.answer \in {"YES", "NO"} => a.answer = ruling[c].value
  PROVE  AskInv'
BY DEF AskInv

LEMMA ProcessEndsAsks == AskInv /\ ProcessEnds => AskInv'
BY DiscardingKeeps DEF ProcessEnds

LEMMA AskStep == AskInv /\ CompanionNext => AskInv'
<1> SUFFICES ASSUME AskInv, CompanionNext PROVE AskInv'
  OBVIOUS
<1>0. /\ \A c \in Asks : /\ ask[c] \in AskRows
                         /\ ask[c].waiter = "WAITING" => ask[c].state = "ASKED"
                         /\ ask[c].waiter \in {"YES", "NO"} => ask[c].waiter = ruling[c].value
                         /\ ask[c].answer \in {"YES", "NO"} => ask[c].answer = ruling[c].value
      /\ ruling \in [Asks -> [value : {"NONE", "YES", "NO"}, recorded : BOOLEAN]]
      /\ ask \in [Asks -> AskRows]
  BY DEF AskInv
<1>1. CASE UNCHANGED askVars
  BY <1>1 DEF AskInv, askVars
<1>2. ASSUME NEW w \in Workers,
             \/ AuthenticatedBinding(w) \/ RevokeBinding(w) \/ EmergencyStop(w) \/ StopRecorded(w) \/ StopFlagged(w)
             \/ \E b \in 0 .. 1 : ReportHealth(w, b)
             \/ \E c \in EdgeCodes : IssueCode(w, c) \/ PairCompanion(w, c)
      PROVE  UNCHANGED askVars
  BY <1>2 DEF AuthenticatedBinding, RevokeBinding, EmergencyStop, StopRecorded, StopFlagged, ReportHealth, IssueCode,
              PairCompanion, companionVars
<1>3. ASSUME NEW w \in Workers, Look(w) \/ \E approved \in BOOLEAN : AnswerConfirmation(w, approved) PROVE AskInv'
  <2>1. ask' = Tidied /\ UNCHANGED ruling
    BY <1>3 DEF Look, AnswerConfirmation
  <2> QED BY <2>1, DiscardingKeeps DEF Tidied
<1>4. CASE CommandStarts \/ CommandEnds \/ GatewayBack
  BY <1>1, <1>4 DEF CommandStarts, CommandEnds, GatewayBack
<1>5. CASE GatewayLost
  BY <1>5, ProcessEndsAsks DEF GatewayLost
<1>6. ASSUME NEW c \in Asks, RequireConfirmation(c) PROVE AskInv'
  <2> DEFINE a == [ask[c] EXCEPT !.state = "ASKED"]
  <2>1. /\ a \in AskRows /\ a.state = "ASKED" /\ a.waiter = ask[c].waiter /\ a.answer = ask[c].answer
    BY <1>0 DEF AskRows
  <2>2. ask' = [ask EXCEPT ![c] = a] /\ UNCHANGED ruling
    BY <1>6 DEF RequireConfirmation
  <2> HIDE DEF a
  <2> QED BY <1>0, <2>1, <2>2, OneAsk
<1>7. ASSUME NEW c \in Asks, ConfirmationLate(c) PROVE AskInv'
  <2> DEFINE a == [ask[c] EXCEPT !.late = TRUE]
  <2>1. a \in AskRows /\ a.state = ask[c].state /\ a.waiter = ask[c].waiter /\ a.answer = ask[c].answer
    BY <1>0 DEF AskRows
  <2>2. ask' = [ask EXCEPT ![c] = a] /\ UNCHANGED ruling
    BY <1>7 DEF ConfirmationLate
  <2> HIDE DEF a
  <2> QED BY <1>0, <2>1, <2>2, OneAsk
<1>8. ASSUME NEW c \in Asks, WaitForResolution(c) PROVE AskInv'
  <2>1. ask[c].state = "ASKED" /\ ask[c].waiter = "NONE" /\ UNCHANGED ruling
    BY <1>8 DEF WaitForResolution
  <2>2. CASE ask[c].answer # "NONE"
    <3> DEFINE a == [ask[c] EXCEPT !.waiter = ask[c].answer, !.answer = "NONE", !.state = "GONE"]
    <3>1. a \in AskRows /\ a.waiter = ask[c].answer /\ a.answer = "NONE" /\ a.waiter # "WAITING"
      BY <1>0 DEF AskRows
    <3>2. ask' = [ask EXCEPT ![c] = a]
      BY <1>8, <2>2 DEF WaitForResolution
    <3> HIDE DEF a
    <3> QED BY <1>0, <2>1, <3>1, <3>2, OneAsk
  <2>3. CASE ask[c].answer = "NONE"
    <3> DEFINE a == [ask[c] EXCEPT !.waiter = "WAITING"]
    <3>1. a \in AskRows /\ a.waiter = "WAITING" /\ a.answer = "NONE" /\ a.state = "ASKED"
      BY <1>0, <2>1, <2>3 DEF AskRows
    <3>2. ask' = [ask EXCEPT ![c] = a]
      BY <1>8, <2>3 DEF WaitForResolution
    <3> HIDE DEF a
    <3> QED BY <1>0, <2>1, <3>1, <3>2, OneAsk
  <2> QED BY <2>2, <2>3
<1>9. ASSUME NEW c \in Asks, WaiterResumes(c) PROVE AskInv'
  <2>1. ask' = [ask EXCEPT ![c] = Discarded(ask[c])] /\ UNCHANGED ruling
    BY <1>9 DEF WaiterResumes
  <2> QED BY <1>0, <2>1, DiscardingKeeps
<1>10. ASSUME NEW c \in Asks, NEW value \in {"YES", "NO"}, HubAnswers(c, value) PROVE AskInv'
  <2>1. ruling' = [ruling EXCEPT ![c].value = value] /\ UNCHANGED ask /\ ruling[c].value = "NONE"
    BY <1>10 DEF HubAnswers
  <2>2. /\ ruling' \in [Asks -> [value : {"NONE", "YES", "NO"}, recorded : BOOLEAN]]
        /\ \A d \in Asks \ {c} : ruling'[d] = ruling[d]
    BY <1>0, <2>1
  <2> QED BY <1>0, <2>1, <2>2 DEF AskInv
<1>11. ASSUME NEW c \in Asks, Resolve(c) PROVE AskInv'
  <2>1. CASE ProcessEnds
    BY <2>1, ProcessEndsAsks
  <2>2. CASE ~ProcessEnds
    <3> DEFINE v == ruling[c].value
               a == CASE ask[c].waiter = "WAITING" -> [ask[c] EXCEPT !.waiter = v]
                      [] ask[c].waiter = "NONE" -> [ask[c] EXCEPT !.answer = v]
                      [] OTHER -> ask[c]
    <3>1. InTime(c) /\ v # "NONE" /\ ask' = [ask EXCEPT ![c] = a] /\ ruling' = [ruling EXCEPT ![c].recorded = TRUE]
      BY <1>11, <2>2 DEF Resolve
    <3>2. v \in {"YES", "NO"}
      BY <1>0, <3>1
    <3>3. /\ a \in AskRows
          /\ a.waiter = "WAITING" => a.state = "ASKED"
          /\ a.waiter \in {"YES", "NO"} => a.waiter = v
          /\ a.answer \in {"YES", "NO"} => a.answer = v
      BY <1>0, <3>2 DEF AskRows
    <3>4. /\ ruling' \in [Asks -> [value : {"NONE", "YES", "NO"}, recorded : BOOLEAN]]
          /\ \A d \in Asks : ruling'[d].value = ruling[d].value
      BY <1>0, <3>1
    <3> HIDE DEF a
    <3> QED BY <3>1, <3>3, <3>4, OneAsk
  <2> QED BY <2>1, <2>2
<1> QED BY <1>1, <1>2, <1>3, <1>4, <1>5, <1>6, <1>7, <1>8, <1>9, <1>10, <1>11 DEF CompanionNext

\* Steps that stop no command and cancel none.
LEMMA StopKept ==
  ASSUME StopInv, UNCHANGED <<command, cut>>, acts \subseteq acts', Stopped' => Stopped, DOMAIN req' = Workers,
         Flagging => Flagging', DOMAIN health' = {"stopped", "battery"}, health'.stopped = health.stopped
  PROVE  StopInv'
BY DEF StopInv

LEMMA FlagKept ==
  ASSUME DOMAIN req = Workers, NEW w \in Workers, req[w].op # "FLAGGING", NEW r, req' = [req EXCEPT ![w] = r]
  PROVE  DOMAIN req' = Workers /\ (Flagging => Flagging')
BY DEF Flagging

LEMMA ProcessEndsStop == StopInv /\ ProcessEnds => StopInv'
<1> SUFFICES ASSUME StopInv, ProcessEnds PROVE StopInv'
  OBVIOUS
<1>1. /\ UNCHANGED <<acts, health>> /\ DOMAIN req' = Workers
      /\ command' = [command EXCEPT !.running = FALSE, !.cancel = FALSE]
      /\ cut' = (cut \/ Flagging)
  BY DEF ProcessEnds, Flagging
<1>2. command' \in [n : Nat, running : BOOLEAN, cancel : BOOLEAN] /\ ~command'.cancel
  BY <1>1 DEF StopInv
<1>3. Stopped' <=> Stopped
  BY <1>1 DEF Stopped
<1> QED BY <1>1, <1>2, <1>3 DEF StopInv

LEMMA StopStep == StopInv /\ CompanionNext => StopInv'
<1> SUFFICES ASSUME StopInv, CompanionNext PROVE StopInv'
  OBVIOUS
<1>0. /\ DOMAIN req = Workers /\ command \in [n : Nat, running : BOOLEAN, cancel : BOOLEAN]
      /\ DOMAIN health = {"stopped", "battery"}
      /\ command.cancel => <<"STOP", command.n>> \in acts
  BY DEF StopInv
<1>1. ASSUME UNCHANGED <<req, command, health, acts, cut>> PROVE StopInv'
  BY <1>1 DEF StopInv, Stopped, Flagging
<1>2. ASSUME NEW w \in Workers, NEW c \in EdgeCodes, IssueCode(w, c) \/ PairCompanion(w, c) PROVE StopInv'
  BY <1>1, <1>2 DEF IssueCode, PairCompanion, AtOnce, spoolVars
<1>3. ASSUME NEW w \in Workers, NEW r, req[w].op # "FLAGGING", req' = [req EXCEPT ![w] = r], UNCHANGED <<command, health, acts, cut>>
      PROVE  StopInv'
  <2>1. Stopped' <=> Stopped
    BY <1>3 DEF Stopped
  <2> QED BY <1>0, <1>3, <2>1, FlagKept, StopKept
<1>4. ASSUME NEW w \in Workers, AuthenticatedBinding(w) PROVE StopInv'
  <2>1. req[w].op # "FLAGGING" /\ UNCHANGED <<command, health, acts, cut>>
    BY <1>4 DEF AuthenticatedBinding, Begin, Idle, companionVars, spoolVars
  <2> QED BY <1>3, <1>4, <2>1 DEF AuthenticatedBinding, Begin
<1>5. ASSUME NEW w \in Workers, RevokeBinding(w) \/ Look(w) PROVE StopInv'
  <2>1. req[w].op # "FLAGGING" /\ UNCHANGED <<command, health, acts, cut>>
    BY <1>5 DEF RevokeBinding, Look, Bearing, spoolVars
  <2> QED BY <1>3, <1>5, <2>1 DEF RevokeBinding, Look, End
<1>6. ASSUME NEW w \in Workers, NEW b \in 0 .. 1, ReportHealth(w, b) PROVE StopInv'
  <2>1. /\ req[w].op # "FLAGGING" /\ req' = [req EXCEPT ![w] = Idle] /\ UNCHANGED <<command, acts, cut>>
        /\ health' = [health EXCEPT !.battery = b]
    BY <1>6 DEF ReportHealth, Bearing, End, HealthUpdated
  <2>2. DOMAIN health' = {"stopped", "battery"} /\ health'.stopped = health.stopped
    BY <1>0, <2>1
  <2>3. Stopped' <=> Stopped
    BY <2>1 DEF Stopped
  <2> QED BY <1>0, <2>1, <2>2, <2>3, FlagKept, StopKept
<1>7. ASSUME NEW w \in Workers, NEW approved \in BOOLEAN, AnswerConfirmation(w, approved) PROVE StopInv'
  <2>1. /\ req[w].op # "FLAGGING" /\ req' = [req EXCEPT ![w] = Idle] /\ UNCHANGED <<command, health, cut>>
        /\ \E c \in Active : acts' = acts \cup {<<IF approved THEN "CONFIRM" ELSE "REJECT", c>>}
    BY <1>7 DEF AnswerConfirmation, Bearing, End
  <2>2. PICK c : acts' = acts \cup {<<IF approved THEN "CONFIRM" ELSE "REJECT", c>>}
    BY <2>1
  <2>3. \A n : <<"STOP", n>> # <<IF approved THEN "CONFIRM" ELSE "REJECT", c>>
    <3>1. (IF approved THEN "CONFIRM" ELSE "REJECT") # "STOP"
      OBVIOUS
    <3> QED BY <3>1
  <2>4. Stopped' <=> Stopped
    BY <2>2, <2>3 DEF Stopped
  <2> QED BY <1>0, <2>1, <2>2, <2>4, FlagKept, StopKept
<1>8. ASSUME NEW w \in Workers, EmergencyStop(w) PROVE StopInv'
  <2>1. /\ req[w].op # "FLAGGING" /\ UNCHANGED <<command, health, acts, cut>>
        /\ req' = [req EXCEPT ![w] = [op |-> "STOPPING", n |-> command.n]]
    BY <1>8 DEF EmergencyStop, Bearing, companionVars, spoolVars
  <2> QED BY <1>3, <2>1
<1>9. ASSUME NEW w \in Workers, StopRecorded(w) PROVE StopInv'
  <2> DEFINE n == req[w].n
  <2>1. /\ UNCHANGED <<health, cut>> /\ req' = [req EXCEPT ![w] = [op |-> "FLAGGING"]]
        /\ command' = IF StillRuns(n) THEN [command EXCEPT !.cancel = TRUE] ELSE command
        /\ acts' = acts \cup {<<"STOP", n>>}
    BY <1>9 DEF StopRecorded
  <2>2. DOMAIN req' = Workers /\ req'[w].op = "FLAGGING"
    BY <1>0, <2>1
  <2>3. /\ command' \in [n : Nat, running : BOOLEAN, cancel : BOOLEAN]
        /\ command'.n = command.n
    BY <1>0, <2>1
  <2>4. command'.cancel => <<"STOP", command'.n>> \in acts'
    BY <1>0, <2>1, <2>3 DEF StillRuns
  <2> QED BY <1>0, <2>1, <2>2, <2>3, <2>4 DEF StopInv, Flagging
<1>10. ASSUME NEW w \in Workers, StopFlagged(w) PROVE StopInv'
  <2>1. /\ UNCHANGED <<command, acts, cut>> /\ req' = [req EXCEPT ![w] = Idle]
        /\ health' = [health EXCEPT !.stopped = TRUE]
    BY <1>10 DEF StopFlagged, End
  <2>2. DOMAIN health' = {"stopped", "battery"} /\ DOMAIN req' = Workers
    BY <1>0, <2>1
  <2>3. health'.stopped = TRUE
    BY <1>0, <2>1, Zenon
  <2> QED BY <1>0, <2>1, <2>2, <2>3 DEF StopInv
<1>11. CASE CommandStarts \/ CommandEnds
  <2>1. UNCHANGED <<req, health, acts, cut>>
    BY <1>11 DEF CommandStarts, CommandEnds, reqVars
  <2>2. command' \in [n : Nat, running : BOOLEAN, cancel : BOOLEAN] /\ ~command'.cancel
    <3>1. CASE CommandStarts
      BY <1>0, <3>1 DEF CommandStarts
    <3>2. CASE CommandEnds
      <4>1. command' = [command EXCEPT !.running = FALSE, !.cancel = FALSE]
        BY <3>2 DEF CommandEnds
      <4> QED BY <1>0, <4>1
    <3> QED BY <1>11, <3>1, <3>2
  <2> QED BY <2>1, <2>2 DEF StopInv, Stopped, Flagging
<1>12. ASSUME NEW c \in Asks,
             \/ RequireConfirmation(c) \/ ConfirmationLate(c) \/ WaitForResolution(c) \/ WaiterResumes(c) \/ Resolve(c)
             \/ \E value \in {"YES", "NO"} : HubAnswers(c, value)
      PROVE  StopInv'
  <2>1. ProcessEnds \/ UNCHANGED <<req, command, health, acts, cut>>
    BY <1>12 DEF RequireConfirmation, ConfirmationLate, WaitForResolution, WaiterResumes, Resolve, HubAnswers, reqVars, spoolVars
  <2> QED BY <1>1, <2>1, ProcessEndsStop
<1>13. CASE GatewayLost
  BY <1>13, ProcessEndsStop DEF GatewayLost
<1>14. CASE GatewayBack
  BY <1>1, <1>14 DEF GatewayBack, reqVars, spoolVars
<1> QED BY <1>2, <1>4, <1>5, <1>6, <1>7, <1>8, <1>9, <1>10, <1>11, <1>12, <1>13, <1>14 DEF CompanionNext

FleetCompanion == IF service = "companion" THEN CompanionInv ELSE CompanionInit

\* A code makes one binding, no runner is left waiting or told anything but
\* the hub's decision, and a recorded stop stays in force: for every number of
\* codes, confirmations, commands and requests, wherever the gateway dies.
THEOREM CompanionAccountableCorrect == Spec => []CompanionAccountable
<1>1. Init => FleetCompanion
  BY CompanionStart DEF Init, FleetCompanion
<1>2. ASSUME FleetCompanion, [Next]_vars PROVE FleetCompanion'
  <2>1. CASE service = "companion" /\ Next
    BY <1>2, <2>1, PairStep, AskStep, StopStep DEF FleetCompanion, CompanionInv, Next
  <2>2. CASE service # "companion" /\ Next
    BY <1>2, <2>2 DEF FleetCompanion, Next, companionVars, pairVars, askVars, spoolVars, CompanionInit
  <2>3. CASE UNCHANGED vars
    <3>1. UNCHANGED <<service, req, pairing, bearer, minted, paired, foreign, ask, ruling, command, health, acts, gateway, cut>>
      BY <2>3 DEF vars, rows, reqVars, companionVars, pairVars, askVars, spoolVars
    <3>2. CompanionInv => CompanionInv'
      BY <3>1 DEF CompanionInv, PairInv, AskInv, StopInv, Stopped, Flagging
    <3> QED BY <1>2, <3>1, <3>2 DEF FleetCompanion, CompanionInit
  <2> QED BY <1>2, <2>1, <2>2, <2>3
<1>3. FleetCompanion => CompanionAccountable
  BY CompanionStart, CompanionSound DEF FleetCompanion
<1> QED BY <1>1, <1>2, <1>3, PTL DEF Spec

-----------------------------------------------------------------------------
(* Fleet identity                                                          *)

Gates == {"NONE", "YES", "NO"} \cup {p[2] : p \in Profiles} \cup {p[3] : p \in Profiles}
Tables == SUBSET SUBSET CAPABILITY_KEYS
FleetRows == [app : Apps, revoked : BOOLEAN, caps : Tables, acc : Gates, ime : Gates]

IdentityType ==
    /\ DOMAIN req = Workers
    /\ code \in [Codes -> {"NONE", "OPEN", "EXPIRED", "USED"}] /\ redeemed \in [Codes -> Nat]
    /\ bound \in [Apps -> {"NONE", "ACTIVE", "REVOKED"}] /\ fleet \in Seq(FleetRows)
    /\ device \in [epoch : Nat, active : Apps \cup {"NONE"}, online : BOOLEAN]
    /\ preview \in [session : Nat, granted : BOOLEAN, frame : Nat]
    /\ told \in [Apps -> [caps : Tables, acc : Gates]]

(* What a request that is open relies on: its code is open, the binding it *)
(* registers exists, and it has read the sessions there are of it.         *)
EnrollHolds(w) ==
    Busy(w, "ENROLL") =>
        /\ req[w].code \in Codes /\ req[w].app \in Apps /\ code[req[w].code] = "OPEN"
        /\ req[w].existing => bound[req[w].app] # "NONE"
        /\ ~overlapped => \A b \in Apps \ {req[w].app} : bound[b] = "ACTIVE" => b \in req[w].others

RegisterHolds(w) ==
    Busy(w, "REGISTER") =>
        /\ req[w].app \in Apps /\ req[w].acc \in Gates /\ req[w].ime \in Gates
        /\ bound[req[w].app] # "NONE" /\ SessionsOf(req[w].app) \subseteq req[w].old
        /\ ~overlapped => Unrevoked \subseteq req[w].old

OtherHolds(w) ==
    /\ Busy(w, "AUTHENTICATED") => req[w].app \in Apps
    /\ Busy(w, "STOP") => req[w].session \in 1 .. preview.session

Holds(w) == EnrollHolds(w) /\ RegisterHolds(w) /\ OtherHolds(w)

Registering(w) == req[w].op \in {"ENROLL", "REGISTER"}

(* Locks: of a binding, of a code, and of the device while no registrations*)
(* overlap.                                                                *)
Exclusive ==
    \A v, w \in Workers : v # w =>
        /\ \A a \in Apps : ~(LockedBy(v, a) /\ LockedBy(w, a))
        /\ Busy(v, "ENROLL") /\ Busy(w, "ENROLL") => req[v].code # req[w].code
        /\ ~overlapped => ~(Registering(v) /\ Registering(w))

CodesSpent == \A c \in Codes : redeemed[c] <= 1 /\ (code[c] # "USED" => redeemed[c] = 0)

SessionsTrue ==
    /\ \A a \in Apps : \A i, j \in SessionsOf(a) : i = j
    /\ \A i \in Unrevoked : fleet[i].caps = told[fleet[i].app].caps /\ fleet[i].acc = told[fleet[i].app].acc

OneBinding ==
    ~overlapped => /\ \A i, j \in Unrevoked : i = j
                   /\ \A a \in Apps : bound[a] = "ACTIVE" => device.active = a

PreviewStopped ==
    /\ stopped \subseteq 1 .. preview.session
    /\ preview.granted => preview.session \notin stopped

IdentityInv ==
    /\ IdentityType /\ Exclusive /\ CodesSpent /\ SessionsTrue /\ OneBinding /\ PreviewStopped /\ ~trespass
    /\ \A w \in Workers : Holds(w)

LEMMA IdentityStart ==
  ASSUME IdentityInit, req = [w \in Workers |-> Idle]
  PROVE  IdentityInv
<1>1. \A w \in Workers : req[w].op = "IDLE"
  BY DEF Idle
<1>2. /\ fleet = <<>> /\ Unrevoked = {} /\ \A a \in Apps : SessionsOf(a) = {} /\ bound[a] # "ACTIVE"
      /\ stopped = {} /\ ~trespass
  BY DEF IdentityInit, Unrevoked, SessionsOf
<1>3. IdentityType
  BY DEF IdentityInit, IdentityType, Unreported, Tables, Gates
<1>4. CodesSpent
  BY DEF IdentityInit, CodesSpent
<1>5. Exclusive /\ SessionsTrue /\ OneBinding /\ PreviewStopped
  BY <1>1, <1>2 DEF Exclusive, SessionsTrue, OneBinding, PreviewStopped, LockedBy, Busy, Registering
<1> QED BY <1>1, <1>2, <1>3, <1>4, <1>5 DEF IdentityInv, Holds, EnrollHolds, RegisterHolds, OtherHolds, Busy

LEMMA AtMostOne ==
  ASSUME NEW S, \A i, j \in S : i = j
  PROVE  Cardinality(S) <= 1
<1>1. CASE S = {}
  BY <1>1, FS_EmptySet
<1>2. CASE S # {}
  <2>1. PICK x : x \in S
    BY <1>2
  <2>2. S = {x}
    BY <2>1
  <2> QED BY <2>2, FS_Singleton
<1> QED BY <1>1, <1>2

LEMMA IdentityHolds == IdentityInv => IdentitySound
<1> SUFFICES ASSUME IdentityInv PROVE IdentitySound
  OBVIOUS
<1>1. (\A c \in Codes : redeemed[c] <= 1) /\ ~trespass
  BY DEF IdentityInv, CodesSpent
<1>2. \A a \in Apps : Cardinality(SessionsOf(a)) <= 1
  BY AtMostOne DEF IdentityInv, SessionsTrue
<1>3. ~overlapped => /\ Cardinality(Unrevoked) <= 1
                     /\ \A a \in Apps : bound[a] = "ACTIVE" => device.active = a
  BY AtMostOne DEF IdentityInv, OneBinding
<1>4. ASSUME NEW a \in Apps, SessionsOf(a) # {}, told[a].caps # {}, ClaimOpen(a)
      PROVE  told[a].acc # "NO" /\ CAPABILITY_KEYS \in told[a].caps
  <2>1. PICK i : i \in SessionsOf(a)
    BY <1>4
  <2>2. i \in Unrevoked /\ fleet[i].app = a
    BY <2>1 DEF SessionsOf
  <2>3. SessionRefreshed(a) = {i}
    <3>1. SessionsOf(a) = {i}
      BY <2>1 DEF IdentityInv, SessionsTrue
    <3>2. i \in Nat
      BY <2>2 DEF Unrevoked, IdentityInv, IdentityType
    <3> QED BY <3>1, <3>2 DEF SessionRefreshed
  <2>4. fleet[i].caps = told[a].caps /\ fleet[i].acc = told[a].acc
    BY <2>2 DEF IdentityInv, SessionsTrue
  <2>5. fleet[i].acc # "NO" /\ \A keys \in told[a].caps : CAPABILITY_KEYS \subseteq keys
    BY <1>4, <2>3, <2>4 DEF ClaimOpen, SessionReady, NoShortfall, CAPABILITY_KEYS
  <2>6. PICK keys \in told[a].caps : CAPABILITY_KEYS \subseteq keys
    BY <1>4, <2>5
  <2>7. told[a].caps \in Tables
    BY DEF IdentityInv, IdentityType
  <2>8. keys = CAPABILITY_KEYS
    BY <2>6, <2>7 DEF Tables
  <2> QED BY <2>4, <2>5, <2>6, <2>8
<1> QED BY <1>1, <1>2, <1>3, <1>4 DEF IdentitySound

\* What another request relies on outlives a step that keeps its code, its
\* binding and the sessions it has read.
LEMMA HoldsKept ==
  ASSUME NEW v \in Workers, Holds(v), req'[v] = req[v],
         Busy(v, "ENROLL") => code'[req[v].code] = code[req[v].code],
         \A a \in Apps : bound[a] # "NONE" => bound'[a] # "NONE",
         ~overlapped' => ~overlapped,
         ~overlapped' /\ Busy(v, "ENROLL") => \A b \in Apps : bound'[b] = "ACTIVE" => bound[b] = "ACTIVE",
         Busy(v, "REGISTER") => SessionsOf(req[v].app)' \subseteq SessionsOf(req[v].app),
         Busy(v, "REGISTER") /\ ~overlapped' => Unrevoked' \subseteq Unrevoked,
         preview.session \in Nat, preview'.session \in Nat, preview.session <= preview'.session
  PROVE  Holds(v)'
<1>1. EnrollHolds(v)'
  BY DEF Holds, EnrollHolds, Busy
<1>2. RegisterHolds(v)'
  <2> SUFFICES ASSUME Busy(v, "REGISTER")
               PROVE  /\ req[v].app \in Apps /\ req[v].acc \in Gates /\ req[v].ime \in Gates
                      /\ bound'[req[v].app] # "NONE" /\ SessionsOf(req[v].app)' \subseteq req[v].old
                      /\ ~overlapped' => Unrevoked' \subseteq req[v].old
    BY DEF RegisterHolds, Busy
  <2>1. /\ req[v].app \in Apps /\ req[v].acc \in Gates /\ req[v].ime \in Gates
        /\ bound[req[v].app] # "NONE" /\ SessionsOf(req[v].app) \subseteq req[v].old
        /\ ~overlapped => Unrevoked \subseteq req[v].old
    BY DEF Holds, RegisterHolds
  <2> QED BY <2>1
<1>3. OtherHolds(v)'
  BY DEF Holds, OtherHolds, Busy
<1> QED BY <1>1, <1>2, <1>3 DEF Holds

\* Locks stay exclusive when requests end.
LEMMA ExclusiveKept ==
  ASSUME Exclusive, ~overlapped' => ~overlapped,
         \A v \in Workers : req'[v] = req[v] \/ ~Registering(v)'
  PROVE  Exclusive'
<1>1. ASSUME NEW v \in Workers PROVE req'[v] = req[v] \/ (~Busy(v, "ENROLL")' /\ ~Busy(v, "REGISTER")' /\ ~Registering(v)')
  BY <1>1 DEF Registering, Busy
<1>2. ASSUME NEW v \in Workers, NEW a \in Apps, LockedBy(v, a)' PROVE LockedBy(v, a) /\ req'[v] = req[v]
  BY <1>1, <1>2 DEF LockedBy, Busy
<1>3. ASSUME NEW v \in Workers, Registering(v)' PROVE Registering(v) /\ req'[v] = req[v]
  BY <1>1, <1>3 DEF Registering
<1>4. ASSUME NEW v \in Workers, Busy(v, "ENROLL")' PROVE Busy(v, "ENROLL") /\ req'[v] = req[v]
  BY <1>1, <1>4 DEF Busy
<1> QED BY <1>2, <1>3, <1>4 DEF Exclusive

\* A step that writes neither sessions, bindings nor codes, and ends at most
\* one request or begins one that registers nothing.
LEMMA QuietStep ==
  ASSUME IdentityInv, UNCHANGED <<code, bound, fleet, overlapped, redeemed, told>>,
         DOMAIN req' = Workers,
         \A v \in Workers : req'[v] = req[v] \/ (~Registering(v)' /\ OtherHolds(v)'),
         device' \in [epoch : Nat, active : Apps \cup {"NONE"}, online : BOOLEAN], device'.active = device.active,
         preview' \in [session : Nat, granted : BOOLEAN, frame : Nat], preview.session <= preview'.session,
         PreviewStopped', ~trespass'
  PROVE  IdentityInv'
<1>1. preview.session \in Nat /\ preview'.session \in Nat
  BY DEF IdentityInv, IdentityType
<1>2. Unrevoked' = Unrevoked /\ \A a : SessionsOf(a)' = SessionsOf(a)
  BY DEF Unrevoked, SessionsOf
<1>3. ASSUME NEW v \in Workers PROVE Holds(v)'
  <2>1. CASE req'[v] = req[v]
    BY <1>1, <1>2, <2>1, HoldsKept DEF IdentityInv
  <2>2. CASE ~Registering(v)' /\ OtherHolds(v)'
    BY <2>2 DEF Registering, Holds, EnrollHolds, RegisterHolds, Busy
  <2> QED BY <2>1, <2>2
<1>4. Exclusive'
  BY ExclusiveKept DEF IdentityInv
<1>5. IdentityType'
  BY DEF IdentityInv, IdentityType
<1>6. CodesSpent' /\ SessionsTrue' /\ OneBinding'
  BY <1>2 DEF IdentityInv, CodesSpent, SessionsTrue, OneBinding
<1> QED BY <1>3, <1>4, <1>5, <1>6 DEF IdentityInv

LEMMA OnlineKeepsActive ==
  ASSUME IdentityType, NEW b \in BOOLEAN, device' = [device EXCEPT !.online = b]
  PROVE  device' \in [epoch : Nat, active : Apps \cup {"NONE"}, online : BOOLEAN] /\ device'.active = device.active
BY DEF IdentityType

LEMMA PreviewKept ==
  ASSUME IdentityInv, UNCHANGED <<preview, stopped>>
  PROVE  /\ preview' \in [session : Nat, granted : BOOLEAN, frame : Nat] /\ preview.session <= preview'.session
         /\ PreviewStopped'
BY DEF IdentityInv, IdentityType, PreviewStopped

\* Requests that end, or begin without registering anything.
LEMMA EndedRequest ==
  ASSUME DOMAIN req = Workers, NEW w \in Workers, End(w)
  PROVE  DOMAIN req' = Workers /\ \A v \in Workers : req'[v] = req[v] \/ (~Registering(v)' /\ OtherHolds(v)')
<1>1. DOMAIN req' = Workers /\ req'[w].op = "IDLE" /\ \A v \in Workers \ {w} : req'[v] = req[v]
  BY EndFacts
<1> QED BY <1>1 DEF Registering, OtherHolds, Busy

LEMMA CodeStepInv ==
  ASSUME IdentityInv, NEW c \in Codes, NEW st \in {"OPEN", "EXPIRED"}, code[c] # "USED", CodeFree(c),
         code' = [code EXCEPT ![c] = st], UNCHANGED <<req, bound, fleet, device, preview, told, overlapped, redeemed, stopped, trespass>>
  PROVE  IdentityInv'
<1>1. code \in [Codes -> {"NONE", "OPEN", "EXPIRED", "USED"}] /\ preview.session \in Nat
  BY DEF IdentityInv, IdentityType
<1>2. code' \in [Codes -> {"NONE", "OPEN", "EXPIRED", "USED"}]
  BY <1>1
<1>3. Unrevoked' = Unrevoked /\ \A a : SessionsOf(a)' = SessionsOf(a)
  BY DEF Unrevoked, SessionsOf
<1>4. ASSUME NEW v \in Workers, Busy(v, "ENROLL") PROVE code'[req[v].code] = code[req[v].code]
  <2>1. req[v].code \in Codes /\ req[v].code # c
    BY <1>4 DEF CodeFree, IdentityInv, Holds, EnrollHolds
  <2> QED BY <1>1, <2>1
<1>5. \A v \in Workers : Holds(v)'
  BY <1>1, <1>3, <1>4, HoldsKept DEF IdentityInv
<1>6. CodesSpent'
  BY <1>1 DEF IdentityInv, CodesSpent
<1>7. Exclusive'
  BY ExclusiveKept DEF IdentityInv
<1>8. IdentityType'
  BY <1>2 DEF IdentityInv, IdentityType
<1>9. SessionsTrue' /\ OneBinding' /\ PreviewStopped'
  BY <1>3 DEF IdentityInv, SessionsTrue, OneBinding, PreviewStopped
<1> QED BY <1>5, <1>6, <1>7, <1>8, <1>9 DEF IdentityInv

\* A code that was never created is nobody's.
LEMMA CreateEnrollmentInv ==
  ASSUME IdentityInv, NEW w, NEW c \in Codes, CreateEnrollment(w, c)
  PROVE  IdentityInv'
<1>1. /\ code[c] = "NONE" /\ code' = [code EXCEPT ![c] = "OPEN"]
      /\ UNCHANGED <<req, bound, fleet, device, preview, told, overlapped, redeemed, stopped, trespass>>
  BY DEF CreateEnrollment, AtOnce, rowsOnly
<1>2. CodeFree(c)
  BY <1>1 DEF CodeFree, IdentityInv, Holds, EnrollHolds
<1> QED BY <1>1, <1>2, CodeStepInv

LEMMA CodeExpiresInv ==
  ASSUME IdentityInv, NEW c \in Codes, CodeExpires(c)
  PROVE  IdentityInv'
BY CodeStepInv DEF CodeExpires, reqVars, rowsOnly

LEMMA EnrollInv ==
  ASSUME IdentityInv, NEW w \in Workers, NEW c \in Codes, NEW a \in Apps, Enroll(w, c, a)
  PROVE  IdentityInv'
<1> DEFINE r == [op |-> "ENROLL", code |-> c, app |-> a, existing |-> bound[a] # "NONE",
                 others |-> {b \in Apps \ {a} : bound[b] = "ACTIVE"}]
<1>1. /\ code[c] = "OPEN" /\ CodeFree(c) /\ (bound[a] # "NONE" => BindingFree(w, a)) /\ Begin(w, r)
      /\ overlapped' = (overlapped \/ Overlapping)
      /\ UNCHANGED <<code, bound, fleet, device, preview, redeemed, told, stopped, trespass>>
  BY DEF Enroll, CodeUsable
<1>2. r.op = "ENROLL" /\ r.code = c /\ r.app = a /\ r.others = {b \in Apps \ {a} : bound[b] = "ACTIVE"}
  OBVIOUS
<1>3. r.existing => bound[a] # "NONE"
  OBVIOUS
<1> HIDE DEF r
<1>4. DOMAIN req' = Workers /\ req'[w] = r /\ req[w].op = "IDLE" /\ \A v \in Workers \ {w} : req'[v] = req[v]
  BY <1>1, BeginFacts DEF IdentityInv, IdentityType
<1>5. Unrevoked' = Unrevoked /\ (\A x : SessionsOf(x)' = SessionsOf(x)) /\ preview.session \in Nat
  BY <1>1 DEF Unrevoked, SessionsOf, IdentityInv, IdentityType
<1>6. \A v \in Workers \ {w} : Holds(v)'
  <2>1. (~overlapped' => ~overlapped) /\ UNCHANGED <<code, bound, preview>>
    BY <1>1
  <2> QED BY <1>4, <1>5, <2>1, HoldsKept DEF IdentityInv
<1>7. Holds(w)'
  BY <1>1, <1>2, <1>3, <1>4 DEF Holds, EnrollHolds, RegisterHolds, OtherHolds, Busy
<1>8. Exclusive'
  <2> SUFFICES ASSUME NEW u \in Workers, NEW v \in Workers, u # v
               PROVE  /\ \A x \in Apps : ~(LockedBy(u, x)' /\ LockedBy(v, x)')
                      /\ Busy(u, "ENROLL")' /\ Busy(v, "ENROLL")' => req'[u].code # req'[v].code
                      /\ ~overlapped' => ~(Registering(u)' /\ Registering(v)')
    BY DEF Exclusive
  <2>1. ASSUME NEW z \in Workers \ {w}
        PROVE  /\ \A x \in Apps : LockedBy(z, x)' <=> LockedBy(z, x)
               /\ Busy(z, "ENROLL")' <=> Busy(z, "ENROLL")
               /\ Registering(z)' <=> Registering(z)
    BY <1>4 DEF LockedBy, Busy, Registering
  <2>2. \A x \in Apps : LockedBy(w, x)' => x = a /\ bound[a] # "NONE"
    BY <1>2, <1>3, <1>4 DEF LockedBy, Busy
  <2>3. ASSUME NEW z \in Workers \ {w}
        PROVE  /\ \A x \in Apps : ~(LockedBy(w, x)' /\ LockedBy(z, x)')
               /\ Busy(z, "ENROLL")' => req'[z].code # c
               /\ ~overlapped' => ~Registering(z)'
    <3>1. \A x \in Apps : ~(LockedBy(w, x)' /\ LockedBy(z, x)')
      BY <1>1, <2>1, <2>2 DEF BindingFree
    <3>2. Busy(z, "ENROLL")' => req'[z].code # c
      BY <1>1, <1>4, <2>1 DEF CodeFree
    <3>3. ~overlapped' => ~Registering(z)'
      BY <1>1, <2>1 DEF Overlapping, Registering
    <3> QED BY <3>1, <3>2, <3>3
  <2>4. CASE u = w
    BY <1>2, <1>4, <2>3, <2>4
  <2>5. CASE v = w
    BY <1>2, <1>4, <2>3, <2>5
  <2>6. CASE u # w /\ v # w
    BY <1>1, <1>4, <2>1, <2>6 DEF IdentityInv, Exclusive
  <2> QED BY <2>4, <2>5, <2>6
<1>9. IdentityType'
  BY <1>1, <1>4 DEF IdentityInv, IdentityType
<1>10. CodesSpent' /\ SessionsTrue' /\ OneBinding' /\ PreviewStopped' /\ ~trespass'
  BY <1>1, <1>5 DEF IdentityInv, CodesSpent, SessionsTrue, OneBinding, PreviewStopped
<1> QED BY <1>6, <1>7, <1>8, <1>9, <1>10 DEF IdentityInv

LEMMA RegisterSessionInv ==
  ASSUME IdentityInv, NEW w \in Workers, NEW caps, NEW acc \in Gates, NEW ime \in Gates, RegisterSession(w, caps, acc, ime)
  PROVE  IdentityInv'
<1> DEFINE a == req[w].app
           r == [op |-> "REGISTER", app |-> a, old |-> Unrevoked, caps |-> caps, acc |-> acc, ime |-> ime]
<1>1. /\ Busy(w, "AUTHENTICATED") /\ BindingFree(w, a) /\ bound[a] = "ACTIVE"
      /\ req' = [req EXCEPT ![w] = r] /\ overlapped' = (overlapped \/ Overlapping)
      /\ UNCHANGED <<code, bound, fleet, device, preview, redeemed, told, stopped>>
      /\ trespass' = (trespass \/ bound[a] # "ACTIVE")
  BY DEF RegisterSession, Authorised, Serving, StillBound
<1>2. r.op = "REGISTER" /\ r.app = a /\ r.old = Unrevoked /\ r.acc \in Gates /\ r.ime \in Gates
  OBVIOUS
<1>3. a \in Apps /\ DOMAIN req = Workers
  BY <1>1 DEF IdentityInv, IdentityType, Holds, OtherHolds
<1> HIDE DEF r
<1>4. DOMAIN req' = Workers /\ req'[w] = r /\ \A v \in Workers \ {w} : req'[v] = req[v]
  BY <1>1, <1>3
<1>5. Unrevoked' = Unrevoked /\ (\A x : SessionsOf(x)' = SessionsOf(x)) /\ preview.session \in Nat /\ SessionsOf(a) \subseteq Unrevoked
  BY <1>1 DEF Unrevoked, SessionsOf, IdentityInv, IdentityType
<1>6. \A v \in Workers \ {w} : Holds(v)'
  <2>1. (~overlapped' => ~overlapped) /\ UNCHANGED <<code, bound, preview>>
    BY <1>1
  <2> QED BY <1>4, <1>5, <2>1, HoldsKept DEF IdentityInv
<1>7. Holds(w)'
  BY <1>1, <1>2, <1>3, <1>4, <1>5 DEF Holds, EnrollHolds, RegisterHolds, OtherHolds, Busy
<1>8. Exclusive'
  <2> SUFFICES ASSUME NEW u \in Workers, NEW v \in Workers, u # v
               PROVE  /\ \A x \in Apps : ~(LockedBy(u, x)' /\ LockedBy(v, x)')
                      /\ Busy(u, "ENROLL")' /\ Busy(v, "ENROLL")' => req'[u].code # req'[v].code
                      /\ ~overlapped' => ~(Registering(u)' /\ Registering(v)')
    BY DEF Exclusive
  <2>1. ASSUME NEW z \in Workers \ {w}
        PROVE  /\ \A x \in Apps : LockedBy(z, x)' <=> LockedBy(z, x)
               /\ Busy(z, "ENROLL")' <=> Busy(z, "ENROLL")
               /\ Registering(z)' <=> Registering(z)
    BY <1>4 DEF LockedBy, Busy, Registering
  <2>2. (\A x \in Apps : LockedBy(w, x)' => x = a) /\ ~Busy(w, "ENROLL")'
    BY <1>2, <1>4 DEF LockedBy, Busy
  <2>3. ASSUME NEW z \in Workers \ {w}
        PROVE  /\ \A x \in Apps : ~(LockedBy(w, x)' /\ LockedBy(z, x)')
               /\ ~overlapped' => ~Registering(z)'
    <3>1. \A x \in Apps : ~(LockedBy(w, x)' /\ LockedBy(z, x)')
      BY <1>1, <2>1, <2>2 DEF BindingFree
    <3>2. ~overlapped' => ~Registering(z)'
      BY <1>1, <2>1 DEF Overlapping, Registering
    <3> QED BY <3>1, <3>2
  <2>4. CASE u = w
    BY <2>2, <2>3, <2>4
  <2>5. CASE v = w
    BY <2>2, <2>3, <2>5
  <2>6. CASE u # w /\ v # w
    BY <1>1, <1>4, <2>1, <2>6 DEF IdentityInv, Exclusive
  <2> QED BY <2>4, <2>5, <2>6
<1>9. IdentityType'
  BY <1>1, <1>4 DEF IdentityInv, IdentityType
<1>10. CodesSpent' /\ SessionsTrue' /\ OneBinding' /\ PreviewStopped' /\ ~trespass'
  BY <1>1, <1>5 DEF IdentityInv, CodesSpent, SessionsTrue, OneBinding, PreviewStopped
<1> QED BY <1>6, <1>7, <1>8, <1>9, <1>10 DEF IdentityInv

LEMMA NormalizedKnown ==
  ASSUME NEW table, KnownKeys(table)
  PROVE  Normalized(table) = table /\ table \in Tables
<1>1. ASSUME NEW keys \in table PROVE {k \in CAPABILITY_KEYS : k \in keys} = keys
  BY <1>1 DEF KnownKeys
<1>2. Normalized(table) = table
  BY <1>1 DEF Normalized
<1> QED BY <1>2 DEF KnownKeys, Tables

LEMMA NewSessionRow ==
  ASSUME NEW a \in Apps, NEW caps \in Tables, NEW acc \in Gates, NEW ime \in Gates
  PROVE  /\ NewSession(a, caps, acc, ime) \in FleetRows /\ NewSession(a, caps, acc, ime).app = a
         /\ ~NewSession(a, caps, acc, ime).revoked
         /\ NewSession(a, caps, acc, ime).caps = caps /\ NewSession(a, caps, acc, ime).acc = acc
BY DEF NewSession, FleetRows

\* Registration: the rows that were read are revoked, one is added.
LEMMA RegisteredFacts ==
  ASSUME fleet \in Seq(FleetRows), NEW old, NEW new \in FleetRows, ~new.revoked, fleet' = Registered(old, new)
  PROVE  /\ fleet' \in Seq(FleetRows) /\ fleet'[Len(fleet) + 1] = new /\ Len(fleet) \in Nat
         /\ Unrevoked' = (Unrevoked \ old) \cup {Len(fleet) + 1}
         /\ \A i \in Unrevoked \ old : fleet'[i] = fleet[i]
         /\ Len(fleet) + 1 \notin Unrevoked
<1> DEFINE n == Len(fleet)
           f == [i \in DOMAIN fleet |-> IF i \in old THEN [fleet[i] EXCEPT !.revoked = TRUE] ELSE fleet[i]]
<1>1. n \in Nat /\ DOMAIN fleet = 1 .. n /\ \A i \in 1 .. n : fleet[i] \in FleetRows
  OBVIOUS
<1>2. ASSUME NEW x \in FleetRows PROVE [x EXCEPT !.revoked = TRUE] \in FleetRows /\ [x EXCEPT !.revoked = TRUE].revoked = TRUE
  <2>1. [x EXCEPT !.revoked = TRUE] \in FleetRows
    BY DEF FleetRows
  <2>2. [x EXCEPT !.revoked = TRUE].revoked = TRUE
    BY Zenon DEF FleetRows
  <2> QED BY <2>1, <2>2
<1>3. /\ DOMAIN f = 1 .. n
      /\ \A i \in 1 .. n : f[i] = IF i \in old THEN [fleet[i] EXCEPT !.revoked = TRUE] ELSE fleet[i]
  BY <1>1
<1>4. \A i \in 1 .. n : f[i] \in FleetRows /\ (i \in old => f[i].revoked) /\ (i \notin old => f[i] = fleet[i])
  BY <1>1, <1>2, <1>3
<1>5. fleet' = Append(f, new)
  BY DEF Registered
<1>6. f \in Seq(FleetRows) /\ Len(f) = n
  <2>1. f = [i \in 1 .. n |-> f[i]]
    BY <1>1
  <2> HIDE DEF f
  <2>2. f \in [1 .. n -> FleetRows]
    BY <1>4, <2>1
  <2> QED BY <1>1, <2>2
<1> HIDE DEF f
<1>7. /\ fleet' \in Seq(FleetRows) /\ DOMAIN fleet' = 1 .. (n + 1) /\ fleet'[n + 1] = new
      /\ \A i \in 1 .. n : fleet'[i] = f[i]
  BY <1>1, <1>5, <1>6
<1>8. Unrevoked \subseteq 1 .. n /\ n + 1 \notin Unrevoked
  BY <1>1 DEF Unrevoked
<1>9. \A i \in 1 .. n : i \in Unrevoked' <=> i \in Unrevoked /\ i \notin old
  BY <1>1, <1>4, <1>7 DEF Unrevoked
<1>10. n + 1 \in Unrevoked' /\ Unrevoked' \subseteq 1 .. (n + 1)
  BY <1>1, <1>7 DEF Unrevoked
<1>11. Unrevoked' = (Unrevoked \ old) \cup {n + 1}
  <2>1. \A i \in 1 .. (n + 1) : i \in 1 .. n \/ i = n + 1
    BY <1>1
  <2>2. \A i : i \in Unrevoked' <=> i \in (Unrevoked \ old) \cup {n + 1}
    BY <1>8, <1>9, <1>10, <2>1
  <2> QED BY <2>2
<1> QED BY <1>1, <1>4, <1>7, <1>8, <1>11

\* Whoever holds the lock of the binding it registers is alone with it.
LEMMA NobodyElse ==
  ASSUME IdentityInv, NEW w \in Workers, NEW v \in Workers, v # w, Busy(v, "REGISTER"), Registering(w),
         Busy(w, "ENROLL") => req[w].existing \/ bound[req[w].app] = "NONE"
  PROVE  req[v].app \in Apps /\ req[v].app # req[w].app /\ overlapped
<1>1. req[v].app \in Apps /\ bound[req[v].app] # "NONE" /\ LockedBy(v, req[v].app) /\ Registering(v)
  BY DEF IdentityInv, Holds, RegisterHolds, LockedBy, Registering, Busy
<1>2. ~LockedBy(w, req[v].app) /\ overlapped
  BY <1>1 DEF IdentityInv, Exclusive
<1> QED BY <1>1, <1>2 DEF LockedBy, Registering, Busy

LEMMA RegisterCommitInv ==
  ASSUME IdentityInv, NEW w \in Workers, RegisterCommit(w)
  PROVE  IdentityInv'
<1> DEFINE r == req[w]
           a == r.app
           new == NewSession(a, Normalized(r.caps), r.acc, r.ime)
           n == Len(fleet)
<1>1. /\ Busy(w, "REGISTER") /\ End(w) /\ KnownKeys(r.caps) /\ fleet' = Registered(r.old, new)
      /\ device' = [device EXCEPT !.online = TRUE] /\ told' = [told EXCEPT ![a] = [caps |-> r.caps, acc |-> r.acc]]
      /\ UNCHANGED <<code, bound, preview, overlapped, redeemed, stopped, trespass>>
  BY DEF RegisterCommit, rowsOnly
<1>2. /\ a \in Apps /\ r.acc \in Gates /\ r.ime \in Gates /\ SessionsOf(a) \subseteq r.old
      /\ ~overlapped => Unrevoked \subseteq r.old
  BY <1>1 DEF IdentityInv, Holds, RegisterHolds
<1>3. /\ DOMAIN req = Workers /\ fleet \in Seq(FleetRows) /\ told \in [Apps -> [caps : Tables, acc : Gates]] /\ IdentityType
      /\ preview.session \in Nat
  BY DEF IdentityInv, IdentityType
<1>4. Normalized(r.caps) = r.caps /\ r.caps \in Tables
  BY <1>1, NormalizedKnown
<1>5. new \in FleetRows /\ new.app = a /\ ~new.revoked /\ new.caps = r.caps /\ new.acc = r.acc
  BY <1>2, <1>4, NewSessionRow
<1> HIDE DEF new
<1>6. /\ fleet' \in Seq(FleetRows) /\ fleet'[n + 1] = new /\ n \in Nat
      /\ Unrevoked' = (Unrevoked \ r.old) \cup {n + 1}
      /\ \A i \in Unrevoked \ r.old : fleet'[i] = fleet[i]
      /\ n + 1 \notin Unrevoked
  BY <1>1, <1>3, <1>5, RegisteredFacts
<1>7. /\ told' \in [Apps -> [caps : Tables, acc : Gates]] /\ told'[a].caps = r.caps /\ told'[a].acc = r.acc
      /\ \A b \in Apps \ {a} : told'[b] = told[b]
  BY <1>1, <1>2, <1>3, <1>4
<1>8. \A b \in Apps : IF b = a THEN SessionsOf(b)' = {n + 1} ELSE SessionsOf(b)' \subseteq SessionsOf(b)
  <2>1. \A i \in Unrevoked \ r.old : fleet[i].app # a
    BY <1>2 DEF SessionsOf
  <2> QED BY <1>5, <1>6, <2>1 DEF SessionsOf
<1>9. SessionsTrue'
  <2>1. \A b \in Apps : \A i, j \in SessionsOf(b)' : i = j
    BY <1>8 DEF IdentityInv, SessionsTrue
  <2>2. ASSUME NEW i \in Unrevoked'
        PROVE  fleet'[i].caps = told'[fleet'[i].app].caps /\ fleet'[i].acc = told'[fleet'[i].app].acc
    <3>1. CASE i = n + 1
      BY <1>5, <1>6, <1>7, <3>1
    <3>2. CASE i \in Unrevoked \ r.old
      <4>1. fleet'[i] = fleet[i] /\ fleet[i].app # a
        BY <1>2, <1>6, <3>2 DEF SessionsOf
      <4>2. fleet[i] \in FleetRows
        BY <1>3, <3>2 DEF Unrevoked
      <4>3. fleet[i].app \in Apps
        BY <4>2 DEF FleetRows
      <4> QED BY <1>7, <3>2, <4>1, <4>3 DEF IdentityInv, SessionsTrue
    <3> QED BY <1>6, <3>1, <3>2
  <2> QED BY <2>1, <2>2 DEF SessionsTrue
<1>10. DOMAIN req' = Workers /\ req'[w].op = "IDLE" /\ \A v \in Workers \ {w} : req'[v] = req[v]
  BY <1>1, <1>3, EndFacts
<1>11. device' \in [epoch : Nat, active : Apps \cup {"NONE"}, online : BOOLEAN] /\ device'.active = device.active
  BY <1>1, <1>3, OnlineKeepsActive
<1>12. ASSUME NEW v \in Workers \ {w} PROVE Holds(v)'
  <2>1. Busy(v, "REGISTER") => req[v].app \in Apps \ {a} /\ overlapped
    BY <1>1, NobodyElse DEF Registering, Busy
  <2>2. /\ Busy(v, "REGISTER") => SessionsOf(req[v].app)' \subseteq SessionsOf(req[v].app)
        /\ Busy(v, "REGISTER") /\ ~overlapped' => Unrevoked' \subseteq Unrevoked
    BY <1>1, <1>8, <1>10, <2>1
  <2> QED BY <1>1, <1>3, <1>10, <2>2, HoldsKept DEF IdentityInv
<1>13. Holds(w)'
  BY <1>10 DEF Holds, EnrollHolds, RegisterHolds, OtherHolds, Busy
<1>14. Exclusive'
  BY <1>1, <1>10, ExclusiveKept DEF IdentityInv, Registering
<1>15. IdentityType'
  BY <1>1, <1>6, <1>7, <1>10, <1>11 DEF IdentityInv, IdentityType
<1>16. OneBinding'
  BY <1>1, <1>2, <1>6, <1>11 DEF IdentityInv, OneBinding
<1>17. CodesSpent' /\ PreviewStopped' /\ ~trespass'
  BY <1>1 DEF IdentityInv, CodesSpent, PreviewStopped
<1> QED BY <1>9, <1>12, <1>13, <1>14, <1>15, <1>16, <1>17 DEF IdentityInv

LEMMA EnrollCommitInv ==
  ASSUME IdentityInv, NEW w \in Workers, EnrollCommit(w)
  PROVE  IdentityInv'
<1> DEFINE r == req[w]
           a == r.app
           c == r.code
           new == NewSession(a, {}, "NONE", "NONE")
           n == Len(fleet)
<1>1. /\ Busy(w, "ENROLL") /\ End(w) /\ (r.existing \/ bound[a] = "NONE")
      /\ code' = [code EXCEPT ![c] = "USED"] /\ redeemed' = [redeemed EXCEPT ![c] = @ + 1]
      /\ bound' = [b \in Apps |-> IF b = a THEN "ACTIVE" ELSE IF b \in r.others THEN "REVOKED" ELSE bound[b]]
      /\ device' = [epoch |-> device.epoch + 1, active |-> a, online |-> TRUE]
      /\ fleet' = Registered(Unrevoked, new) /\ told' = [told EXCEPT ![a] = Unreported]
      /\ UNCHANGED <<preview, overlapped, stopped, trespass>>
  BY DEF EnrollCommit, Replaced
<1>2. /\ a \in Apps /\ c \in Codes /\ code[c] = "OPEN"
      /\ ~overlapped => \A b \in Apps \ {a} : bound[b] = "ACTIVE" => b \in r.others
  BY <1>1 DEF IdentityInv, Holds, EnrollHolds
<1>3. /\ DOMAIN req = Workers /\ fleet \in Seq(FleetRows) /\ told \in [Apps -> [caps : Tables, acc : Gates]]
      /\ code \in [Codes -> {"NONE", "OPEN", "EXPIRED", "USED"}] /\ redeemed \in [Codes -> Nat]
      /\ bound \in [Apps -> {"NONE", "ACTIVE", "REVOKED"}] /\ preview.session \in Nat /\ device.epoch \in Nat
  BY DEF IdentityInv, IdentityType
<1>4. {} \in Tables /\ "NONE" \in Gates
  BY DEF Tables, Gates
<1>5. new \in FleetRows /\ new.app = a /\ ~new.revoked /\ new.caps = {} /\ new.acc = "NONE"
  BY <1>2, <1>4, NewSessionRow
<1> HIDE DEF new
<1>6. /\ fleet' \in Seq(FleetRows) /\ fleet'[n + 1] = new /\ Unrevoked' = {n + 1}
  BY <1>1, <1>3, <1>5, RegisteredFacts
<1>7. /\ told' \in [Apps -> [caps : Tables, acc : Gates]] /\ told'[a].caps = {} /\ told'[a].acc = "NONE"
  BY <1>1, <1>2, <1>3, <1>4 DEF Unreported
<1>8. \A b \in Apps \ {a} : SessionsOf(b)' = {}
  BY <1>5, <1>6 DEF SessionsOf
<1>9. SessionsTrue'
  BY <1>5, <1>6, <1>7 DEF SessionsTrue, SessionsOf
<1>10. DOMAIN req' = Workers /\ req'[w].op = "IDLE" /\ \A v \in Workers \ {w} : req'[v] = req[v]
  BY <1>1, <1>3, EndFacts
<1>11. device' \in [epoch : Nat, active : Apps \cup {"NONE"}, online : BOOLEAN] /\ device'.active = a
  BY <1>1, <1>2, <1>3
<1>12. /\ code' \in [Codes -> {"NONE", "OPEN", "EXPIRED", "USED"}] /\ redeemed' \in [Codes -> Nat]
       /\ \A d \in Codes \ {c} : code'[d] = code[d] /\ redeemed'[d] = redeemed[d]
       /\ code'[c] = "USED" /\ redeemed'[c] = redeemed[c] + 1
       /\ bound' \in [Apps -> {"NONE", "ACTIVE", "REVOKED"}]
       /\ \A b \in Apps : bound[b] # "NONE" => bound'[b] # "NONE"
  BY <1>1, <1>2, <1>3
<1>13. ASSUME NEW v \in Workers \ {w} PROVE Holds(v)'
  <2>1. Busy(v, "REGISTER") => req[v].app \in Apps \ {a} /\ overlapped
    BY <1>1, NobodyElse DEF Registering, Busy
  <2>2. Busy(v, "ENROLL") => overlapped /\ req[v].code \in Codes \ {c}
    BY <1>1 DEF IdentityInv, Exclusive, Registering, Busy, Holds, EnrollHolds
  <2>3. Busy(v, "REGISTER") => SessionsOf(req[v].app)' \subseteq SessionsOf(req[v].app)
    BY <1>8, <1>10, <2>1
  <2> QED BY <1>1, <1>3, <1>10, <1>12, <2>1, <2>2, <2>3, HoldsKept DEF IdentityInv
<1>14. Holds(w)'
  BY <1>10 DEF Holds, EnrollHolds, RegisterHolds, OtherHolds, Busy
<1>15. Exclusive'
  BY <1>1, <1>10, ExclusiveKept DEF IdentityInv, Registering
<1>16. IdentityType'
  BY <1>1, <1>6, <1>7, <1>10, <1>11, <1>12 DEF IdentityInv, IdentityType
<1>17. OneBinding'
  BY <1>1, <1>2, <1>6, <1>11 DEF IdentityInv, OneBinding
<1>18. CodesSpent'
  BY <1>2, <1>12 DEF IdentityInv, CodesSpent
<1>19. PreviewStopped' /\ ~trespass'
  BY <1>1 DEF IdentityInv, PreviewStopped
<1> QED BY <1>9, <1>13, <1>14, <1>15, <1>16, <1>17, <1>18, <1>19 DEF IdentityInv

\* A request served to a binding: what authenticate() returned, looked up again.
LEMMA AuthorisedFacts ==
  ASSUME IdentityInv, NEW w \in Workers, Serving(w), StillBound(req[w].app)
  PROVE  /\ req[w].app \in Apps /\ bound[req[w].app] = "ACTIVE" /\ req[w].op = "AUTHENTICATED" /\ ~Registering(w)
         /\ DOMAIN req = Workers
BY DEF IdentityInv, IdentityType, Holds, OtherHolds, Serving, StillBound, Busy, Registering

LEMMA DeviceHeartbeatInv ==
  ASSUME IdentityInv, NEW w \in Workers, NEW acc \in {"YES", "NO"}, NEW ime, DeviceHeartbeat(w, acc, ime)
  PROVE  IdentityInv'
<1> DEFINE a == req[w].app
<1>1. /\ Serving(w) /\ StillBound(a) /\ End(w)
      /\ fleet' = [i \in DOMAIN fleet |->
                      IF i \in SessionRefreshed(a)
                      THEN [fleet[i] EXCEPT !.acc = acc, !.ime = IF ime = "YES" THEN "YES" ELSE @]
                      ELSE fleet[i]]
      /\ device' = [device EXCEPT !.online = TRUE] /\ told' = [told EXCEPT ![a].acc = acc]
      /\ trespass' = (trespass \/ bound[a] # "ACTIVE")
      /\ UNCHANGED <<code, bound, preview, overlapped, redeemed, stopped>>
  BY DEF DeviceHeartbeat, Authorised
<1>2. a \in Apps /\ bound[a] = "ACTIVE" /\ DOMAIN req = Workers
  BY <1>1, AuthorisedFacts
<1>3. /\ fleet \in Seq(FleetRows) /\ told \in [Apps -> [caps : Tables, acc : Gates]] /\ IdentityType /\ preview.session \in Nat
      /\ acc \in Gates /\ "YES" \in Gates
  BY DEF IdentityInv, IdentityType, Gates
<1>4. ASSUME NEW x \in FleetRows
      PROVE  LET y == [x EXCEPT !.acc = acc, !.ime = IF ime = "YES" THEN "YES" ELSE @]
             IN  y \in FleetRows /\ y.app = x.app /\ y.revoked = x.revoked /\ y.caps = x.caps /\ y.acc = acc
  BY <1>3 DEF FleetRows
<1>5. ASSUME NEW i \in DOMAIN fleet
      PROVE  /\ fleet'[i] \in FleetRows /\ fleet'[i].app = fleet[i].app /\ fleet'[i].revoked = fleet[i].revoked
             /\ fleet'[i].caps = fleet[i].caps
             /\ fleet'[i].acc = IF i \in SessionRefreshed(a) THEN acc ELSE fleet[i].acc
  <2>1. fleet[i] \in FleetRows
    BY <1>3
  <2>2. CASE i \in SessionRefreshed(a)
    BY <1>1, <1>4, <2>1, <2>2
  <2>3. CASE i \notin SessionRefreshed(a)
    BY <1>1, <2>1, <2>3
  <2> QED BY <2>2, <2>3
<1>6. fleet' \in Seq(FleetRows) /\ DOMAIN fleet' = DOMAIN fleet
  <2>1. fleet' = [i \in 1 .. Len(fleet) |-> fleet'[i]] /\ Len(fleet) \in Nat /\ DOMAIN fleet = 1 .. Len(fleet)
    <3> DEFINE F(i) == IF i \in SessionRefreshed(a)
                       THEN [fleet[i] EXCEPT !.acc = acc, !.ime = IF ime = "YES" THEN "YES" ELSE @]
                       ELSE fleet[i]
    <3>1. fleet' = [i \in DOMAIN fleet |-> F(i)]
      BY <1>1
    <3> HIDE DEF F
    <3>2. Len(fleet) \in Nat /\ DOMAIN fleet = 1 .. Len(fleet)
      BY <1>3
    <3> QED BY <3>1, <3>2
  <2>2. fleet' \in [1 .. Len(fleet) -> FleetRows]
    BY <1>5, <2>1
  <2> QED BY <2>1, <2>2
<1>7. Unrevoked' = Unrevoked /\ \A b \in Apps : SessionsOf(b)' = SessionsOf(b)
  <2>1. Unrevoked' = Unrevoked
    BY <1>5, <1>6 DEF Unrevoked
  <2> QED BY <1>5, <2>1 DEF SessionsOf, Unrevoked
<1>8. /\ told' \in [Apps -> [caps : Tables, acc : Gates]] /\ told'[a].caps = told[a].caps /\ told'[a].acc = acc
      /\ \A b \in Apps \ {a} : told'[b] = told[b]
  BY <1>1, <1>2, <1>3
<1>9. SessionsTrue'
  <2>1. ASSUME NEW i \in Unrevoked
        PROVE  fleet'[i].caps = told'[fleet'[i].app].caps /\ fleet'[i].acc = told'[fleet'[i].app].acc
    <3>1. i \in DOMAIN fleet /\ i \in Nat
      BY <1>3, <2>1 DEF Unrevoked
    <3>2. fleet[i] \in FleetRows
      BY <1>3, <3>1
    <3>3. fleet[i].app \in Apps /\ fleet[i].caps = told[fleet[i].app].caps /\ fleet[i].acc = told[fleet[i].app].acc
      BY <2>1, <3>2 DEF FleetRows, IdentityInv, SessionsTrue
    <3>4. fleet[i].app = a <=> i \in SessionRefreshed(a)
      <4>1. fleet[i].app = a <=> i \in SessionsOf(a)
        BY <2>1 DEF SessionsOf
      <4>2. i \in SessionsOf(a) => \A j \in SessionsOf(a) : j = i
        BY <1>2 DEF IdentityInv, SessionsTrue
      <4> QED BY <3>1, <4>1, <4>2 DEF SessionRefreshed
    <3> QED BY <1>5, <1>8, <3>1, <3>3, <3>4
  <2> QED BY <1>7, <2>1 DEF IdentityInv, SessionsTrue
<1>10. DOMAIN req' = Workers /\ req'[w].op = "IDLE" /\ \A v \in Workers \ {w} : req'[v] = req[v]
  BY <1>1, <1>2, EndFacts
<1>11. device' \in [epoch : Nat, active : Apps \cup {"NONE"}, online : BOOLEAN] /\ device'.active = device.active
  BY <1>1, <1>3, OnlineKeepsActive
<1>12. ASSUME NEW v \in Workers \ {w} PROVE Holds(v)'
  <2>1. Busy(v, "REGISTER") => SessionsOf(req[v].app)' \subseteq SessionsOf(req[v].app)
    BY <1>7, <1>10 DEF IdentityInv, Holds, RegisterHolds
  <2>2. UNCHANGED <<code, bound, preview, overlapped>> /\ Holds(v)
    BY <1>1 DEF IdentityInv
  <2> QED BY <1>3, <1>7, <1>10, <2>1, <2>2, HoldsKept
<1>13. Holds(w)'
  BY <1>10 DEF Holds, EnrollHolds, RegisterHolds, OtherHolds, Busy
<1>14. Exclusive'
  BY <1>1, <1>10, ExclusiveKept DEF IdentityInv, Registering
<1>15. IdentityType'
  BY <1>1, <1>6, <1>8, <1>10, <1>11 DEF IdentityInv, IdentityType
<1>16. OneBinding' /\ CodesSpent' /\ PreviewStopped' /\ ~trespass'
  BY <1>1, <1>2, <1>7, <1>11 DEF IdentityInv, OneBinding, CodesSpent, PreviewStopped
<1> QED BY <1>9, <1>12, <1>13, <1>14, <1>15, <1>16 DEF IdentityInv

LEMMA BindingEndsInv ==
  ASSUME IdentityInv, NEW w \in Workers, Unbind(w)
  PROVE  IdentityInv'
<1> DEFINE a == req[w].app
<1>1. /\ Serving(w) /\ StillBound(a) /\ End(w) /\ bound' = [bound EXCEPT ![a] = "REVOKED"]
      /\ device' = [device EXCEPT !.online = FALSE] /\ trespass' = (trespass \/ bound[a] # "ACTIVE")
      /\ UNCHANGED <<code, fleet, preview, told, overlapped, redeemed, stopped>>
  BY DEF Unbind, Authorised
<1>2. a \in Apps /\ bound[a] = "ACTIVE" /\ DOMAIN req = Workers
  BY <1>1, AuthorisedFacts
<1>3. bound \in [Apps -> {"NONE", "ACTIVE", "REVOKED"}] /\ IdentityType /\ preview.session \in Nat
  BY DEF IdentityInv, IdentityType
<1>4. /\ bound' \in [Apps -> {"NONE", "ACTIVE", "REVOKED"}] /\ \A b \in Apps : bound'[b] = "ACTIVE" => bound[b] = "ACTIVE"
      /\ \A b \in Apps : bound[b] # "NONE" => bound'[b] # "NONE"
  BY <1>1, <1>3
<1>5. DOMAIN req' = Workers /\ req'[w].op = "IDLE" /\ \A v \in Workers \ {w} : req'[v] = req[v]
  BY <1>1, <1>2, EndFacts
<1>6. device' \in [epoch : Nat, active : Apps \cup {"NONE"}, online : BOOLEAN] /\ device'.active = device.active
  BY <1>1, <1>3, OnlineKeepsActive
<1>7. Unrevoked' = Unrevoked /\ \A x : SessionsOf(x)' = SessionsOf(x)
  BY <1>1 DEF Unrevoked, SessionsOf
<1>8. \A v \in Workers \ {w} : Holds(v)'
  BY <1>1, <1>3, <1>4, <1>5, <1>7, HoldsKept DEF IdentityInv
<1>9. Holds(w)'
  BY <1>5 DEF Holds, EnrollHolds, RegisterHolds, OtherHolds, Busy
<1>10. Exclusive'
  BY <1>1, <1>5, ExclusiveKept DEF IdentityInv, Registering
<1>11. IdentityType'
  BY <1>1, <1>4, <1>5, <1>6 DEF IdentityInv, IdentityType
<1>12. SessionsTrue' /\ OneBinding' /\ CodesSpent' /\ PreviewStopped' /\ ~trespass'
  BY <1>1, <1>2, <1>4, <1>6, <1>7 DEF IdentityInv, SessionsTrue, OneBinding, CodesSpent, PreviewStopped
<1> QED BY <1>8, <1>9, <1>10, <1>11, <1>12 DEF IdentityInv

\* Previews: a session that was stopped is never granted again.
LEMMA PreviewUpdates ==
  ASSUME IdentityInv
  PROVE  /\ LET p == [preview EXCEPT !.session = @ + 1, !.granted = TRUE]
            IN  /\ p \in [session : Nat, granted : BOOLEAN, frame : Nat] /\ p.session = preview.session + 1
                /\ preview.session + 1 \notin stopped /\ stopped \subseteq 1 .. (preview.session + 1)
         /\ LET p == [preview EXCEPT !.granted = FALSE]
            IN  p \in [session : Nat, granted : BOOLEAN, frame : Nat] /\ p.session = preview.session /\ ~p.granted
         /\ \A s \in Nat : LET p == [preview EXCEPT !.frame = s]
                           IN  /\ p \in [session : Nat, granted : BOOLEAN, frame : Nat]
                               /\ p.session = preview.session /\ p.granted = preview.granted
<1>1. preview \in [session : Nat, granted : BOOLEAN, frame : Nat] /\ preview.session \in Nat /\ stopped \subseteq 1 .. preview.session
  BY DEF IdentityInv, IdentityType, PreviewStopped
<1>2. preview.session + 1 \in Nat /\ preview.session + 1 \notin stopped /\ stopped \subseteq 1 .. (preview.session + 1)
  BY <1>1
<1> QED BY <1>1, <1>2

LEMMA QuietRequests ==
  ASSUME DOMAIN req = Workers, UNCHANGED req
  PROVE  DOMAIN req' = Workers /\ \A v \in Workers : req'[v] = req[v] \/ (~Registering(v)' /\ OtherHolds(v)')
OBVIOUS

LEMMA IdentityStep == IdentityInv /\ IdentityNext => IdentityInv'
<1> SUFFICES ASSUME IdentityInv, IdentityNext PROVE IdentityInv'
  OBVIOUS
<1>0. /\ DOMAIN req = Workers /\ preview \in [session : Nat, granted : BOOLEAN, frame : Nat] /\ preview.session \in Nat
      /\ device \in [epoch : Nat, active : Apps \cup {"NONE"}, online : BOOLEAN] /\ IdentityType /\ ~trespass
  BY DEF IdentityInv, IdentityType
<1>1. ASSUME NEW w \in Workers, RolledBack(w) \/ RefusedRevoked(w) PROVE IdentityInv'
  <2>1. End(w) /\ UNCHANGED <<code, bound, fleet, device, preview, overlapped, redeemed, told, stopped, trespass>>
    BY <1>1 DEF RolledBack, RefusedRevoked, identityVars
  <2> QED BY <1>0, <2>1, EndedRequest, PreviewKept, QuietStep
<1>2. ASSUME NEW w \in Workers, NEW a \in Apps, Authenticate(w, a) PROVE IdentityInv'
  <2> DEFINE r == [op |-> "AUTHENTICATED", app |-> a]
  <2>1. /\ Begin(w, r) /\ r.op = "AUTHENTICATED" /\ r.app = a /\ device' = [device EXCEPT !.online = TRUE]
        /\ UNCHANGED <<code, bound, fleet, preview, overlapped, redeemed, told, stopped, trespass>>
    BY <1>2 DEF Authenticate, rowsOnly
  <2> HIDE DEF r
  <2>2. DOMAIN req' = Workers /\ req'[w] = r /\ \A v \in Workers \ {w} : req'[v] = req[v]
    BY <1>0, <2>1, BeginFacts
  <2>3. ~Registering(w)' /\ OtherHolds(w)'
    BY <2>1, <2>2 DEF Registering, OtherHolds, Busy
  <2> QED BY <1>0, <2>1, <2>2, <2>3, OnlineKeepsActive, PreviewKept, QuietStep
<1>3. CASE OfflineAgain
  <2>1. /\ device' = [device EXCEPT !.online = FALSE]
        /\ UNCHANGED <<req, code, bound, fleet, preview, overlapped, redeemed, told, stopped, trespass>>
    BY <1>3 DEF OfflineAgain, reqVars, rowsOnly
  <2> QED BY <1>0, <2>1, OnlineKeepsActive, QuietRequests, PreviewKept, QuietStep
<1>4. ASSUME NEW w \in Workers, StartPreview(w) PROVE IdentityInv'
  <2>1. /\ preview' = [preview EXCEPT !.session = @ + 1, !.granted = TRUE]
        /\ UNCHANGED <<req, code, bound, fleet, device, overlapped, redeemed, told, stopped, trespass>>
    BY <1>4 DEF StartPreview, AtOnce, rowsOnly
  <2>2. /\ preview' \in [session : Nat, granted : BOOLEAN, frame : Nat] /\ preview'.session = preview.session + 1
        /\ preview'.session \notin stopped /\ stopped \subseteq 1 .. preview'.session
    BY <2>1, PreviewUpdates
  <2>3. PreviewStopped' /\ preview.session <= preview'.session
    BY <1>0, <2>1, <2>2 DEF PreviewStopped
  <2> QED BY <1>0, <2>1, <2>2, <2>3, QuietRequests, QuietStep
<1>5. ASSUME NEW w \in Workers, StopPreview(w) PROVE IdentityInv'
  <2> DEFINE r == [op |-> "STOP", session |-> preview.session]
  <2>1. /\ Begin(w, r) /\ r.op = "STOP" /\ r.session = preview.session /\ preview.session > 0
        /\ UNCHANGED <<code, bound, fleet, device, preview, overlapped, redeemed, told, stopped, trespass>>
    BY <1>5 DEF StopPreview, identityVars
  <2> HIDE DEF r
  <2>2. DOMAIN req' = Workers /\ req'[w] = r /\ \A v \in Workers \ {w} : req'[v] = req[v]
    BY <1>0, <2>1, BeginFacts
  <2>3. ~Registering(w)' /\ OtherHolds(w)'
    BY <1>0, <2>1, <2>2 DEF Registering, OtherHolds, Busy
  <2> QED BY <1>0, <2>1, <2>2, <2>3, PreviewKept, QuietStep
<1>6. ASSUME NEW w \in Workers, StopCommit(w) PROVE IdentityInv'
  <2>1. /\ End(w) /\ Busy(w, "STOP") /\ preview' = [preview EXCEPT !.granted = FALSE] /\ stopped' = stopped \cup {req[w].session}
        /\ UNCHANGED <<code, bound, fleet, device, overlapped, redeemed, told, trespass>>
    BY <1>6 DEF StopCommit
  <2>2. preview' \in [session : Nat, granted : BOOLEAN, frame : Nat] /\ preview'.session = preview.session /\ ~preview'.granted
    BY <2>1, PreviewUpdates
  <2>3. req[w].session \in 1 .. preview.session
    BY <2>1 DEF IdentityInv, Holds, OtherHolds
  <2>4. PreviewStopped' /\ preview.session <= preview'.session
    BY <1>0, <2>1, <2>2, <2>3 DEF IdentityInv, PreviewStopped
  <2> QED BY <1>0, <2>1, <2>2, <2>4, EndedRequest, QuietStep
<1>7. CASE PreviewExpires
  <2>1. /\ preview' = [preview EXCEPT !.granted = FALSE]
        /\ UNCHANGED <<req, code, bound, fleet, device, overlapped, redeemed, told, stopped, trespass>>
    BY <1>7 DEF PreviewExpires, reqVars, rowsOnly
  <2>2. preview' \in [session : Nat, granted : BOOLEAN, frame : Nat] /\ preview'.session = preview.session /\ ~preview'.granted
    BY <2>1, PreviewUpdates
  <2>3. PreviewStopped' /\ preview.session <= preview'.session
    BY <1>0, <2>1, <2>2 DEF IdentityInv, PreviewStopped
  <2> QED BY <1>0, <2>1, <2>2, <2>3, QuietRequests, QuietStep
<1>8. ASSUME NEW w \in Workers, NEW s \in 1 .. preview.session, UploadPreview(w, s) PROVE IdentityInv'
  <2>1. /\ Serving(w) /\ StillBound(req[w].app) /\ End(w) /\ s = preview.session /\ preview.granted
        /\ preview' = [preview EXCEPT !.frame = s]
        /\ trespass' = (trespass \/ bound[req[w].app] # "ACTIVE" \/ s \in stopped)
        /\ UNCHANGED <<code, bound, fleet, device, told, overlapped, redeemed, stopped>>
    BY <1>8 DEF UploadPreview, UploadOpen
  <2>2. bound[req[w].app] = "ACTIVE"
    BY <2>1, AuthorisedFacts
  <2>3. s \notin stopped
    BY <2>1 DEF IdentityInv, PreviewStopped
  <2>4. /\ preview' \in [session : Nat, granted : BOOLEAN, frame : Nat] /\ preview'.session = preview.session
        /\ preview'.granted = preview.granted
    BY <1>0, <2>1, PreviewUpdates
  <2>5. PreviewStopped' /\ preview.session <= preview'.session
    BY <1>0, <2>1, <2>4 DEF IdentityInv, PreviewStopped
  <2>6. ~trespass'
    BY <1>0, <2>1, <2>2, <2>3
  <2> QED BY <1>0, <2>1, <2>4, <2>5, <2>6, EndedRequest, QuietStep
<1>9. ASSUME NEW w \in Workers, NEW p \in Profiles, RegisterSession(w, p[1], p[2], p[3]) PROVE IdentityInv'
  <2>1. p[2] \in Gates /\ p[3] \in Gates
    BY DEF Gates
  <2> QED BY <1>9, <2>1, RegisterSessionInv
<1> QED BY <1>1, <1>2, <1>3, <1>4, <1>5, <1>6, <1>7, <1>8, <1>9, CreateEnrollmentInv, CodeExpiresInv, EnrollInv, EnrollCommitInv,
           RegisterCommitInv, DeviceHeartbeatInv, BindingEndsInv DEF IdentityNext

FleetIdentityInv ==
    IF service = "identity" THEN IdentityInv ELSE IdentityInit

LEMMA IdentityUntouched == IdentityInit => IdentitySound
<1> SUFFICES ASSUME IdentityInit PROVE IdentitySound
  OBVIOUS
<1>1. /\ Unrevoked = {} /\ \A a \in Apps : SessionsOf(a) = {} /\ bound[a] # "ACTIVE"
  BY DEF IdentityInit, Unrevoked, SessionsOf
<1>2. ~trespass /\ \A c \in Codes : redeemed[c] <= 1
  BY DEF IdentityInit
<1> QED BY <1>1, <1>2, FS_EmptySet DEF IdentitySound

\* A code enrolls once, revoked bindings and stopped previews are not served,
\* a claim passes only on what the Companion reported last, and registrations
\* that do not overlap leave one binding and one session: for every number of
\* codes, installations, profiles and requests.
THEOREM IdentitySoundCorrect == Spec => []IdentitySound
<1>1. Init => FleetIdentityInv
  BY IdentityStart DEF Init, FleetIdentityInv
<1>2. ASSUME FleetIdentityInv, [Next]_vars PROVE FleetIdentityInv'
  <2>1. CASE service = "identity" /\ Next
    BY <1>2, <2>1, IdentityStep DEF FleetIdentityInv, Next
  <2>2. CASE service # "identity" /\ Next
    BY <1>2, <2>2 DEF FleetIdentityInv, Next, identityVars, IdentityInit
  <2>3. CASE UNCHANGED vars
    <3>1. UNCHANGED <<service, req, code, bound, fleet, device, preview, overlapped, redeemed, told, stopped, trespass>>
      BY <2>3 DEF vars, rows, reqVars, identityVars
    <3>2. IdentityInv => IdentityInv'
      BY <3>1, QuietStep, QuietRequests, PreviewKept DEF IdentityInv, IdentityType
    <3> QED BY <1>2, <3>1, <3>2 DEF FleetIdentityInv, IdentityInit
  <2> QED BY <1>2, <2>1, <2>2, <2>3
<1>3. FleetIdentityInv => IdentitySound
  BY IdentityUntouched, IdentityHolds DEF FleetIdentityInv
<1> QED BY <1>1, <1>2, <1>3, PTL DEF Spec

-----------------------------------------------------------------------------
(* Live sessions                                                           *)

OpenRows ==
    [state : {"VIEWING", "REMOTE"}, tier : {"PREVIEW", "INTERACTIVE"}, confirmed : BOOLEAN, epoch : Nat, mark : Nat,
     regressions : Nat, companion : BOOLEAN, old : BOOLEAN]
LiveRows == OpenRows \cup {NoLive, Closed, [state |-> "GONE"]}

Named(s) == liveRow.owner = s /\ liveRow.type = "REMOTE" /\ liveRow.active

(* The mark of an open session bounds what was relayed in its period, whose*)
(* epoch no later period has; who is in control was confirmed.             *)
LiveTrue(s) ==
    /\ live[s] \in LiveRows
    /\ Open(s) => /\ live[s].epoch <= liveEpoch
                  /\ \A a \in relayed : a[1] = s /\ a[2] = live[s].epoch => a[3] <= live[s].mark
    /\ live[s].state = "REMOTE" => live[s].confirmed
    /\ live[s].state = "CLOSED" => ~(liveRow.active /\ liveRow.owner = s)
    /\ ~resumed /\ live[s].state = "REMOTE" /\ ~live[s].old => Named(s)

LiveInv ==
    /\ DOMAIN live = LiveIds /\ liveEpoch \in Nat
    /\ liveRow \in [owner : LiveIds \cup {"NONE", "TASK"}, type : {"NONE", "LIVE", "REMOTE", "AUTO"}, active : BOOLEAN]
    /\ inputs \subseteq [session : LiveIds, seq : Nat, epoch : Nat]
    /\ \A a \in relayed : a[2] \in Nat /\ a[3] \in Nat /\ a[2] <= liveEpoch
    /\ ~misled
    /\ \A s \in LiveIds : LiveTrue(s)

(* The first slice: unless an entry was lost, it names the session that    *)
(* runs and has not expired.                                               *)
LegacyRows ==
    [state : {"VIEWING", "REMOTE", "CLOSED"}, mark : Nat, rate : Nat, old : BOOLEAN] \cup {NoLive, [state |-> "GONE"]}

LegacyInv ==
    /\ legacy \in [LegacyIds -> LegacyRows]
    /\ ~popped => \A s \in LegacyIds : LegacyRunning(s) /\ ~legacy[s].old => byDevice = s

LEMMA LiveStart == LiveInit => LiveInv /\ LegacyInv
<1> SUFFICES ASSUME LiveInit PROVE LiveInv /\ LegacyInv
  OBVIOUS
<1>1. NoLive.state = "NONE"
  BY DEF NoLive
<1>2. \A s \in LiveIds : live[s] = NoLive
  BY DEF LiveInit
<1>3. \A s \in LiveIds : LiveTrue(s)
  BY <1>1, <1>2 DEF LiveTrue, LiveRows, Open
<1>4. LiveInv
  BY <1>3 DEF LiveInit, LiveInv
<1>5. LegacyInv
  BY <1>1 DEF LiveInit, LegacyInv, LegacyRows, LegacyRunning
<1> QED BY <1>4, <1>5

LEMMA LiveSound == LiveInv /\ LegacyInv => LiveSingleWriter
<1> SUFFICES ASSUME LiveInv, LegacyInv PROVE LiveSingleWriter
  OBVIOUS
<1>1. ASSUME NEW s \in LegacyIds, legacy[s].state = "REMOTE", ~legacy[s].old, ~popped PROVE byDevice = s /\ HasRemote
  <2>1. byDevice = s
    BY <1>1 DEF LegacyInv, LegacyRunning
  <2> QED BY <1>1, <2>1, LiveAssumption DEF HasRemote
<1> QED BY <1>1 DEF LiveInv, LiveTrue, Named, LiveSingleWriter

LEMMA OpenRow ==
  ASSUME LiveInv, NEW s \in LiveIds, Open(s)
  PROVE  live[s] \in OpenRows
<1>1. live[s] \in LiveRows
  BY DEF LiveInv, LiveTrue
<1>2. live[s] # NoLive /\ live[s] # Closed /\ live[s] # [state |-> "GONE"]
  BY DEF Open, NoLive, Closed
<1> QED BY <1>1, <1>2 DEF LiveRows

\* A session the step is not about.
LEMMA OtherLive ==
  ASSUME LiveInv, NEW t \in LiveIds, live'[t] = live[t], liveEpoch' \in Nat, liveEpoch <= liveEpoch',
         ~resumed' => ~resumed, \A a \in relayed' : a \in relayed \/ a[1] # t,
         live[t].state = "CLOSED" => ~(liveRow'.active /\ liveRow'.owner = t),
         ~resumed' /\ live[t].state = "REMOTE" /\ ~live[t].old => Named(t)'
  PROVE  LiveTrue(t)'
<1>1. LiveTrue(t) /\ liveEpoch \in Nat
  BY DEF LiveInv
<1>2. Open(t)' <=> Open(t)
  BY DEF Open
<1>3. Open(t) => live[t].epoch \in Nat
  BY OpenRow DEF OpenRows
<1> QED BY <1>1, <1>2, <1>3 DEF LiveTrue

\* The lease row closed or given back by session s says nothing of others.
LEMMA RowTouched ==
  ASSUME LiveInv, NEW s \in LiveIds, liveRow' \in {liveRow, RowClosed(s, liveRow), RowViewing(s, liveRow)}
  PROVE  /\ liveRow' \in [owner : LiveIds \cup {"NONE", "TASK"}, type : {"NONE", "LIVE", "REMOTE", "AUTO"}, active : BOOLEAN]
         /\ liveRow'.owner = liveRow.owner /\ (liveRow'.active => liveRow.active)
         /\ liveRow.owner # s => liveRow' = liveRow
<1>1. liveRow \in [owner : LiveIds \cup {"NONE", "TASK"}, type : {"NONE", "LIVE", "REMOTE", "AUTO"}, active : BOOLEAN]
  BY DEF LiveInv
<1>2. CASE liveRow' = liveRow
  BY <1>1, <1>2
<1>3. CASE liveRow.owner = s /\ liveRow' = [liveRow EXCEPT !.active = FALSE]
  BY <1>1, <1>3
<1>4. CASE liveRow.owner = s /\ liveRow' = [liveRow EXCEPT !.type = "LIVE"]
  BY <1>1, <1>4
<1> QED BY <1>2, <1>3, <1>4 DEF RowClosed, RowViewing

\* Steps of one session that leave the row to it.
LEMMA SessionStep ==
  ASSUME LiveInv, NEW s \in LiveIds, NEW x, live' = [live EXCEPT ![s] = x],
         liveRow' \in {liveRow, RowClosed(s, liveRow), RowViewing(s, liveRow)},
         UNCHANGED <<liveEpoch, inputs, resumed>>, ~misled',
         \A a \in relayed' : a \in relayed \/ (a[1] = s /\ a[2] \in Nat /\ a[3] \in Nat /\ a[2] <= liveEpoch),
         LiveTrue(s)'
  PROVE  LiveInv'
<1>1. /\ liveRow' \in [owner : LiveIds \cup {"NONE", "TASK"}, type : {"NONE", "LIVE", "REMOTE", "AUTO"}, active : BOOLEAN]
      /\ liveRow'.owner = liveRow.owner /\ (liveRow'.active => liveRow.active)
      /\ liveRow.owner # s => liveRow' = liveRow
  BY RowTouched
<1>2. DOMAIN live' = LiveIds /\ (\A t \in LiveIds \ {s} : live'[t] = live[t]) /\ liveEpoch \in Nat
  BY DEF LiveInv
<1>3. ASSUME NEW t \in LiveIds \ {s} PROVE LiveTrue(t)'
  <2>1. LiveTrue(t)
    BY DEF LiveInv
  <2>2. live[t].state = "CLOSED" => ~(liveRow'.active /\ liveRow'.owner = t)
    BY <1>1, <2>1 DEF LiveTrue
  <2>3. ~resumed' /\ live[t].state = "REMOTE" /\ ~live[t].old => Named(t)'
    BY <1>1, <2>1 DEF LiveTrue, Named
  <2> QED BY <1>2, <2>2, <2>3, OtherLive
<1>4. \A a \in relayed' : a[2] \in Nat /\ a[3] \in Nat /\ a[2] <= liveEpoch'
  BY DEF LiveInv
<1>5. \A t \in LiveIds : LiveTrue(t)'
  BY <1>3
<1> QED BY <1>1, <1>2, <1>4, <1>5 DEF LiveInv

\* Within one period of control.
LEMMA SamePeriod ==
  ASSUME LiveInv, NEW s \in LiveIds, Open(s), NEW x \in OpenRows, live'[s] = x,
         x.epoch = live[s].epoch, live[s].mark <= x.mark, UNCHANGED <<liveEpoch, resumed>>,
         \A a \in relayed' : a \in relayed \/ (a[1] = s /\ a[2] = x.epoch => a[3] <= x.mark),
         x.state = "REMOTE" => live[s].state = "REMOTE" /\ x.confirmed,
         x.state = "REMOTE" /\ ~x.old => ~live[s].old /\ liveRow' = liveRow
  PROVE  LiveTrue(s)'
<1>1. live[s] \in OpenRows /\ LiveTrue(s)
  BY OpenRow DEF LiveInv
<1>2. /\ live[s].epoch \in Nat /\ live[s].mark \in Nat /\ x.mark \in Nat /\ x.state \in {"VIEWING", "REMOTE"}
  BY <1>1 DEF OpenRows
<1>3. \A a \in relayed : a[3] \in Nat
  BY DEF LiveInv
<1>4. \A a \in relayed' : a[1] = s /\ a[2] = x.epoch => a[3] <= x.mark
  BY <1>1, <1>2, <1>3 DEF LiveTrue
<1> QED BY <1>1, <1>2, <1>4 DEF LiveTrue, LiveRows, Open, Named

LEMMA ClosedSession ==
  ASSUME LiveInv, NEW s \in LiveIds, live'[s] = Closed, liveRow' = RowClosed(s, liveRow)
  PROVE  LiveTrue(s)'
<1>1. Closed.state = "CLOSED" /\ Closed \in LiveRows
  BY DEF Closed, LiveRows
<1>2. ~(liveRow'.active /\ liveRow'.owner = s)
  <2>1. CASE liveRow.owner = s
    <3>1. liveRow' = [liveRow EXCEPT !.active = FALSE]
      BY <2>1 DEF RowClosed
    <3>2. liveRow'.active = FALSE
      BY <3>1, Zenon DEF LiveInv
    <3> QED BY <3>2
  <2>2. CASE liveRow.owner # s
    BY <2>2 DEF RowClosed
  <2> QED BY <2>1, <2>2
<1> QED BY <1>1, <1>2 DEF LiveTrue, Open

LEMMA CloseInv ==
  ASSUME LiveInv, NEW s \in LiveIds, live' = [live EXCEPT ![s] = Closed], liveRow' = RowClosed(s, liveRow),
         UNCHANGED <<liveEpoch, inputs, relayed, misled, resumed>>
  PROVE  LiveInv'
<1>1. live'[s] = Closed /\ ~misled'
  BY DEF LiveInv
<1>2. LiveTrue(s)'
  BY <1>1, ClosedSession
<1> QED BY <1>1, <1>2, SessionStep

\* Viewing again: control was given up, with or without the row.
LEMMA ViewInv ==
  ASSUME LiveInv, NEW s \in LiveIds, Open(s), NEW x \in OpenRows, live' = [live EXCEPT ![s] = x],
         x.state = "VIEWING", x.epoch = live[s].epoch, x.mark = live[s].mark,
         liveRow' \in {liveRow, RowViewing(s, liveRow)},
         UNCHANGED <<liveEpoch, inputs, relayed, misled, resumed>>
  PROVE  LiveInv'
<1>1. live'[s] = x /\ ~misled' /\ live[s] \in OpenRows
  BY OpenRow DEF LiveInv
<1>2. live[s].mark <= x.mark
  BY <1>1 DEF OpenRows
<1>3. LiveTrue(s)'
  BY <1>1, <1>2, SamePeriod
<1> QED BY <1>1, <1>3, SessionStep

LEMMA ViewingRow ==
  ASSUME NEW l \in OpenRows
  PROVE  /\ Viewing(l) \in OpenRows /\ Viewing(l).state = "VIEWING" /\ Viewing(l).epoch = l.epoch /\ Viewing(l).mark = l.mark
         /\ \A b \in BOOLEAN : LET x == [Viewing(l) EXCEPT !.companion = b]
                               IN  x \in OpenRows /\ x.state = "VIEWING" /\ x.epoch = l.epoch /\ x.mark = l.mark
BY DEF Viewing, OpenRows

LEMMA EstablishInv ==
  ASSUME LiveInv, NEW w \in Workers, NEW s \in LiveIds, NEW tier \in {"PREVIEW", "INTERACTIVE"}, Establish(w, s, tier)
  PROVE  LiveInv'
<1> DEFINE x == NewLive(tier, liveEpoch + 1)
<1>1. /\ ~LaneTaken /\ liveEpoch' = liveEpoch + 1 /\ live' = [live EXCEPT ![s] = x]
      /\ liveRow' = [owner |-> s, type |-> "LIVE", active |-> TRUE]
      /\ UNCHANGED <<inputs, relayed, misled, resumed>>
  BY DEF Establish
<1>2. /\ liveEpoch \in Nat /\ DOMAIN live = LiveIds
      /\ \A a \in relayed : a[2] \in Nat /\ a[3] \in Nat /\ a[2] <= liveEpoch
  BY DEF LiveInv
<1>3. live'[s] = x /\ DOMAIN live' = LiveIds /\ \A t \in LiveIds \ {s} : live'[t] = live[t]
  BY <1>1, <1>2
<1>4. x \in OpenRows /\ x.state = "VIEWING" /\ x.epoch = liveEpoch + 1
  BY <1>2 DEF NewLive, OpenRows
<1> HIDE DEF x
<1>5. LiveTrue(s)'
  BY <1>1, <1>2, <1>3, <1>4 DEF LiveTrue, LiveRows, Open
<1>6. ASSUME NEW t \in LiveIds \ {s} PROVE LiveTrue(t)'
  <2>1. LiveTrue(t)
    BY DEF LiveInv
  <2>2. ~(liveRow'.owner = t)
    BY <1>1
  <2>3. ~(~resumed' /\ live[t].state = "REMOTE" /\ ~live[t].old)
    BY <1>1, <2>1 DEF LiveTrue, Named, LaneTaken
  <2>4. liveEpoch' \in Nat /\ liveEpoch <= liveEpoch' /\ (~resumed' => ~resumed)
    BY <1>1, <1>2
  <2> QED BY <1>1, <1>3, <2>2, <2>3, <2>4, OtherLive
<1>7. \A t \in LiveIds : LiveTrue(t)'
  BY <1>5, <1>6
<1> QED BY <1>1, <1>2, <1>3, <1>7 DEF LiveInv

LEMMA LiveStatusInv ==
  ASSUME LiveInv, NEW w \in Workers, NEW s \in LiveIds, LiveStatus(w, s)
  PROVE  LiveInv'
<1>1. PICK how \in SweepMay(s) \ {"KEEP"} : live' = [live EXCEPT ![s] = Swept(s, how)] /\ liveRow' = RowSwept(s, how)
  BY DEF LiveStatus
<1>2. Open(s) /\ UNCHANGED <<liveEpoch, inputs, relayed, misled, resumed>>
  BY DEF LiveStatus
<1>3. how \in {"CLOSE", "RELEASE"}
  BY <1>1 DEF SweepMay
<1>4. CASE how = "CLOSE"
  BY <1>1, <1>2, <1>4, CloseInv DEF Swept, RowSwept
<1>5. CASE how = "RELEASE"
  <2>1. live[s] \in OpenRows
    BY <1>2, OpenRow
  <2>2. live' = [live EXCEPT ![s] = Viewing(live[s])] /\ liveRow' = RowViewing(s, liveRow)
    BY <1>1, <1>5 DEF Swept, RowSwept
  <2> QED BY <1>2, <2>1, <2>2, ViewingRow, ViewInv
<1> QED BY <1>3, <1>4, <1>5

LEMMA AckInv ==
  ASSUME LiveInv, NEW w \in Workers, NEW s \in LiveIds, NEW granted \in BOOLEAN, AckProjection(w, s, granted)
  PROVE  LiveInv'
<1>1. Open(s) /\ UNCHANGED <<liveEpoch, inputs, relayed, misled, resumed>>
  BY DEF AckProjection
<1>2. CASE ~granted
  <2>1. live' = [live EXCEPT ![s] = Closed] /\ liveRow' = RowClosed(s, liveRow)
    BY <1>2 DEF AckProjection
  <2> QED BY <1>1, <2>1, CloseInv
<1>3. CASE granted
  <2> DEFINE x == [live[s] EXCEPT !.confirmed = TRUE]
  <2>1. live' = [live EXCEPT ![s] = x] /\ liveRow' = liveRow
    BY <1>3 DEF AckProjection
  <2>2. live[s] \in OpenRows /\ DOMAIN live = LiveIds /\ ~misled
    BY <1>1, OpenRow DEF LiveInv
  <2>3. /\ x \in OpenRows /\ x.epoch = live[s].epoch /\ x.mark = live[s].mark /\ live[s].mark \in Nat
        /\ x.state = live[s].state /\ x.old = live[s].old
    BY <2>2 DEF OpenRows
  <2>4. x.confirmed = TRUE
    BY <2>2, Zenon DEF OpenRows
  <2> HIDE DEF x
  <2>5. live'[s] = x
    BY <2>1, <2>2
  <2>6. LiveTrue(s)'
    BY <1>1, <2>1, <2>3, <2>4, <2>5, SamePeriod
  <2> QED BY <1>1, <2>1, <2>2, <2>6, SessionStep
<1> QED BY <1>2, <1>3

LEMMA TakeControlInv ==
  ASSUME LiveInv, NEW w \in Workers, NEW s \in LiveIds, TakeControl(w, s)
  PROVE  LiveInv'
<1> DEFINE x == [live[s] EXCEPT !.state = "REMOTE", !.epoch = liveEpoch + 1, !.mark = 0, !.regressions = 0]
<1>1. /\ Open(s) /\ ~HeldByOther(s) /\ MayControl(live[s]) /\ liveEpoch' = liveEpoch + 1
      /\ liveRow' = [owner |-> s, type |-> "REMOTE", active |-> TRUE]
      /\ UNCHANGED <<inputs, relayed, misled, resumed>>
  BY DEF TakeControl
<1>2. /\ liveEpoch \in Nat /\ DOMAIN live = LiveIds /\ live[s] \in OpenRows
      /\ \A a \in relayed : a[2] \in Nat /\ a[3] \in Nat /\ a[2] <= liveEpoch
  BY <1>1, OpenRow DEF LiveInv
<1>3. live'[s] = x /\ DOMAIN live' = LiveIds /\ \A t \in LiveIds \ {s} : live'[t] = live[t]
  BY <1>2 DEF TakeControl
<1>4. x.state = "REMOTE" /\ x.epoch = liveEpoch + 1 /\ x.confirmed = live[s].confirmed
  BY <1>2 DEF OpenRows
<1>9. x \in OpenRows
  <2>1. \A l \in OpenRows, n \in Nat : [l EXCEPT !.state = "REMOTE", !.epoch = n, !.mark = 0, !.regressions = 0] \in OpenRows
    BY DEF OpenRows
  <2>2. liveEpoch + 1 \in Nat
    BY <1>2
  <2> QED BY <1>2, <2>1, <2>2
<1> HIDE DEF x
<1>5. x.confirmed
  BY <1>1, <1>4 DEF MayControl
<1>6. LiveTrue(s)'
  BY <1>1, <1>2, <1>3, <1>4, <1>5, <1>9 DEF LiveTrue, LiveRows, Open, Named
<1>7. ASSUME NEW t \in LiveIds \ {s} PROVE LiveTrue(t)'
  <2>1. LiveTrue(t)
    BY DEF LiveInv
  <2>2. ~(liveRow'.owner = t)
    BY <1>1
  <2>3. ~(~resumed' /\ live[t].state = "REMOTE" /\ ~live[t].old)
    BY <1>1, <2>1 DEF LiveTrue, Named, HeldByOther
  <2>4. liveEpoch' \in Nat /\ liveEpoch <= liveEpoch' /\ (~resumed' => ~resumed)
    BY <1>1, <1>2
  <2> QED BY <1>1, <1>3, <2>2, <2>3, <2>4, OtherLive
<1>8. \A t \in LiveIds : LiveTrue(t)'
  BY <1>6, <1>7
<1> QED BY <1>1, <1>2, <1>3, <1>8 DEF LiveInv

LEMMA GiveUpInv ==
  ASSUME LiveInv, NEW w \in Workers, NEW s \in LiveIds, ReleaseControl(w, s) \/ Stop(w, s)
  PROVE  LiveInv'
<1>1. CASE Stop(w, s)
  BY <1>1, CloseInv DEF Stop
<1>2. CASE ReleaseControl(w, s)
  <2>1. /\ Open(s) /\ live' = [live EXCEPT ![s] = Viewing(live[s])] /\ liveRow' = RowViewing(s, liveRow)
        /\ UNCHANGED <<liveEpoch, inputs, relayed, misled, resumed>>
    BY <1>2 DEF ReleaseControl, Open
  <2>2. live[s] \in OpenRows
    BY <2>1, OpenRow
  <2> QED BY <2>1, <2>2, ViewingRow, ViewInv
<1> QED BY <1>1, <1>2

LEMMA NotifyInv ==
  ASSUME LiveInv, NEW w \in Workers, NEW s \in LiveIds, NEW who \in {"OPERATOR", "COMPANION"}, NotifyDisconnect(w, s, who)
  PROVE  LiveInv'
<1>1. /\ Open(s) /\ liveRow' \in {liveRow, RowViewing(s, liveRow)}
      /\ UNCHANGED <<liveEpoch, inputs, relayed, misled, resumed>>
  BY DEF NotifyDisconnect
<1>2. live[s] \in OpenRows
  BY <1>1, OpenRow
<1>3. PICK b \in BOOLEAN : live' = [live EXCEPT ![s] = [Viewing(live[s]) EXCEPT !.companion = b]]
  <2>1. Viewing(live[s]).companion \in BOOLEAN
    BY <1>2, ViewingRow DEF OpenRows
  <2>2. (Viewing(live[s]).companion /\ who = "OPERATOR") \in BOOLEAN
    BY <2>1
  <2>3. live' = [live EXCEPT ![s] = [Viewing(live[s]) EXCEPT !.companion = (Viewing(live[s]).companion /\ who = "OPERATOR")]]
    BY Zenon DEF NotifyDisconnect
  <2> QED BY <2>2, <2>3
<1> DEFINE x == [Viewing(live[s]) EXCEPT !.companion = b]
<1>4. x \in OpenRows /\ x.state = "VIEWING" /\ x.epoch = live[s].epoch /\ x.mark = live[s].mark
  BY <1>2, ViewingRow
<1>5. live' = [live EXCEPT ![s] = x]
  BY <1>3
<1> HIDE DEF x
<1> QED BY <1>1, <1>4, <1>5, ViewInv

LEMMA ComposeInv ==
  ASSUME LiveInv, NEW s \in LiveIds, NEW seq \in 1..MaxSeq, NEW named \in BOOLEAN, Compose(s, seq, named)
  PROVE  LiveInv'
<1> DEFINE new == [session |-> s, seq |-> seq, epoch |-> IF named THEN live[s].epoch ELSE 0]
<1>1. /\ Open(s) /\ UNCHANGED <<live, liveRow, liveEpoch, relayed, misled, resumed>>
      /\ inputs' = inputs \cup {new}
  BY DEF Compose, Open
<1>2. live[s].epoch \in Nat
  BY <1>1, OpenRow DEF OpenRows
<1>3. new \in [session : LiveIds, seq : Nat, epoch : Nat]
  BY <1>2, LiveAssumption
<1> HIDE DEF new
<1>4. \A t \in LiveIds : LiveTrue(t)'
  BY <1>1 DEF LiveInv, LiveTrue, Open, Named
<1> QED BY <1>1, <1>3, <1>4 DEF LiveInv

LEMMA AttachInv ==
  ASSUME LiveInv, NEW w \in Workers, NEW s \in LiveIds, AttachCompanion(w, s)
  PROVE  LiveInv'
<1> DEFINE x == [live[s] EXCEPT !.companion = TRUE]
<1>1. Open(s) /\ live' = [live EXCEPT ![s] = x] /\ UNCHANGED <<liveRow, liveEpoch, inputs, relayed, misled, resumed>>
  BY DEF AttachCompanion
<1>2. live[s] \in OpenRows /\ DOMAIN live = LiveIds /\ ~misled /\ LiveTrue(s)
  BY <1>1, OpenRow DEF LiveInv
<1>3. /\ x.epoch = live[s].epoch /\ x.mark = live[s].mark /\ live[s].mark \in Nat
      /\ x.state = live[s].state /\ x.old = live[s].old /\ x.confirmed = live[s].confirmed
  BY <1>2 DEF OpenRows
<1>4. x \in OpenRows
  BY <1>2 DEF OpenRows
<1> HIDE DEF x
<1>5. live'[s] = x
  BY <1>1, <1>2
<1>6. live[s].state = "REMOTE" => live[s].confirmed
  BY <1>2 DEF LiveTrue
<1>7. LiveTrue(s)'
  BY <1>1, <1>3, <1>4, <1>5, <1>6, SamePeriod
<1> QED BY <1>1, <1>2, <1>7, SessionStep

LEMMA LimitInv ==
  ASSUME LiveInv, NEW s \in LiveIds, LiveLimit(s)
  PROVE  LiveInv'
<1>1. liveRow' = RowClosed(s, liveRow) /\ UNCHANGED <<liveEpoch, inputs, relayed, misled, resumed>>
  BY DEF LiveLimit
<1>2. DOMAIN live = LiveIds /\ ~misled /\ LiveTrue(s) /\ liveEpoch \in Nat
  BY DEF LiveInv
<1>3. CASE Open(s) /\ live' = [live EXCEPT ![s].old = TRUE]
  <2> DEFINE x == [live[s] EXCEPT !.old = TRUE]
  <2>1. live' = [live EXCEPT ![s] = x] /\ live[s] \in OpenRows
    BY <1>3, OpenRow
  <2>2. /\ x.epoch = live[s].epoch /\ x.mark = live[s].mark /\ live[s].mark \in Nat
        /\ x.state = live[s].state /\ x.confirmed = live[s].confirmed
    BY <2>1 DEF OpenRows
  <2>3. x \in OpenRows
    BY <2>1 DEF OpenRows
  <2>4. x.old = TRUE
    BY <2>1, Zenon DEF OpenRows
  <2> HIDE DEF x
  <2>5. live'[s] = x
    BY <1>2, <2>1
  <2>6. live[s].state = "REMOTE" => live[s].confirmed
    BY <1>2 DEF LiveTrue
  <2>7. LiveTrue(s)'
    BY <1>1, <1>3, <2>2, <2>3, <2>4, <2>5, <2>6, SamePeriod
  <2> QED BY <1>1, <1>2, <2>1, <2>7, SessionStep
<1>4. CASE live[s].state = "GONE" /\ liveRow.owner = s /\ UNCHANGED live
  <2>1. /\ liveRow' \in [owner : LiveIds \cup {"NONE", "TASK"}, type : {"NONE", "LIVE", "REMOTE", "AUTO"}, active : BOOLEAN]
        /\ liveRow'.owner = liveRow.owner /\ (liveRow'.active => liveRow.active)
    BY <1>1, RowTouched
  <2>2. ASSUME NEW t \in LiveIds PROVE LiveTrue(t)'
    <3>1. LiveTrue(t)
      BY DEF LiveInv
    <3>2. live[t].state = "CLOSED" => ~(liveRow'.active /\ liveRow'.owner = t)
      BY <2>1, <3>1 DEF LiveTrue
    <3>3. ~(~resumed' /\ live[t].state = "REMOTE" /\ ~live[t].old)
      BY <1>1, <1>4, <3>1 DEF LiveTrue, Named
    <3> QED BY <1>1, <1>2, <1>4, <3>2, <3>3, OtherLive
  <2> QED BY <1>1, <1>4, <2>1, <2>2 DEF LiveInv
<1> QED BY <1>3, <1>4 DEF LiveLimit

LEMMA TaskLeaseInv ==
  ASSUME LiveInv, NEW w \in Workers, NEW type, TaskLease(w, type)
  PROVE  LiveInv'
<1>1. /\ liveRow' = [owner |-> "TASK", type |-> "AUTO", active |-> TRUE] /\ liveEpoch' = liveEpoch + 1
      /\ UNCHANGED <<live, inputs, relayed, misled>>
  BY DEF TaskLease
<1>2. liveEpoch \in Nat /\ \A a \in relayed : a[2] \in Nat /\ a[3] \in Nat /\ a[2] <= liveEpoch
  BY DEF LiveInv
<1>3. ~resumed' => ~resumed /\ ~(liveRow.active /\ liveRow.type = "REMOTE")
  BY DEF TaskLease
<1>4. ASSUME NEW t \in LiveIds PROVE LiveTrue(t)'
  <2>1. LiveTrue(t)
    BY DEF LiveInv
  <2>2. ~(liveRow'.owner = t)
    BY <1>1, LiveAssumption
  <2>3. ~(~resumed' /\ live[t].state = "REMOTE" /\ ~live[t].old)
    BY <1>3, <2>1 DEF LiveTrue, Named
  <2>4. liveEpoch' \in Nat /\ liveEpoch <= liveEpoch' /\ (~resumed' => ~resumed)
    BY <1>1, <1>2, <1>3
  <2> QED BY <1>1, <2>2, <2>3, <2>4, OtherLive
<1> QED BY <1>1, <1>2, <1>4 DEF LiveInv

LEMMA LiveRestartInv ==
  ASSUME LiveInv, LiveRestart
  PROVE  LiveInv'
<1>1. /\ live' = [s \in LiveIds |-> IF live[s] = NoLive THEN NoLive ELSE [state |-> "GONE"]]
      /\ UNCHANGED <<liveRow, liveEpoch, inputs, relayed, misled, resumed>>
  BY DEF LiveRestart
<1>2. \A s \in LiveIds : live'[s] \in {NoLive, [state |-> "GONE"]}
  BY <1>1
<1>3. NoLive.state = "NONE" /\ [state |-> "GONE"].state = "GONE"
  BY DEF NoLive
<1>4. \A s \in LiveIds : LiveTrue(s)'
  BY <1>2, <1>3 DEF LiveTrue, LiveRows, Open
<1> QED BY <1>1, <1>4 DEF LiveInv

\* A verdict moves the mark upwards, and never into control.
LEMMA JudgedRow ==
  ASSUME NEW l \in OpenRows, NEW msg \in [session : LiveIds, seq : Nat, epoch : Nat], NEW v \in Verdicts(l, msg)
  PROVE  /\ Judged(l, msg, v) \in OpenRows
         /\ Judged(l, msg, v).epoch = l.epoch /\ l.mark <= Judged(l, msg, v).mark
         /\ Judged(l, msg, v).old = l.old /\ Judged(l, msg, v).confirmed = l.confirmed
         /\ Judged(l, msg, v).state \in {l.state, "VIEWING"}
         /\ v = "ACCEPTED" => l.state = "REMOTE" /\ l.mark < msg.seq /\ Judged(l, msg, v).mark = msg.seq
<1>1. l.mark \in Nat /\ l.regressions \in Nat /\ msg.seq \in Nat
  BY DEF OpenRows
<1>2. v \in {"FORBIDDEN", "REGRESSION", "EXPIRED", "ACCEPTED", "RATE"}
  BY DEF Verdicts
<1>3. CASE v = "ACCEPTED"
  <2>1. l.state = "REMOTE" /\ ~Regression(l, msg)
    BY <1>3 DEF Verdicts
  <2>2. l.mark < msg.seq
    BY <1>1, <2>1 DEF Regression
  <2>3. Judged(l, msg, v) = [l EXCEPT !.mark = msg.seq]
    BY <1>3 DEF Judged
  <2> QED BY <1>1, <2>1, <2>2, <2>3 DEF OpenRows
<1>4. CASE Judged(l, msg, v) = Viewing(l) /\ v # "ACCEPTED"
  BY <1>1, <1>4 DEF Viewing, OpenRows
<1>5. CASE Judged(l, msg, v) = [l EXCEPT !.regressions = @ + 1] /\ v # "ACCEPTED"
  BY <1>1, <1>5 DEF OpenRows
<1>6. CASE Judged(l, msg, v) = l /\ v # "ACCEPTED"
  BY <1>1, <1>6
<1>7. v # "ACCEPTED" => Judged(l, msg, v) \in {Viewing(l), [l EXCEPT !.regressions = @ + 1], l}
  BY <1>2 DEF Judged
<1> QED BY <1>3, <1>4, <1>5, <1>6, <1>7

LEMMA RouteInv ==
  ASSUME LiveInv, NEW w \in Workers, NEW msg \in inputs, RouteInput(w, msg)
  PROVE  LiveInv'
<1> DEFINE s == msg.session
           l == live[s]
           this == <<s, l.epoch, msg.seq>>
<1>1. msg \in [session : LiveIds, seq : Nat, epoch : Nat] /\ s \in LiveIds /\ msg.seq \in Nat
  BY DEF LiveInv
<1>2. Open(s) /\ EpochMatches(l, msg) /\ UNCHANGED <<liveEpoch, inputs, resumed>>
  BY DEF RouteInput
<1>3. l \in OpenRows /\ LiveTrue(s) /\ DOMAIN live = LiveIds /\ ~misled /\ \A a \in relayed : a[3] \in Nat
  BY <1>1, <1>2, OpenRow DEF LiveInv
<1>4. PICK v \in Verdicts(l, msg) :
        /\ live' = [live EXCEPT ![s] = Judged(l, msg, v)]
        /\ liveRow' = IF l.state = "REMOTE" /\ Judged(l, msg, v).state = "VIEWING"
                      THEN RowViewing(s, liveRow) ELSE liveRow
        /\ IF v = "ACCEPTED" /\ l.companion
           THEN /\ relayed' = relayed \cup {this}
                /\ misled' = (misled \/ this \in relayed \/ ~l.confirmed
                               \/ msg.epoch \notin {0, l.epoch}
                               \/ \E a \in relayed : a[1] = s /\ a[2] = l.epoch /\ a[3] > msg.seq)
           ELSE UNCHANGED <<relayed, misled>>
  BY DEF RouteInput
<1> DEFINE x == Judged(l, msg, v)
<1>5. /\ x \in OpenRows /\ x.epoch = l.epoch /\ l.mark <= x.mark
      /\ x.old = l.old /\ x.confirmed = l.confirmed /\ x.state \in {l.state, "VIEWING"}
      /\ v = "ACCEPTED" => l.state = "REMOTE" /\ l.mark < msg.seq /\ x.mark = msg.seq
  BY <1>1, <1>3, JudgedRow
<1>6. live' = [live EXCEPT ![s] = x] /\ live'[s] = x
  BY <1>1, <1>3, <1>4
<1>7. liveRow' \in {liveRow, RowViewing(s, liveRow)} /\ (x.state = "REMOTE" => liveRow' = liveRow)
  BY <1>4
<1>8. l.epoch \in Nat /\ l.mark \in Nat /\ x.mark \in Nat /\ l.epoch <= liveEpoch
  BY <1>2, <1>3, <1>5 DEF OpenRows, LiveTrue
<1>9. \A a \in relayed : a[1] = s /\ a[2] = l.epoch => a[3] <= l.mark
  BY <1>2, <1>3 DEF LiveTrue
<1>10. l.state = "REMOTE" => l.confirmed
  BY <1>3 DEF LiveTrue
<1>11. ~misled' /\ \A a \in relayed' : a \in relayed \/ (a = this /\ x.mark = msg.seq)
  <2>1. CASE v = "ACCEPTED" /\ l.companion
    <3>1. /\ relayed' = relayed \cup {this}
          /\ misled' = (misled \/ this \in relayed \/ ~l.confirmed \/ msg.epoch \notin {0, l.epoch}
                          \/ \E a \in relayed : a[1] = s /\ a[2] = l.epoch /\ a[3] > msg.seq)
      BY <1>4, <2>1
    <3>2. l.mark < msg.seq /\ x.mark = msg.seq /\ l.confirmed
      BY <1>5, <1>10, <2>1
    <3>3. msg.epoch \in {0, l.epoch}
      BY <1>2 DEF EpochMatches
    <3>4. \A a \in relayed : ~(a[1] = s /\ a[2] = l.epoch /\ a[3] >= msg.seq)
      BY <1>1, <1>3, <1>8, <1>9, <3>2
    <3>5. this[1] = s /\ this[2] = l.epoch /\ this[3] = msg.seq
      OBVIOUS
    <3> HIDE DEF this, x, l, s
    <3>6. this \notin relayed
      BY <1>1, <3>4, <3>5
    <3>7. ~\E a \in relayed : a[1] = s /\ a[2] = l.epoch /\ a[3] > msg.seq
      BY <1>1, <1>3, <3>4
    <3> QED BY <1>3, <3>1, <3>2, <3>3, <3>6, <3>7
  <2>2. CASE ~(v = "ACCEPTED" /\ l.companion)
    BY <1>3, <1>4, <2>2
  <2> QED BY <2>1, <2>2
<1>12. this[1] = s /\ this[2] = l.epoch /\ this[3] = msg.seq
  OBVIOUS
<1> HIDE DEF this, x
<1>13. \A a \in relayed' : a \in relayed \/ (a[1] = s /\ a[2] = x.epoch => a[3] <= x.mark)
  BY <1>8, <1>11, <1>12
<1>14. \A a \in relayed' : a \in relayed \/ (a[1] = s /\ a[2] \in Nat /\ a[3] \in Nat /\ a[2] <= liveEpoch)
  BY <1>1, <1>8, <1>11, <1>12
<1>15. LiveTrue(s)'
  BY <1>1, <1>2, <1>5, <1>6, <1>7, <1>10, <1>13, SamePeriod
<1> QED BY <1>1, <1>2, <1>6, <1>7, <1>11, <1>14, <1>15, SessionStep

LEMMA LiveStep ==
  ASSUME LiveInv, LiveNext
  PROVE  LiveInv'
<1>1. ASSUME NEW s \in LiveIds, NEW w \in Workers,
             \/ \E tier \in {"PREVIEW", "INTERACTIVE"} : Establish(w, s, tier)
             \/ LiveStatus(w, s) \/ TakeControl(w, s) \/ ReleaseControl(w, s) \/ Stop(w, s)
             \/ \E who \in {"OPERATOR", "COMPANION"} : NotifyDisconnect(w, s, who)
             \/ \E granted \in BOOLEAN : AckProjection(w, s, granted)
             \/ AttachCompanion(w, s)
      PROVE  LiveInv'
  BY <1>1, EstablishInv, LiveStatusInv, TakeControlInv, GiveUpInv, NotifyInv, AckInv, AttachInv
<1>2. ASSUME NEW s \in LiveIds, (\E seq \in 1..MaxSeq, named \in BOOLEAN : Compose(s, seq, named)) \/ LiveLimit(s)
      PROVE  LiveInv'
  BY <1>2, ComposeInv, LimitInv
<1>3. ASSUME NEW w \in Workers,
             (\E msg \in inputs : RouteInput(w, msg)) \/ (\E type \in {"CLAIM", "RESUME"} : TaskLease(w, type))
      PROVE  LiveInv'
  BY <1>3, RouteInv, TaskLeaseInv
<1> QED BY <1>1, <1>2, <1>3, LiveRestartInv DEF LiveNext

\* The fleet sessions do not touch the first slice.
LEMMA SliceApart ==
  ASSUME LiveNext
  PROVE  UNCHANGED legacyLive
<1>1. ASSUME NEW s, NEW w, NEW tier, Establish(w, s, tier) PROVE UNCHANGED legacyLive
  BY <1>1 DEF Establish
<1>2. ASSUME NEW s, NEW w, LiveStatus(w, s) \/ AttachCompanion(w, s) PROVE UNCHANGED legacyLive
  BY <1>2 DEF LiveStatus, AttachCompanion
<1>3. ASSUME NEW s, NEW w, TakeControl(w, s) \/ ReleaseControl(w, s) \/ Stop(w, s) PROVE UNCHANGED legacyLive
  BY <1>3 DEF TakeControl, ReleaseControl, Stop
<1>4. ASSUME NEW s, NEW w, NEW who, NotifyDisconnect(w, s, who) PROVE UNCHANGED legacyLive
  BY <1>4 DEF NotifyDisconnect
<1>5. ASSUME NEW s, NEW w, NEW granted, AckProjection(w, s, granted) PROVE UNCHANGED legacyLive
  BY <1>5 DEF AckProjection
<1>6. ASSUME NEW s, NEW seq, NEW named, Compose(s, seq, named) \/ LiveLimit(s) PROVE UNCHANGED legacyLive
  BY <1>6 DEF Compose, LiveLimit
<1>7. ASSUME NEW w, NEW msg, RouteInput(w, msg) PROVE UNCHANGED legacyLive
  BY <1>7 DEF RouteInput
<1>8. ASSUME NEW w, NEW type, TaskLease(w, type) PROVE UNCHANGED legacyLive
  BY <1>8 DEF TaskLease
<1>9. ASSUME LiveRestart PROVE UNCHANGED legacyLive
  BY <1>9 DEF LiveRestart
<1> QED BY <1>1, <1>2, <1>3, <1>4, <1>5, <1>6, <1>7, <1>8, <1>9, Zenon DEF LiveNext

-----------------------------------------------------------------------------
(* The first slice                                                         *)

LEMMA LegacyOne ==
  ASSUME LegacyInv, NEW s \in LegacyIds, NEW x \in LegacyRows, legacy' = [legacy EXCEPT ![s] = x],
         ~popped' => ~popped,
         ~popped' /\ x.state \in {"VIEWING", "REMOTE"} /\ ~x.old => byDevice' = s,
         \A t \in LegacyIds \ {s} : ~popped' /\ LegacyRunning(t) /\ ~legacy[t].old => byDevice' = t
  PROVE  LegacyInv'
<1>1. legacy' \in [LegacyIds -> LegacyRows] /\ legacy'[s] = x /\ \A t \in LegacyIds \ {s} : legacy'[t] = legacy[t]
  BY DEF LegacyInv
<1> QED BY <1>1 DEF LegacyInv, LegacyRunning

LEMMA FullRow ==
  ASSUME LegacyInv, NEW s \in LegacyIds, legacy[s].state \in {"VIEWING", "REMOTE", "CLOSED"}
  PROVE  legacy[s] \in [state : {"VIEWING", "REMOTE", "CLOSED"}, mark : Nat, rate : Nat, old : BOOLEAN]
<1>1. legacy[s] \in LegacyRows
  BY DEF LegacyInv
<1>2. legacy[s] # NoLive /\ legacy[s] # [state |-> "GONE"]
  BY DEF NoLive
<1> QED BY <1>1, <1>2 DEF LegacyRows

LEMMA LegacyOpenInv ==
  ASSUME LegacyInv, NEW w \in Workers, NEW s \in LegacyIds, LegacyOpen(w, s)
  PROVE  LegacyInv'
<1> DEFINE x == [state |-> "VIEWING", mark |-> 0, rate |-> 0, old |-> FALSE]
<1>1. ~EntryTaken /\ legacy' = [legacy EXCEPT ![s] = x] /\ byDevice' = s /\ popped' = popped
  BY DEF LegacyOpen
<1>2. x \in LegacyRows
  BY DEF LegacyRows
<1> HIDE DEF x
<1>3. ASSUME NEW t \in LegacyIds \ {s}, ~popped', LegacyRunning(t), ~legacy[t].old PROVE FALSE
  <2>1. byDevice = t
    BY <1>1, <1>3 DEF LegacyInv
  <2>2. EntryTaken
    BY <1>3, <2>1, LiveAssumption DEF EntryTaken, Expired, LegacyRunning
  <2> QED BY <1>1, <2>2
<1> QED BY <1>1, <1>2, <1>3, LegacyOne

LEMMA LegacyEndInv ==
  ASSUME LegacyInv, NEW s \in LegacyIds, legacy[s].state \in {"VIEWING", "REMOTE", "CLOSED"},
         legacy' = [legacy EXCEPT ![s].state = "CLOSED"], EntryRemoved(s)
  PROVE  LegacyInv'
<1> DEFINE x == [legacy[s] EXCEPT !.state = "CLOSED"]
<1>1. legacy' = [legacy EXCEPT ![s] = x] /\ byDevice' = "NONE" /\ popped' = (popped \/ byDevice \notin {"NONE", s})
  BY DEF EntryRemoved
<1>2. x \in LegacyRows /\ x.state = "CLOSED"
  BY FullRow DEF LegacyRows
<1> HIDE DEF x
<1>3. ~popped' => ~popped /\ byDevice \in {"NONE", s}
  BY <1>1
<1>4. \A t \in LegacyIds \ {s} : ~popped' /\ LegacyRunning(t) /\ ~legacy[t].old => byDevice' = t
  BY <1>3, LiveAssumption DEF LegacyInv
<1> QED BY <1>1, <1>2, <1>3, <1>4, LegacyOne

LEMMA LegacyStayInv ==
  ASSUME LegacyInv, NEW s \in LegacyIds, LegacyRunning(s), NEW x \in LegacyRows, legacy' = [legacy EXCEPT ![s] = x],
         ~x.old => ~legacy[s].old, UNCHANGED <<byDevice, popped>>
  PROVE  LegacyInv'
<1>1. \A t \in LegacyIds \ {s} : ~popped' /\ LegacyRunning(t) /\ ~legacy[t].old => byDevice' = t
  BY DEF LegacyInv
<1>2. ~popped' /\ ~x.old => byDevice' = s
  BY DEF LegacyInv
<1> QED BY <1>1, <1>2, LegacyOne

LEMMA LegacyStep ==
  ASSUME LegacyInv, LegacyNext
  PROVE  LegacyInv'
<1> DEFINE Full == [state : {"VIEWING", "REMOTE", "CLOSED"}, mark : Nat, rate : Nat, old : BOOLEAN]
<1>1. ASSUME NEW s \in LegacyIds, NEW w \in Workers, LegacyTouch(w, s) PROVE LegacyInv'
  <2>1. LegacyRunning(s) /\ legacy[s] \in Full
    BY <1>1, FullRow DEF LegacyTouch, LegacyRunning
  <2>2. CASE legacy' = [legacy EXCEPT ![s].state = "CLOSED"] /\ EntryRemoved(s)
    BY <2>1, <2>2, LegacyEndInv DEF LegacyRunning
  <2>3. CASE /\ legacy' = [legacy EXCEPT ![s].state = "REMOTE", ![s].mark = 0, ![s].rate = 0]
             /\ UNCHANGED <<byDevice, popped>>
    <3> DEFINE x == [legacy[s] EXCEPT !.state = "REMOTE", !.mark = 0, !.rate = 0]
    <3>1. legacy' = [legacy EXCEPT ![s] = x]
      BY <2>3 DEF LegacyInv
    <3>2. x \in LegacyRows
      BY <2>1 DEF LegacyRows
    <3>3. x.old = legacy[s].old
      BY <2>1
    <3> HIDE DEF x
    <3> QED BY <2>1, <2>3, <3>1, <3>2, <3>3, LegacyStayInv
  <2> QED BY <1>1, <2>2, <2>3 DEF LegacyTouch
<1>2. ASSUME NEW s \in LegacyIds, NEW w \in Workers, LegacyLeave(w, s) PROVE LegacyInv'
  <2>1. CASE /\ legacy[s].state = "REMOTE" /\ legacy' = [legacy EXCEPT ![s].state = "VIEWING"]
             /\ UNCHANGED <<byDevice, popped>>
    <3> DEFINE x == [legacy[s] EXCEPT !.state = "VIEWING"]
    <3>1. legacy' = [legacy EXCEPT ![s] = x] /\ legacy[s] \in Full
      BY <2>1, FullRow
    <3>2. x \in LegacyRows /\ x.old = legacy[s].old
      BY <3>1 DEF LegacyRows
    <3> HIDE DEF x
    <3> QED BY <2>1, <3>1, <3>2, LegacyStayInv DEF LegacyRunning
  <2> QED BY <1>2, <2>1, LegacyEndInv DEF LegacyLeave
<1>3. ASSUME NEW s \in LegacyIds, NEW w \in Workers, NEW seq \in 1..MaxSeq, LegacyInput(w, s, seq) PROVE LegacyInv'
  <2>1. legacy[s].state = "REMOTE" /\ legacy[s] \in Full /\ UNCHANGED <<byDevice, popped>>
    BY <1>3, FullRow DEF LegacyInput
  <2>2. PICK x \in {[legacy[s] EXCEPT !.state = "VIEWING"], [legacy[s] EXCEPT !.mark = seq, !.rate = legacy[s].rate + 1]} :
           legacy' = [legacy EXCEPT ![s] = x]
    BY <1>3 DEF LegacyInput
  <2>3. x \in LegacyRows /\ x.old = legacy[s].old
    <3>1. seq \in Nat
      BY LiveAssumption
    <3>2. CASE x = [legacy[s] EXCEPT !.state = "VIEWING"]
      BY <2>1, <3>2 DEF LegacyRows
    <3>3. CASE x = [legacy[s] EXCEPT !.mark = seq, !.rate = legacy[s].rate + 1]
      <4>1. \A r \in Full, n \in Nat, m \in Nat :
               LET y == [r EXCEPT !.mark = n, !.rate = m] IN y \in Full /\ y.old = r.old
        OBVIOUS
      <4>2. legacy[s].rate + 1 \in Nat
        BY <2>1
      <4> QED BY <2>1, <3>1, <3>3, <4>1, <4>2 DEF LegacyRows
    <3> QED BY <2>2, <3>2, <3>3
  <2> QED BY <2>1, <2>2, <2>3, LegacyStayInv DEF LegacyRunning
<1>4. ASSUME NEW s \in LegacyIds, LegacyTime(s) PROVE LegacyInv'
  <2> DEFINE x == [legacy[s] EXCEPT !.old = TRUE]
  <2>1. LegacyRunning(s) /\ legacy' = [legacy EXCEPT ![s] = x] /\ UNCHANGED <<byDevice, popped>>
    BY <1>4 DEF LegacyTime
  <2>2. legacy[s] \in Full
    BY <2>1, FullRow DEF LegacyRunning
  <2>3. x \in LegacyRows
    BY <2>2 DEF LegacyRows
  <2>4. x.old = TRUE
    BY <2>2, Zenon
  <2> HIDE DEF x
  <2> QED BY <2>1, <2>3, <2>4, LegacyStayInv
<1>5. CASE LegacyRestart
  <2>1. /\ legacy' = [s \in LegacyIds |-> IF legacy[s] = NoLive THEN NoLive ELSE [state |-> "GONE"]]
        /\ UNCHANGED popped
    BY <1>5 DEF LegacyRestart
  <2>2. \A s \in LegacyIds : legacy'[s].state \in {"NONE", "GONE"} /\ legacy'[s] \in LegacyRows
    BY <2>1 DEF NoLive, LegacyRows
  <2> QED BY <2>1, <2>2 DEF LegacyInv, LegacyRunning
<1> QED BY <1>1, <1>2, <1>3, <1>4, <1>5, LegacyOpenInv DEF LegacyNext

(* An operator's input reaches the device once, in order, in the control   *)
(* period it names and with the user's consent; a closed session owns no   *)
(* active row; control has one holder and the row names it, unless the     *)
(* resume() of a task took the row; the first slice's entry is the session *)
(* in control, unless the end of another removed it: for any sessions,     *)
(* inputs and workers, whatever the messages and restarts.                 *)
THEOREM LiveSingleWriterCorrect == Spec => []LiveSingleWriter
<1>1. Init => LiveInv /\ LegacyInv
  BY LiveStart DEF Init
<1>2. LiveInv /\ LegacyInv /\ [Next]_vars => (LiveInv /\ LegacyInv)'
  <2> SUFFICES ASSUME LiveInv, LegacyInv, [Next]_vars PROVE (LiveInv /\ LegacyInv)'
    OBVIOUS
  <2>1. CASE LiveNext
    <3>1. UNCHANGED legacyLive
      BY <2>1, SliceApart
    <3>2. LegacyInv'
      BY <3>1 DEF LegacyInv, LegacyRunning, legacyLive
    <3> QED BY <2>1, <3>2, LiveStep
  <2>2. CASE LegacyNext
    <3>1. UNCHANGED fleetLive
      BY <2>2 DEF LegacyNext, LegacyOpen, LegacyTouch, LegacyLeave, LegacyInput, LegacyTime, LegacyRestart
    <3>2. LiveInv'
      BY <3>1 DEF LiveInv, LiveTrue, Open, Named, fleetLive
    <3> QED BY <2>2, <3>2, LegacyStep, SMTT(30)
  <2>3. CASE UNCHANGED liveVars
    BY <2>3 DEF LiveInv, LiveTrue, Open, Named, fleetLive, LegacyInv, LegacyRunning, legacyLive, liveVars
  <2>4. LiveNext \/ LegacyNext \/ UNCHANGED liveVars
    BY DEF Next, vars, rows, liveVars
  <2> QED BY <2>1, <2>2, <2>3, <2>4
<1> QED BY <1>1, <1>2, LiveSound, PTL DEF Spec

-----------------------------------------------------------------------------
(* The install window                                                      *)

Before == {"CANDIDATE", "LOCK", "PREFLIGHT", "PREPARE", "CAS"}
Within == {"CONFIRM", "INSTALL", "WATCH", "FINISH", "FINISHED", "CLEANUP"}
Behind == {"WATCH_AGAIN", "FINAL"}

Reasons ==
    Before \cup Within \cup Behind \cup {"NONE", "LOCK_ANSWER", "CAS_ANSWER", "INSTALL", "FINISH_ANSWER", "CLEANUP"}
WinRows ==
    [locked : BOOLEAN, owned : BOOLEAN, finished : BOOLEAN, recovery : BOOLEAN, presence : BOOLEAN,
     status : {"RUNNING", "FAILED", "PROVEN", "NOT_PROVEN"}, why : Reasons]

(* The maintenance that is on is the window's.                             *)
OwnFlag == flag.maintenance /\ flag.by = "WINDOW"

WindowType ==
    /\ winStage \in Before \cup Within \cup Behind \cup {"RELEASE", "OVER"}
    /\ win \in WinRows
    /\ flag \in [maintenance : BOOLEAN, version : Nat, by : {"OTHER", "WINDOW"}]
    /\ handset \in [code : {5, 6}, sync : BOOLEAN, staged : BOOLEAN]

(* What execute_window() knows follows its stages, and a version number    *)
(* names one change of the flag.                                           *)
StageTrue ==
    /\ winStage \in Before => ~win.owned /\ ~win.finished /\ (winStage \in {"PREFLIGHT", "PREPARE", "CAS"} => win.locked)
    /\ winStage \in Within => win.locked /\ win.owned /\ ~win.finished
    /\ winStage \in Behind => ~win.owned /\ win.finished
    /\ winStage \notin {"CLEANUP", "RELEASE", "OVER"} => win.status = "RUNNING" /\ win.why = "NONE"
FlagTrue ==
    /\ win.owned => flag.version >= 1 /\ (flag.version = 1 => flag.by = "WINDOW")
    /\ OwnFlag => winStage \in Within \/ (win.status = "FAILED" /\ win.why \in {"CAS_ANSWER", "CLEANUP"})
ProvenTrue ==
    win.status = "PROVEN" =>
       /\ winStage \in {"RELEASE", "OVER"} /\ win.recovery /\ win.presence /\ win.finished
       /\ handset.code = 6 /\ ~OwnFlag /\ (winStage = "OVER" => sharedLock # "WINDOW")

WindowInv == WindowType /\ StageTrue /\ FlagTrue /\ ProvenTrue /\ ~robbed

LEMMA WindowStart == WindowInit => WindowInv
BY DEF WindowInit, WinRows, Reasons, WindowInv, WindowType, StageTrue, FlagTrue, ProvenTrue, OwnFlag, Before, Within, Behind

LEMMA WindowSound == WindowInv => WindowAccountable
BY DEF WindowAccountable, WindowInv, WindowType, StageTrue, FlagTrue, ProvenTrue, OwnFlag, Before, Within, Behind

\* A failure in the middle: FAILED with the first reason, and cleanup if the flag is the window's.
LEMMA RaiseFacts ==
  ASSUME WindowInv, winStage \notin {"CLEANUP", "RELEASE", "OVER"}, NEW why \in Reasons, Raise(win, why)
  PROVE  /\ win' \in WinRows
         /\ win'.locked = win.locked /\ win'.owned = win.owned /\ win'.finished = win.finished
         /\ win'.status = "FAILED" /\ win'.why = why
         /\ winStage' \in {"CLEANUP", "RELEASE", "OVER"}
         /\ winStage' = "CLEANUP" <=> win.locked /\ win.owned /\ ~win.finished
<1>1. win.why = "NONE"
  BY DEF WindowInv, StageTrue
<1>2. win' = [win EXCEPT !.status = "FAILED", !.why = why]
  BY <1>1 DEF Raise
<1>3. /\ win' \in WinRows
      /\ win'.locked = win.locked /\ win'.owned = win.owned /\ win'.finished = win.finished
      /\ win'.status = "FAILED" /\ win'.why = why
  BY <1>2 DEF WindowInv, WindowType, WinRows
<1>4. winStage' = Afterwards(win)
  BY DEF Raise
<1> QED BY <1>3, <1>4 DEF Afterwards

LEMMA FailInv ==
  ASSUME WindowInv, winStage \notin {"CLEANUP", "RELEASE", "OVER"}, NEW why \in Reasons, Raise(win, why),
         UNCHANGED <<flag, handset, robbed>>
  PROVE  WindowInv'
<1>1. winStage \in Within => winStage' = "CLEANUP"
  BY RaiseFacts DEF WindowInv, StageTrue
<1>2. winStage' = "CLEANUP" => win'.locked /\ win'.owned /\ ~win'.finished
  BY RaiseFacts
<1>3. WindowType' /\ StageTrue' /\ ProvenTrue' /\ ~robbed'
  BY <1>2, RaiseFacts DEF WindowInv, WindowType, StageTrue, ProvenTrue, Before, Within, Behind
<1>4. OwnFlag' <=> OwnFlag
  BY DEF OwnFlag
<1>5. OwnFlag => winStage \in Within
  BY DEF WindowInv, FlagTrue, StageTrue
<1>6. FlagTrue'
  BY <1>1, <1>4, <1>5, RaiseFacts DEF WindowInv, FlagTrue, Within
<1> QED BY <1>3, <1>6 DEF WindowInv

LEMMA FailureInv ==
  ASSUME WindowInv, CommandFails
  PROVE  WindowInv'
<1>1. winStage \in Reasons
  BY DEF CommandFails, WindowInv, WindowType, Reasons
<1> QED BY <1>1, FailInv DEF CommandFails, cloudVars

\* Stages that only check.
LEMMA CheckInv ==
  ASSUME WindowInv,
         CandidatePreflight \/ LockedPreflight \/ PrepareRead \/ ConfirmPrepared
  PROVE  WindowInv'
<1>1. UNCHANGED <<win, flag, handset, sharedLock, robbed>>
  BY DEF CandidatePreflight, LockedPreflight, PrepareRead, ConfirmPrepared, cloudVars
<1>2. \/ winStage = "CANDIDATE" /\ winStage' = "LOCK"
      \/ winStage = "PREFLIGHT" /\ winStage' = "PREPARE"
      \/ winStage = "PREPARE" /\ winStage' = "CAS"
      \/ winStage = "CONFIRM" /\ winStage' = "INSTALL"
  BY DEF CandidatePreflight, LockedPreflight, PrepareRead, ConfirmPrepared
<1> QED BY <1>1, <1>2 DEF WindowInv, WindowType, StageTrue, FlagTrue, ProvenTrue, OwnFlag, Before, Within, Behind

LEMMA AcquireInv ==
  ASSUME WindowInv, AcquireLock
  PROVE  WindowInv'
<1>1. winStage = "LOCK" /\ UNCHANGED <<flag, handset, robbed>>
  BY DEF AcquireLock, cloudVars
<1>2. CASE win' = [win EXCEPT !.locked = TRUE] /\ winStage' = "PREFLIGHT"
  <2>1. /\ win' \in WinRows
        /\ win'.owned = win.owned /\ win'.finished = win.finished /\ win'.status = win.status /\ win'.why = win.why
    BY <1>2 DEF WindowInv, WindowType, WinRows
  <2> QED BY <1>1, <1>2, <2>1 DEF WindowInv, WindowType, StageTrue, FlagTrue, ProvenTrue, OwnFlag, Before, Within, Behind
<1>3. CASE Raise(win, "LOCK_ANSWER")
  BY <1>1, <1>3, FailInv DEF Reasons
<1> QED BY <1>2, <1>3 DEF AcquireLock

LEMMA CasInv ==
  ASSUME WindowInv, PrepareCas
  PROVE  WindowInv'
<1>1. /\ winStage = "CAS" /\ flag' = [maintenance |-> TRUE, version |-> 1, by |-> "WINDOW"]
      /\ UNCHANGED <<handset, robbed>>
  BY DEF PrepareCas, SetFlag, WindowInv, WindowType
<1>2. flag'.version = 1 /\ flag'.by = "WINDOW" /\ flag' \in [maintenance : BOOLEAN, version : Nat, by : {"OTHER", "WINDOW"}]
  BY <1>1
<1>3. CASE win' = [win EXCEPT !.owned = TRUE] /\ winStage' = "CONFIRM"
  <2>1. /\ win' \in WinRows
        /\ win'.locked = win.locked /\ win'.finished = win.finished /\ win'.status = win.status /\ win'.why = win.why
    BY <1>3 DEF WindowInv, WindowType, WinRows
  <2>2. win'.owned = TRUE
    BY <1>3, Zenon DEF WindowInv, WindowType, WinRows
  <2> QED BY <1>1, <1>2, <1>3, <2>1, <2>2 DEF WindowInv, WindowType, StageTrue, FlagTrue, ProvenTrue, OwnFlag, Before, Within, Behind
<1>4. CASE Raise(win, "CAS_ANSWER")
  <2>1. /\ win' \in WinRows
        /\ ~win'.owned /\ win'.status = "FAILED" /\ win'.why = "CAS_ANSWER" /\ winStage' \in {"RELEASE", "OVER"}
    BY <1>1, <1>4, RaiseFacts DEF WindowInv, StageTrue, Before, Reasons
  <2> QED BY <1>1, <1>2, <2>1 DEF WindowInv, WindowType, StageTrue, FlagTrue, ProvenTrue, OwnFlag, Before, Within, Behind
<1> QED BY <1>3, <1>4 DEF PrepareCas

LEMMA InstallInv ==
  ASSUME WindowInv, InstallOnce
  PROVE  WindowInv'
<1>1. /\ winStage = "INSTALL" /\ handset' = [handset EXCEPT !.code = 6] /\ UNCHANGED <<flag, sharedLock, robbed>>
      /\ (winStage' = "WATCH" /\ UNCHANGED win) \/ Raise(win, "INSTALL")
  BY DEF InstallOnce, cloudVars
<1>2. handset' \in [code : {5, 6}, sync : BOOLEAN, staged : BOOLEAN] /\ handset'.code = 6
  BY <1>1 DEF WindowInv, WindowType
<1>3. CASE winStage' = "WATCH" /\ UNCHANGED win
  BY <1>1, <1>2, <1>3 DEF WindowInv, WindowType, StageTrue, FlagTrue, ProvenTrue, OwnFlag, Before, Within, Behind
<1>4. CASE Raise(win, "INSTALL")
  <2>1. /\ win' \in WinRows /\ win'.status = "FAILED" /\ winStage' = "CLEANUP"
        /\ win'.locked /\ win'.owned /\ ~win'.finished /\ win.owned
    BY <1>1, <1>4, RaiseFacts DEF WindowInv, StageTrue, Within, Reasons
  <2> QED BY <1>1, <1>2, <2>1 DEF WindowInv, WindowType, StageTrue, FlagTrue, ProvenTrue, OwnFlag, Before, Within, Behind
<1> QED BY <1>1, <1>3, <1>4

\* An observation is recorded, nothing else is.
LEMMA ObservedInv ==
  ASSUME WindowInv, ObserveMaintenance \/ ObservePostMaintenance
  PROVE  WindowInv'
<1>1. /\ (winStage = "WATCH" /\ winStage' = "FINISH") \/ (winStage = "WATCH_AGAIN" /\ winStage' = "FINAL")
      /\ UNCHANGED <<flag, handset, sharedLock, robbed>>
  BY DEF ObserveMaintenance, ObservePostMaintenance, cloudVars
<1>2. PICK b \in BOOLEAN : win' \in {[win EXCEPT !.recovery = b], [win EXCEPT !.presence = b]}
  <2>1. Observed(TRUE, TRUE, 1) \in BOOLEAN /\ Observed(FALSE, FALSE, 2) \in BOOLEAN
    BY DEF Observed
  <2> QED BY <2>1, Zenon DEF ObserveMaintenance, ObservePostMaintenance
<1>3. /\ win' \in WinRows /\ win'.locked = win.locked /\ win'.owned = win.owned /\ win'.finished = win.finished
      /\ win'.status = win.status /\ win'.why = win.why
  <2>1. CASE win' = [win EXCEPT !.recovery = b]
    BY <2>1 DEF WindowInv, WindowType, WinRows
  <2>2. CASE win' = [win EXCEPT !.presence = b]
    BY <2>2 DEF WindowInv, WindowType, WinRows
  <2> QED BY <1>2, <2>1, <2>2
<1> QED BY <1>1, <1>3 DEF WindowInv, WindowType, StageTrue, FlagTrue, ProvenTrue, OwnFlag, Before, Within, Behind

\* finish-owned ends only the window's own maintenance.
LEMMA EndOwnedFacts ==
  ASSUME WindowInv, win.owned, EndOwned
  PROVE  /\ ~robbed' /\ flag' \in [maintenance : BOOLEAN, version : Nat, by : {"OTHER", "WINDOW"}]
         /\ flag'.version >= 2 /\ ~OwnFlag'
<1>1. flag \in [maintenance : BOOLEAN, version : Nat, by : {"OTHER", "WINDOW"}] /\ ~robbed
  BY DEF WindowInv, WindowType
<1>2. CASE OwnedState /\ SetFlag(FALSE, "WINDOW") /\ robbed' = (robbed \/ flag.by # "WINDOW")
  <2>1. flag.version = 1 /\ flag.by = "WINDOW"
    BY <1>2 DEF OwnedState, WindowInv, FlagTrue
  <2>2. flag' = [maintenance |-> FALSE, version |-> 2, by |-> "WINDOW"]
    BY <1>2, <2>1 DEF SetFlag
  <2>3. flag' \in [maintenance : BOOLEAN, version : Nat, by : {"OTHER", "WINDOW"}] /\ flag'.version >= 2
    BY <2>2
  <2>4. flag'.maintenance = FALSE
    BY <2>2, Zenon
  <2>5. ~robbed'
    BY <1>1, <1>2, <2>1
  <2> QED BY <2>3, <2>4, <2>5 DEF OwnFlag
<1>3. CASE ~flag.maintenance /\ flag.version = 2 /\ UNCHANGED <<flag, robbed>>
  BY <1>1, <1>3 DEF OwnFlag
<1> QED BY <1>2, <1>3 DEF EndOwned

LEMMA FinishInv ==
  ASSUME WindowInv, FinishMaintenance
  PROVE  WindowInv'
<1>1. /\ winStage = "FINISH" /\ EndOwned /\ UNCHANGED <<handset, sharedLock>>
      /\ (winStage' = "FINISHED" /\ UNCHANGED win) \/ Raise(win, "FINISH_ANSWER")
  BY DEF FinishMaintenance
<1>2. win.locked /\ win.owned /\ ~win.finished
  BY <1>1 DEF WindowInv, StageTrue, Within
<1>3. /\ ~robbed' /\ flag' \in [maintenance : BOOLEAN, version : Nat, by : {"OTHER", "WINDOW"}]
      /\ flag'.version >= 2 /\ ~OwnFlag'
  BY <1>1, <1>2, EndOwnedFacts
<1>4. CASE winStage' = "FINISHED" /\ UNCHANGED win
  BY <1>1, <1>2, <1>3, <1>4 DEF WindowInv, WindowType, StageTrue, FlagTrue, ProvenTrue, Before, Within, Behind
<1>5. CASE Raise(win, "FINISH_ANSWER")
  <2>1. /\ win' \in WinRows /\ win'.status = "FAILED" /\ winStage' = "CLEANUP"
        /\ win'.locked /\ win'.owned /\ ~win'.finished
    BY <1>1, <1>2, <1>5, RaiseFacts DEF Reasons
  <2> QED BY <1>1, <1>3, <2>1 DEF WindowInv, WindowType, StageTrue, FlagTrue, ProvenTrue, Before, Within, Behind
<1> QED BY <1>1, <1>4, <1>5

LEMMA VerifyInv ==
  ASSUME WindowInv, VerifyFinished
  PROVE  WindowInv'
<1>1. /\ winStage = "FINISHED" /\ ~flag.maintenance /\ win' = [win EXCEPT !.owned = FALSE, !.finished = TRUE]
      /\ winStage' = "WATCH_AGAIN" /\ UNCHANGED <<flag, handset, sharedLock, robbed>>
  BY DEF VerifyFinished, CloudGate, cloudVars
<1>2. win' \in WinRows /\ win'.status = win.status /\ win'.why = win.why
  BY <1>1 DEF WindowInv, WindowType, WinRows
<1>3. win'.finished = TRUE /\ win'.owned = FALSE
  BY <1>1, Zenon DEF WindowInv, WindowType, WinRows
<1> QED BY <1>1, <1>2, <1>3 DEF WindowInv, WindowType, StageTrue, FlagTrue, ProvenTrue, OwnFlag, Before, Within, Behind

LEMMA FinalInv ==
  ASSUME WindowInv, FinalVerify
  PROVE  WindowInv'
<1>1. /\ winStage = "FINAL" /\ handset.code = 6 /\ ~flag.maintenance /\ winStage' = "RELEASE"
      /\ win' = [win EXCEPT !.status = IF win.recovery /\ win.presence THEN "PROVEN" ELSE "NOT_PROVEN"]
      /\ UNCHANGED <<flag, handset, sharedLock, robbed>>
  BY DEF FinalVerify, Installed, CloudGate, cloudVars
<1>2. /\ win' \in WinRows /\ win'.owned = win.owned /\ win'.finished = win.finished
      /\ win'.recovery = win.recovery /\ win'.presence = win.presence
      /\ win'.status = IF win.recovery /\ win.presence THEN "PROVEN" ELSE "NOT_PROVEN"
  BY <1>1 DEF WindowInv, WindowType, WinRows
<1> QED BY <1>1, <1>2 DEF WindowInv, WindowType, StageTrue, FlagTrue, ProvenTrue, OwnFlag, Before, Within, Behind

LEMMA CleanupInv ==
  ASSUME WindowInv, CleanupMaintenance
  PROVE  WindowInv'
<1>1. /\ winStage = "CLEANUP" /\ winStage' = "RELEASE" /\ UNCHANGED <<handset, sharedLock>>
      /\ \/ EndOwned /\ win' = [win EXCEPT !.owned = FALSE]
         \/ /\ EndOwned \/ UNCHANGED <<flag, robbed>>
            /\ win' = [win EXCEPT !.status = "FAILED", !.why = "CLEANUP"]
  BY DEF CleanupMaintenance
<1>2. win.owned /\ win.status # "PROVEN" /\ win \in WinRows
  BY <1>1 DEF WindowInv, WindowType, StageTrue, ProvenTrue, Within
<1>3. EndOwned => /\ ~robbed' /\ flag' \in [maintenance : BOOLEAN, version : Nat, by : {"OTHER", "WINDOW"}]
                  /\ flag'.version >= 2 /\ ~OwnFlag'
  BY <1>2, EndOwnedFacts
<1>4. CASE EndOwned /\ win' = [win EXCEPT !.owned = FALSE]
  <2>1. win' \in WinRows /\ win'.status = win.status
    BY <1>2, <1>4 DEF WinRows
  <2>2. win'.owned = FALSE
    BY <1>2, <1>4, Zenon DEF WinRows
  <2> QED BY <1>1, <1>2, <1>3, <1>4, <2>1, <2>2 DEF WindowInv, WindowType, StageTrue, FlagTrue, ProvenTrue, Before, Within, Behind
<1>5. CASE /\ EndOwned \/ UNCHANGED <<flag, robbed>>
           /\ win' = [win EXCEPT !.status = "FAILED", !.why = "CLEANUP"]
  <2>1. win' \in WinRows /\ win'.status = "FAILED" /\ win'.why = "CLEANUP"
    BY <1>2, <1>5 DEF WinRows, Reasons
  <2>2. ~robbed' /\ flag' \in [maintenance : BOOLEAN, version : Nat, by : {"OTHER", "WINDOW"}]
    BY <1>3, <1>5 DEF WindowInv, WindowType
  <2>3. flag'.version >= 1 /\ (flag'.version = 1 => flag'.by = "WINDOW")
    BY <1>2, <1>3, <1>5, <2>2 DEF WindowInv, FlagTrue
  <2> QED BY <1>1, <2>1, <2>2, <2>3 DEF WindowInv, WindowType, StageTrue, FlagTrue, ProvenTrue, Before, Within, Behind
<1> QED BY <1>1, <1>4, <1>5

LEMMA ReleaseInv ==
  ASSUME WindowInv, ReleaseLock
  PROVE  WindowInv'
<1>1. /\ winStage = "RELEASE" /\ winStage' = "OVER" /\ UNCHANGED <<flag, handset, robbed>>
      /\ \/ sharedLock' = "FREE" /\ UNCHANGED win
         \/ win' = [win EXCEPT !.status = "FAILED"]
  BY DEF ReleaseLock, cloudVars
<1>2. CASE sharedLock' = "FREE" /\ UNCHANGED win
  BY <1>1, <1>2 DEF WindowInv, WindowType, StageTrue, FlagTrue, ProvenTrue, OwnFlag, Before, Within, Behind
<1>3. CASE win' = [win EXCEPT !.status = "FAILED"]
  <2>1. win' \in WinRows /\ win'.status = "FAILED" /\ win'.why = win.why /\ win'.owned = win.owned
    BY <1>3 DEF WindowInv, WindowType, WinRows
  <2> QED BY <1>1, <2>1 DEF WindowInv, WindowType, StageTrue, FlagTrue, ProvenTrue, OwnFlag, Before, Within, Behind
<1> QED BY <1>1, <1>2, <1>3

LEMMA WorldInv ==
  ASSUME WindowInv, UNCHANGED <<winStage, win, robbed>>,
         handset' \in [code : {5, 6}, sync : BOOLEAN, staged : BOOLEAN], handset'.code = handset.code,
         sharedLock' = "WINDOW" => sharedLock = "WINDOW",
         flag' = flag \/ \E on \in BOOLEAN : SetFlag(on, "OTHER")
  PROVE  WindowInv'
<1>1. flag \in [maintenance : BOOLEAN, version : Nat, by : {"OTHER", "WINDOW"}]
  BY DEF WindowInv, WindowType
<1>2. /\ flag' \in [maintenance : BOOLEAN, version : Nat, by : {"OTHER", "WINDOW"}] /\ (OwnFlag' => OwnFlag)
      /\ flag' = flag \/ flag'.version = flag.version + 1
  BY <1>1 DEF SetFlag, OwnFlag
<1> QED BY <1>1, <1>2 DEF WindowInv, WindowType, StageTrue, FlagTrue, ProvenTrue

LEMMA WindowStep ==
  ASSUME WindowInv, WindowNext
  PROVE  WindowInv'
<1>1. handset \in [code : {5, 6}, sync : BOOLEAN, staged : BOOLEAN]
  BY DEF WindowInv, WindowType
<1>2. ASSUME NEW w \in Workers, NEW on \in BOOLEAN, OtherSets(w, on) PROVE WindowInv'
  BY <1>1, <1>2, WorldInv DEF OtherSets
<1>3. ASSUME NEW w \in Workers, OthersWork(w) PROVE WindowInv'
  <2>1. handset' = handset \/ handset' = [handset EXCEPT !.staged = TRUE]
    BY <1>3 DEF OthersWork
  <2>2. handset' \in [code : {5, 6}, sync : BOOLEAN, staged : BOOLEAN] /\ handset'.code = handset.code
    BY <1>1, <2>1
  <2> QED BY <1>3, <2>2, WorldInv DEF OthersWork
<1>4. ASSUME NEW w \in Workers, LockTaken(w) PROVE WindowInv'
  BY <1>1, <1>4, WorldInv DEF LockTaken, cloudVars
<1>5. CASE PhoneMoves
  <2>1. handset' = handset \/ handset' = [handset EXCEPT !.sync = ~handset.sync]
    BY <1>5 DEF PhoneMoves
  <2>2. handset' \in [code : {5, 6}, sync : BOOLEAN, staged : BOOLEAN] /\ handset'.code = handset.code
    BY <1>1, <2>1
  <2> QED BY <1>5, <2>2, WorldInv DEF PhoneMoves, cloudVars
<1> QED BY <1>2, <1>3, <1>4, <1>5, CheckInv, AcquireInv, CasInv, InstallInv, ObservedInv, FinishInv, VerifyInv, FinalInv,
           FailureInv, CleanupInv, ReleaseInv DEF WindowNext

(* Whatever command fails, before or after it took effect: the install     *)
(* window never ends somebody else's maintenance, says FAILED and why when *)
(* its own is left on, and PROVEN only of a phone that was updated, watched*)
(* in maintenance and out of it, with the lock given back.                 *)
THEOREM WindowAccountableCorrect == Spec => []WindowAccountable
<1>1. Init => WindowInv
  BY WindowStart DEF Init
<1>2. WindowInv /\ [Next]_vars => WindowInv'
  <2> SUFFICES ASSUME WindowInv, [Next]_vars PROVE WindowInv'
    OBVIOUS
  <2>1. WindowNext \/ UNCHANGED windowVars
    BY DEF Next, vars, rows
  <2>2. CASE UNCHANGED windowVars
    BY <2>2 DEF windowVars, WindowInv, WindowType, StageTrue, FlagTrue, ProvenTrue, OwnFlag
  <2> QED BY <2>1, <2>2, WindowStep
<1> QED BY <1>1, <1>2, WindowSound, PTL DEF Spec

-----------------------------------------------------------------------------
(* The LAMDA driver                                                        *)

DriverRows ==
    [n : Nat, state : {"OVER", "CONNECT", "ACQUIRE", "IDENTITY", "OPEN", "STOP", "RELEASE", "CLOSE"},
     kind : {"INSTALL", "UI"}, token : Nat, at : 1..5, ready : BOOLEAN, result : {"NONE", "FAILED", "SUCCEEDED"}]
Calls ==
    [by : {"OP", "REFRESH"}, phase : {"SENT", "CHECKED", "OK", "ERR"},
     op : {"acquire", "refresh", "release", "identity", "close", "create", "write", "commit", "state", "info",
           "capabilities", "select", "tap"}]
Apks == [bytes : {"NONE", "GOOD", "ALTERED"}, committed : BOOLEAN, outcome : {"NONE", "INSTALLED", "REFUSED"}]

DriverType ==
    /\ driver \in DriverRows /\ driver.at <= Len(Script(driver.kind))
    /\ pipe \in Calls \cup {Silent}
    /\ fence \in Nat /\ driver.token <= fence
    /\ apiLock \in [holder : Int, ttl : Int] /\ apiLock.holder \in {Stranger} \cup 0..driver.n
    /\ phoneApk \in Apks

(* A call of the operation thread is the one its state asks for, and a     *)
(* session that is over or not yet connected has none.                     *)
CallTrue ==
    /\ pipe.by = "REFRESH" => pipe.op = "refresh"
    /\ pipe.by = "OP" =>
          \/ driver.state = "ACQUIRE" /\ pipe.op = "acquire"
          \/ driver.state = "IDENTITY" /\ pipe.op = "identity"
          \/ driver.state = "OPEN" /\ pipe.op = Script(driver.kind)[driver.at]
          \/ driver.state = "RELEASE" /\ pipe.op = "release"
          \/ driver.state = "CLOSE" /\ pipe.op = "close"
    /\ driver.state \in {"OVER", "CONNECT"} => pipe = Silent /\ refresher = "OFF" /\ sidecar = "NONE"
    /\ driver.ready => driver.state = "OPEN" /\ pipe.by # "OP"

(* One call past its guard is all a stale session has left.                *)
PastGuard == driver.ready \/ (pipe.phase \in {"SENT", "CHECKED"} /\ pipe.op \in Touches)
LateInv ==
    /\ late \in {0, 1}
    /\ driver.token = fence => late = 0
    /\ PastGuard => late = 0

(* Only an acknowledged release gives the lock back for certain.           *)
HoldInv ==
    /\ driver.state # "OVER" => driver.n > 0
    /\ driver.state = "CONNECT" => apiLock.holder # driver.n
    /\ pipe.op = "release" /\ pipe.phase = "OK" => apiLock.holder # driver.n
    /\ driver.state \in {"CLOSE", "OVER"} /\ driver.n > 0 => apiLock.holder # driver.n \/ unreturned

(* How far the install has come.                                           *)
Through(i) == driver.at > i \/ (driver.at = i /\ pipe.by = "OP" /\ pipe.phase = "OK")
ApkInstalled == phoneApk.bytes # "NONE" /\ phoneApk.committed /\ phoneApk.outcome = "INSTALLED"
InstallTrue ==
    /\ driver.state \in {"CONNECT", "ACQUIRE", "IDENTITY"} => driver.at = 1
    /\ driver.state = "OPEN" /\ driver.kind = "INSTALL" =>
          /\ Through(2) => phoneApk.bytes # "NONE"
          /\ Through(3) => phoneApk.committed
          /\ Through(4) => phoneApk.outcome = "INSTALLED"
    /\ driver.result = "SUCCEEDED" =>
          /\ driver.state \in {"STOP", "RELEASE", "CLOSE", "OVER"}
          /\ driver.kind = "INSTALL" => ApkInstalled

DriverInv == DriverType /\ CallTrue /\ LateInv /\ HoldInv /\ InstallTrue

(* A file that passed the check is the approved one, unless it changed     *)
(* since: only then are the delivered bytes others.                        *)
SwapInv ==
    /\ cached \in {"GOOD", "ALTERED"}
    /\ pipe.phase = "CHECKED" => cached = "GOOD" \/ swapped
    /\ phoneApk.bytes = "ALTERED" => swapped

LEMMA ScriptFacts ==
  /\ Len(Script("INSTALL")) = 5 /\ Len(Script("UI")) = 4
  /\ Script("INSTALL")[1] = "create" /\ Script("INSTALL")[2] = "write" /\ Script("INSTALL")[3] = "commit"
  /\ Script("INSTALL")[4] = "state" /\ Script("INSTALL")[5] = "info"
  /\ Script("UI")[1] = "capabilities" /\ Script("UI")[2] = "capabilities" /\ Script("UI")[3] = "select"
  /\ Script("UI")[4] = "tap"
BY DEF Script

LEMMA PipeFacts ==
  ASSUME DriverInv
  PROVE  /\ pipe.by = "NONE" \/ pipe.phase = "NONE" => pipe = Silent /\ pipe.op = "NONE"
         /\ pipe # Silent => pipe \in Calls
         /\ pipe.by \in {"NONE", "OP", "REFRESH"}
<1>1. pipe \in Calls \cup {Silent}
  BY DEF DriverInv, DriverType
<1>2. pipe \in Calls => pipe.by \in {"OP", "REFRESH"} /\ pipe.phase \in {"SENT", "CHECKED", "OK", "ERR"}
  BY DEF Calls
<1>3. Silent.by = "NONE" /\ Silent.op = "NONE" /\ Silent.phase = "NONE"
  BY DEF Silent
<1> QED BY <1>1, <1>2, <1>3

LEMMA SilentFacts == Silent.by = "NONE" /\ Silent.op = "NONE" /\ Silent.phase = "NONE"
BY DEF Silent

LEMMA DriverStart == DriverInit => DriverInv
<1> SUFFICES ASSUME DriverInit PROVE DriverInv
  OBVIOUS
<1>1. /\ driver \in DriverRows /\ driver.n = 0 /\ driver.state = "OVER" /\ driver.kind = "UI" /\ driver.token = 0
      /\ driver.at = 1 /\ driver.result = "NONE"
  BY DEF DriverInit, DriverRows
<1>2. driver.ready = FALSE
  BY Zenon DEF DriverInit
<1>3. phoneApk \in Apks /\ pipe = Silent /\ fence = 1 /\ late = 0 /\ refresher = "OFF" /\ sidecar = "NONE"
      /\ apiLock.holder = 0 /\ apiLock \in [holder : Int, ttl : Int]
  BY DEF DriverInit, NoApk, Apks
<1> QED BY <1>1, <1>2, <1>3, ScriptFacts, SilentFacts
        DEF DriverInv, DriverType, CallTrue, LateInv, PastGuard, HoldInv, InstallTrue, Touches

LEMMA DriverSound == DriverInv /\ SwapInv => DriverAccountable
BY DEF DriverInv, DriverType, Apks, CallTrue, LateInv, HoldInv, InstallTrue, ApkInstalled, SwapInv, DriverAccountable

\* A call of the transport is one of the state's own.
LEMMA TouchIsOp ==
  ASSUME DriverInv, pipe.op \in Touches
  PROVE  pipe.by = "OP" /\ driver.state = "OPEN" /\ ~driver.ready
<1>1. pipe.by # "NONE" /\ pipe.by # "REFRESH"
  BY PipeFacts DEF DriverInv, CallTrue, Touches
<1>2. pipe.by = "OP"
  BY <1>1, PipeFacts
<1> QED BY <1>2 DEF DriverInv, CallTrue, Touches

LEMMA EnterInv ==
  ASSUME DriverInv, NEW kind \in {"INSTALL", "UI"}, Enter(kind)
  PROVE  DriverInv'
<1>1. /\ driver.state = "OVER" /\ late' = 0 /\ phoneApk' = NoApk
      /\ driver' = [n |-> driver.n + 1, state |-> "CONNECT", kind |-> kind, token |-> fence,
                    at |-> 1, ready |-> FALSE, result |-> "NONE"]
      /\ UNCHANGED <<refresher, pipe, sidecar, fence, apiLock>>
  BY DEF Enter
<1>2. driver.n \in Nat /\ fence \in Nat /\ apiLock \in [holder : Int, ttl : Int] /\ apiLock.holder \in {Stranger} \cup 0..driver.n
  BY DEF DriverInv, DriverType, DriverRows
<1>3. /\ driver' \in DriverRows /\ driver'.n = driver.n + 1 /\ driver'.state = "CONNECT" /\ driver'.kind = kind
      /\ driver'.token = fence /\ driver'.at = 1 /\ driver'.result = "NONE"
  BY <1>1, <1>2 DEF DriverRows
<1>4. driver'.ready = FALSE
  BY <1>1, Zenon
<1>5. pipe = Silent /\ refresher = "OFF" /\ sidecar = "NONE"
  BY <1>1 DEF DriverInv, CallTrue
<1>6. phoneApk' \in Apks
  BY <1>1 DEF NoApk, Apks
<1>7. apiLock.holder # driver.n + 1 /\ apiLock.holder \in {Stranger} \cup 0..(driver.n + 1)
  BY <1>2 DEF Stranger
<1>8. DriverType'
  BY <1>1, <1>2, <1>3, <1>5, <1>6, <1>7, ScriptFacts DEF DriverType
<1>9. CallTrue' /\ LateInv'
  BY <1>1, <1>3, <1>4, <1>5, SilentFacts DEF CallTrue, LateInv, PastGuard, Touches
<1>10. HoldInv' /\ InstallTrue'
  BY <1>1, <1>2, <1>3, <1>5, <1>7, SilentFacts DEF HoldInv, InstallTrue
<1> QED BY <1>8, <1>9, <1>10 DEF DriverInv

\* A move of the operation thread alone, without a call in the transport.
LEMMA ConnectInv ==
  ASSUME DriverInv, Connect
  PROVE  DriverInv'
<1>1. /\ driver.state = "CONNECT" /\ UNCHANGED <<refresher, pipe, fence, apiLock, phoneApk, late>>
      /\ \/ driver' = [driver EXCEPT !.state = "ACQUIRE"]
         \/ driver' = [driver EXCEPT !.state = "OVER", !.result = "FAILED"] /\ UNCHANGED sidecar
  BY DEF Connect
<1>2. /\ driver' \in DriverRows /\ driver'.n = driver.n /\ driver'.kind = driver.kind /\ driver'.token = driver.token
      /\ driver'.at = driver.at /\ driver'.ready = driver.ready
      /\ \/ driver'.state = "ACQUIRE" /\ driver'.result = driver.result
         \/ driver'.state = "OVER" /\ driver'.result = "FAILED" /\ UNCHANGED sidecar
  <2>1. driver \in DriverRows
    BY DEF DriverInv, DriverType
  <2>2. CASE driver' = [driver EXCEPT !.state = "ACQUIRE"]
    BY <2>1, <2>2 DEF DriverRows
  <2>3. CASE driver' = [driver EXCEPT !.state = "OVER", !.result = "FAILED"] /\ UNCHANGED sidecar
    BY <2>1, <2>3 DEF DriverRows
  <2> QED BY <1>1, <2>2, <2>3
<1>3. pipe = Silent /\ refresher = "OFF" /\ sidecar = "NONE" /\ ~driver.ready
  BY <1>1 DEF DriverInv, CallTrue
<1>4. DriverType'
  BY <1>1, <1>2 DEF DriverInv, DriverType
<1>5. CallTrue' /\ LateInv'
  BY <1>1, <1>2, <1>3, SilentFacts DEF DriverInv, CallTrue, LateInv, PastGuard, Touches
<1>6. HoldInv' /\ InstallTrue'
  BY <1>1, <1>2, <1>3, SilentFacts DEF DriverInv, HoldInv, InstallTrue
<1> QED BY <1>4, <1>5, <1>6 DEF DriverInv

LEMMA SubmitFacts ==
  ASSUME DriverInv, NEW by \in {"OP", "REFRESH"}, NEW op, Submit(by, op),
         op \in {"acquire", "refresh", "release", "identity", "close", "create", "write", "commit", "state", "info",
                 "capabilities", "select", "tap"}
  PROVE  /\ pipe = Silent /\ pipe' \in Calls /\ pipe'.by = by /\ pipe'.op = op /\ pipe'.phase \in {"SENT", "ERR"}
BY PipeFacts DEF Submit, Calls

LEMMA SendInv ==
  ASSUME DriverInv, SendUnguarded
  PROVE  DriverInv'
<1>1. /\ driver.state \in {"ACQUIRE", "IDENTITY", "RELEASE", "CLOSE"} /\ Submit("OP", UnguardedOp)
      /\ UNCHANGED <<driver, refresher, sidecar, fence, apiLock, phoneApk, late, unreturned>>
  BY DEF SendUnguarded
<1>2. PICK op : op = UnguardedOp
  OBVIOUS
<1>3. \/ driver.state = "ACQUIRE" /\ op = "acquire"
      \/ driver.state = "IDENTITY" /\ op = "identity"
      \/ driver.state = "RELEASE" /\ op = "release"
      \/ driver.state = "CLOSE" /\ op = "close"
  BY <1>1, <1>2 DEF UnguardedOp
<1>4. pipe' \in Calls /\ pipe'.by = "OP" /\ pipe'.op = op /\ pipe'.phase \in {"SENT", "ERR"}
  BY <1>1, <1>2, <1>3, SubmitFacts
<1>5. ~driver.ready
  BY <1>1 DEF DriverInv, CallTrue
<1>6. DriverType'
  BY <1>1, <1>4 DEF DriverInv, DriverType
<1>7. CallTrue' /\ LateInv'
  BY <1>1, <1>3, <1>4, <1>5 DEF DriverInv, CallTrue, LateInv, PastGuard, Touches
<1>8. HoldInv' /\ InstallTrue'
  BY <1>1, <1>4 DEF DriverInv, HoldInv, InstallTrue, ApkInstalled
<1> QED BY <1>6, <1>7, <1>8 DEF DriverInv

LEMMA GuardInv ==
  ASSUME DriverInv, Guard
  PROVE  DriverInv'
<1>1. /\ driver.state = "OPEN" /\ pipe.by # "OP" /\ UNCHANGED <<refresher, pipe, sidecar, fence, apiLock, phoneApk, late, unreturned>>
      /\ \/ driver.token = fence /\ driver' = [driver EXCEPT !.ready = TRUE]
         \/ ~driver.ready /\ driver' = [driver EXCEPT !.state = "STOP", !.result = "FAILED"]
  BY DEF Guard, GuardPasses
<1>2. pipe.op \notin Touches
  BY <1>1, TouchIsOp
<1>3. /\ driver' \in DriverRows /\ driver'.n = driver.n /\ driver'.kind = driver.kind /\ driver'.token = driver.token
      /\ driver'.at = driver.at
      /\ \/ driver.token = fence /\ driver'.state = "OPEN" /\ driver'.result = driver.result
         \/ ~driver.ready /\ driver'.state = "STOP" /\ driver'.result = "FAILED" /\ driver'.ready = driver.ready
  <2>1. driver \in DriverRows
    BY DEF DriverInv, DriverType
  <2>2. CASE driver.token = fence /\ driver' = [driver EXCEPT !.ready = TRUE]
    BY <1>1, <2>1, <2>2 DEF DriverRows
  <2>3. CASE ~driver.ready /\ driver' = [driver EXCEPT !.state = "STOP", !.result = "FAILED"]
    BY <2>1, <2>3 DEF DriverRows
  <2> QED BY <1>1, <2>2, <2>3
<1>4. DriverType'
  BY <1>1, <1>3 DEF DriverInv, DriverType
<1>5. CallTrue' /\ LateInv'
  BY <1>1, <1>2, <1>3 DEF DriverInv, CallTrue, LateInv, PastGuard
<1>6. HoldInv'
  BY <1>1, <1>3 DEF DriverInv, HoldInv
<1>7. InstallTrue'
  BY <1>1, <1>3 DEF DriverInv, InstallTrue, ApkInstalled, Through
<1> QED BY <1>4, <1>5, <1>6, <1>7 DEF DriverInv

LEMMA SendOpInv ==
  ASSUME DriverInv, SendOp
  PROVE  DriverInv'
<1>1. /\ driver.state = "OPEN" /\ Submit("OP", Script(driver.kind)[driver.at])
      /\ driver.ready \/ Script(driver.kind)[driver.at] = "info"
      /\ driver' = [driver EXCEPT !.ready = FALSE]
      /\ UNCHANGED <<refresher, sidecar, fence, apiLock, phoneApk, late, unreturned>>
  BY DEF SendOp, NextOp
<1>2. driver \in DriverRows /\ driver.at <= Len(Script(driver.kind)) /\ driver.at \in 1..5 /\ driver.kind \in {"INSTALL", "UI"}
  BY DEF DriverInv, DriverType, DriverRows
<1>3. Script(driver.kind)[driver.at] \in {"create", "write", "commit", "state", "info", "capabilities", "select", "tap"}
  BY <1>2, ScriptFacts
<1>4. /\ pipe = Silent /\ pipe' \in Calls /\ pipe'.by = "OP" /\ pipe'.op = Script(driver.kind)[driver.at]
      /\ pipe'.phase \in {"SENT", "ERR"}
  BY <1>1, <1>3, SubmitFacts
<1>5. /\ driver' \in DriverRows /\ driver'.n = driver.n /\ driver'.kind = driver.kind /\ driver'.token = driver.token
      /\ driver'.at = driver.at /\ driver'.state = driver.state /\ driver'.result = driver.result
  BY <1>1, <1>2 DEF DriverRows
<1>6. driver'.ready = FALSE
  BY <1>1, <1>2, Zenon DEF DriverRows
<1>7. late = 0 \/ pipe'.op \notin Touches
  BY <1>1, <1>4 DEF DriverInv, LateInv, PastGuard, Touches
<1>8. DriverType'
  BY <1>1, <1>4, <1>5 DEF DriverInv, DriverType
<1>9. CallTrue' /\ LateInv'
  BY <1>1, <1>4, <1>5, <1>6, <1>7 DEF DriverInv, CallTrue, LateInv, PastGuard
<1>10. HoldInv'
  BY <1>1, <1>3, <1>4, <1>5 DEF DriverInv, HoldInv
<1>11. InstallTrue'
  BY <1>1, <1>4, <1>5 DEF DriverInv, InstallTrue, ApkInstalled, Through
<1> QED BY <1>8, <1>9, <1>10, <1>11 DEF DriverInv

LEMMA RefreshSendInv ==
  ASSUME DriverInv, RefreshSend
  PROVE  DriverInv'
<1>1. /\ refresher = "READY" /\ Submit("REFRESH", "refresh")
      /\ UNCHANGED <<driver, sidecar, fence, apiLock, phoneApk, late, unreturned>>
  BY DEF RefreshSend
<1>2. pipe = Silent /\ pipe' \in Calls /\ pipe'.by = "REFRESH" /\ pipe'.op = "refresh"
  BY <1>1, SubmitFacts
<1>3. driver.state \notin {"OVER", "CONNECT"}
  BY <1>1 DEF DriverInv, CallTrue
<1>4. DriverType'
  BY <1>1, <1>2 DEF DriverInv, DriverType
<1>5. CallTrue' /\ LateInv'
  BY <1>1, <1>2, <1>3 DEF DriverInv, CallTrue, LateInv, PastGuard, Touches
<1>6. HoldInv' /\ InstallTrue'
  BY <1>1, <1>2 DEF DriverInv, HoldInv, InstallTrue, ApkInstalled, Through
<1> QED BY <1>4, <1>5, <1>6 DEF DriverInv

\* The sidecar answers a call; nobody reads the answer yet.
LEMMA AnsweredFacts ==
  ASSUME DriverInv, pipe.phase \in {"SENT", "CHECKED"}, NEW phase \in {"OK", "ERR"}, Answer(phase), UNCHANGED <<driver, refresher, fence>>
  PROVE  /\ pipe' \in Calls /\ pipe'.by = pipe.by /\ pipe'.op = pipe.op /\ pipe'.phase = phase
         /\ driver.state \notin {"OVER", "CONNECT"} /\ CallTrue' /\ (PastGuard' => driver.ready)
<1>1. pipe \in Calls
  BY PipeFacts, SilentFacts
<1>2. pipe' \in Calls /\ pipe'.by = pipe.by /\ pipe'.op = pipe.op /\ pipe'.phase = phase
  BY <1>1 DEF Answer, Calls
<1>3. driver.state \notin {"OVER", "CONNECT"}
  BY SilentFacts DEF DriverInv, CallTrue
<1> QED BY <1>2, <1>3 DEF DriverInv, CallTrue, PastGuard

LEMMA ServeLockInv ==
  ASSUME DriverInv, ServeLock
  PROVE  DriverInv'
<1>1. /\ pipe.phase = "SENT" /\ pipe.op \in {"acquire", "refresh", "release"} /\ LockServed /\ apiLock' = LockAfter
      /\ UNCHANGED <<driver, refresher, sidecar, fence, phoneApk, late, unreturned>>
  BY DEF ServeLock
<1>2. PICK phase \in {"OK", "ERR"} : Answer(phase)
  BY DEF ServeLock
<1>3. /\ pipe' \in Calls /\ pipe'.by = pipe.by /\ pipe'.op = pipe.op /\ pipe'.phase = phase
      /\ driver.state \notin {"OVER", "CONNECT"} /\ CallTrue' /\ (PastGuard' => driver.ready)
  BY <1>1, <1>2, AnsweredFacts
<1>4. driver.n \in Nat /\ driver.n > 0
  BY <1>3 DEF DriverInv, DriverType, DriverRows, HoldInv
<1>5. apiLock'.holder = (IF pipe.op = "release" THEN 0 ELSE driver.n) /\ apiLock' \in [holder : Int, ttl : Int]
  BY <1>1, <1>4, DriverAssumption DEF LockAfter
<1>6. DriverType'
  BY <1>1, <1>3, <1>4, <1>5 DEF DriverInv, DriverType
<1>7. LateInv'
  BY <1>1, <1>3 DEF DriverInv, LateInv, PastGuard
<1>8. pipe.op = "refresh" => apiLock.holder = driver.n
  BY <1>1 DEF LockServed, Mine
<1>9. pipe.op = "acquire" => driver.state = "ACQUIRE"
  BY PipeFacts DEF DriverInv, CallTrue, DriverType, DriverRows, Script
<1>10. HoldInv'
  BY <1>1, <1>3, <1>4, <1>5, <1>8, <1>9 DEF DriverInv, HoldInv
<1>11. pipe.by = "OP" => driver.state # "OPEN"
  <2>1. Script(driver.kind)[driver.at] \notin {"acquire", "refresh", "release"}
    <3>1. /\ driver.kind \in {"INSTALL", "UI"} /\ driver.at \in 1..5 /\ driver.at <= Len(Script(driver.kind))
      BY DEF DriverInv, DriverType, DriverRows
    <3>2. CASE driver.kind = "INSTALL"
      <4>1. driver.at = 1 \/ driver.at = 2 \/ driver.at = 3 \/ driver.at = 4 \/ driver.at = 5
        BY <3>1
      <4> QED BY <3>2, <4>1, ScriptFacts
    <3>3. CASE driver.kind = "UI"
      <4>0. Len(Script(driver.kind)) = 4
        BY <3>3, ScriptFacts, Zenon
      <4>1. driver.at = 1 \/ driver.at = 2 \/ driver.at = 3 \/ driver.at = 4
        BY <3>1, <4>0
      <4> QED BY <3>3, <4>1, ScriptFacts
    <3> QED BY <3>1, <3>2, <3>3
  <2> QED BY <1>1, <2>1 DEF DriverInv, CallTrue
<1>12. InstallTrue'
  BY <1>1, <1>3, <1>11 DEF DriverInv, InstallTrue, ApkInstalled, Through
<1> QED BY <1>3, <1>6, <1>7, <1>10, <1>12 DEF DriverInv

LEMMA ArtifactInv ==
  ASSUME DriverInv, VerifyArtifact
  PROVE  DriverInv'
<1>1. /\ pipe.phase = "SENT" /\ pipe.op = "write" /\ pipe' = [pipe EXCEPT !.phase = "CHECKED"]
      /\ UNCHANGED <<driver, refresher, sidecar, fence, apiLock, phoneApk, late, unreturned>>
  BY DEF VerifyArtifact, Answer
<1>2. pipe \in Calls
  BY <1>1, PipeFacts, SilentFacts
<1>3. pipe' \in Calls /\ pipe'.by = pipe.by /\ pipe'.op = "write" /\ pipe'.phase = "CHECKED"
  BY <1>1, <1>2 DEF Calls
<1>4. driver.state = "OPEN"
  BY <1>1, TouchIsOp DEF Touches
<1>5. DriverType'
  BY <1>1, <1>3 DEF DriverInv, DriverType
<1>6. CallTrue' /\ LateInv'
  BY <1>1, <1>3, <1>4 DEF DriverInv, CallTrue, LateInv, PastGuard, Touches
<1>7. HoldInv' /\ InstallTrue'
  BY <1>1, <1>3 DEF DriverInv, HoldInv, InstallTrue, ApkInstalled, Through
<1> QED BY <1>5, <1>6, <1>7 DEF DriverInv

LEMMA EffectInv ==
  ASSUME DriverInv, SwapInv, ServeEffect
  PROVE  DriverInv'
<1>1. /\ pipe.phase \in {"SENT", "CHECKED"} /\ pipe.op \in Touches /\ cached \in {"GOOD", "ALTERED"} /\ phoneApk' = Touched
      /\ late' = (IF driver.token = fence THEN late ELSE late + 1)
      /\ UNCHANGED <<driver, refresher, sidecar, fence, apiLock, unreturned>>
  BY DEF ServeEffect, SwapInv
<1>2. PICK phase \in {"OK", "ERR"} : Answer(phase)
  BY DEF ServeEffect
<1>3. /\ pipe' \in Calls /\ pipe'.by = pipe.by /\ pipe'.op = pipe.op /\ pipe'.phase = phase
      /\ driver.state \notin {"OVER", "CONNECT"} /\ CallTrue' /\ (PastGuard' => driver.ready)
  BY <1>1, <1>2, AnsweredFacts
<1>4. pipe.by = "OP" /\ driver.state = "OPEN" /\ ~driver.ready /\ pipe.op = Script(driver.kind)[driver.at]
  BY <1>1, TouchIsOp DEF DriverInv, CallTrue
<1>5. /\ phoneApk \in Apks /\ driver.at \in 1..5 /\ driver.kind \in {"INSTALL", "UI"}
      /\ driver.at <= Len(Script(driver.kind))
  BY DEF DriverInv, DriverType, DriverRows
<1>6. /\ phoneApk' \in Apks
      /\ pipe.op = "write" => phoneApk'.bytes # "NONE"
      /\ pipe.op = "commit" => phoneApk'.bytes = phoneApk.bytes /\ phoneApk'.committed
  <2>1. CASE pipe.op = "create"
    BY <1>1, <2>1 DEF Touched, NoApk, Apks
  <2>2. CASE pipe.op = "write"
    <3>1. phoneApk' = [phoneApk EXCEPT !.bytes = cached]
      BY <1>1, <2>2 DEF Touched
    <3> QED BY <1>1, <1>5, <2>2, <3>1 DEF Apks
  <2>3. CASE pipe.op = "commit"
    <3>1. phoneApk' = [phoneApk EXCEPT !.committed = TRUE]
      BY <1>1, <2>3 DEF Touched
    <3>2. phoneApk'.committed = TRUE
      BY <1>5, <3>1, Zenon DEF Apks
    <3>3. phoneApk' \in Apks /\ phoneApk'.bytes = phoneApk.bytes
      BY <1>5, <3>1 DEF Apks
    <3> QED BY <2>3, <3>2, <3>3
  <2>4. CASE pipe.op = "tap"
    BY <1>1, <1>5, <2>4 DEF Touched
  <2> QED BY <1>1, <2>1, <2>2, <2>3, <2>4 DEF Touches
<1>7. DriverType'
  BY <1>1, <1>3, <1>6 DEF DriverInv, DriverType
<1>8. LateInv'
  BY <1>1, <1>3, <1>4 DEF DriverInv, LateInv, PastGuard
<1>9. HoldInv'
  BY <1>1, <1>3 DEF DriverInv, HoldInv, Touches
<1>10. driver.kind = "INSTALL" => driver.at \in 1..3 /\ (driver.at = 2 => pipe.op = "write") /\ (driver.at = 3 => pipe.op = "commit")
  BY <1>1, <1>4, <1>5, ScriptFacts DEF Touches
<1>11. driver.kind = "INSTALL" /\ driver.at = 3 => phoneApk.bytes # "NONE"
  BY <1>4 DEF DriverInv, InstallTrue, Through
<1>12. driver.result # "SUCCEEDED"
  BY <1>4 DEF DriverInv, InstallTrue
<1>13. InstallTrue'
  BY <1>1, <1>4, <1>5, <1>6, <1>10, <1>11, <1>12 DEF InstallTrue, Through
<1> QED BY <1>3, <1>7, <1>8, <1>9, <1>13 DEF DriverInv

\* Answers without an effect: what was read, what failed, a closed process.
LEMMA AnswerOnlyInv ==
  ASSUME DriverInv, pipe.phase \in {"SENT", "CHECKED"}, NEW phase \in {"OK", "ERR"}, Answer(phase), pipe.op = "release" => phase = "ERR",
         UNCHANGED <<driver, refresher, fence, apiLock, phoneApk, late, unreturned>>,
         phase = "OK" /\ driver.state = "OPEN" => pipe.op \notin {"write", "commit"} /\ (pipe.op = "state" => phoneApk.outcome = "INSTALLED")
  PROVE  DriverInv'
<1>1. /\ pipe' \in Calls /\ pipe'.by = pipe.by /\ pipe'.op = pipe.op /\ pipe'.phase = phase
      /\ driver.state \notin {"OVER", "CONNECT"} /\ CallTrue' /\ (PastGuard' => driver.ready)
  BY AnsweredFacts
<1>2. DriverType'
  BY <1>1 DEF DriverInv, DriverType
<1>3. LateInv'
  BY <1>1 DEF DriverInv, LateInv, PastGuard
<1>4. HoldInv'
  BY <1>1 DEF DriverInv, HoldInv
<1>5. driver.at \in 1..5
  BY DEF DriverInv, DriverType, DriverRows
<1>6. phase = "OK" /\ pipe.by = "OP" /\ driver.state = "OPEN" /\ driver.kind = "INSTALL" =>
         driver.at \notin {2, 3} /\ (driver.at = 4 => phoneApk.outcome = "INSTALLED")
  BY ScriptFacts DEF DriverInv, CallTrue
<1>7. ASSUME driver.state = "OPEN", driver.kind = "INSTALL"
      PROVE  (Through(2)' => Through(2)) /\ (Through(3)' => Through(3)) /\ (Through(4)' => Through(4) \/ phoneApk.outcome = "INSTALLED")
  BY <1>1, <1>5, <1>6, <1>7 DEF Through
<1>8. InstallTrue'
  BY <1>7 DEF DriverInv, InstallTrue, ApkInstalled
<1> QED BY <1>1, <1>2, <1>3, <1>4, <1>8 DEF DriverInv

LEMMA ServeInv ==
  ASSUME DriverInv, ServeRead \/ ServeClose \/ ServeError
  PROVE  DriverInv'
<1>1. CASE ServeRead
  <2>1. pipe.op = "state" => phoneApk.outcome = "INSTALLED"
    BY <1>1 DEF ServeRead, ReadServed
  <2> QED BY <1>1, <2>1, AnswerOnlyInv DEF ServeRead
<1>2. CASE ServeClose
  BY <1>2, AnswerOnlyInv DEF ServeClose
<1>3. CASE ServeError
  BY <1>3, AnswerOnlyInv DEF ServeError
<1> QED BY <1>1, <1>2, <1>3

\* Steps that leave the session, its calls and its lock as they are.
LEMMA OutsideInv ==
  ASSUME DriverInv, UNCHANGED <<driver, pipe, phoneApk, late, unreturned>>, fence' \in Nat, fence <= fence',
         driver.token = fence' => fence' = fence,
         apiLock' \in [holder : Int, ttl : Int], apiLock'.holder \in {apiLock.holder, 0, Stranger},
         driver.state \in {"OVER", "CONNECT"} => refresher' = "OFF" /\ sidecar' = "NONE"
  PROVE  DriverInv'
<1>1. driver.n \in Nat /\ driver.token \in Nat /\ fence \in Nat
  BY DEF DriverInv, DriverType, DriverRows
<1>2. DriverType'
  BY <1>1 DEF DriverInv, DriverType
<1>3. CallTrue' /\ LateInv' /\ InstallTrue'
  BY DEF DriverInv, CallTrue, LateInv, PastGuard, InstallTrue, ApkInstalled, Through
<1>4. apiLock'.holder = driver.n /\ driver.n > 0 => apiLock.holder = driver.n
  BY <1>1 DEF Stranger
<1>5. pipe.op = "release" => driver.state # "OVER"
  BY PipeFacts, SilentFacts DEF DriverInv, CallTrue
<1>6. HoldInv'
  BY <1>1, <1>4, <1>5 DEF DriverInv, HoldInv
<1> QED BY <1>2, <1>3, <1>6 DEF DriverInv

LEMMA WorldStepInv ==
  ASSUME DriverInv, SidecarDies \/ RefreshVerify \/ Tick \/ StrangerLocks \/ FenceMoves \/ CacheChanges
  PROVE  DriverInv'
<1>1. /\ fence \in Nat /\ driver.token \in Nat /\ driver.token <= fence /\ apiLock \in [holder : Int, ttl : Int]
      /\ driver.state \in {"OVER", "CONNECT"} => refresher = "OFF" /\ sidecar = "NONE"
  BY DEF DriverInv, DriverType, DriverRows, CallTrue
<1>2. CASE SidecarDies
  <2>1. CASE pipe.phase \in {"SENT", "CHECKED"}
    BY <1>2, <2>1, AnswerOnlyInv DEF SidecarDies, Answer
  <2>2. CASE pipe.phase \notin {"SENT", "CHECKED"}
    BY <1>1, <1>2, <2>2, OutsideInv DEF SidecarDies
  <2> QED BY <2>1, <2>2
<1>3. CASE RefreshVerify
  BY <1>1, <1>3, OutsideInv DEF RefreshVerify
<1>4. CASE Tick
  <2>1. apiLock' \in [holder : Int, ttl : Int] /\ apiLock'.holder \in {apiLock.holder, 0}
    <3>1. CASE apiLock' = [holder |-> 0, ttl |-> 0]
      BY <3>1
    <3>2. CASE apiLock' = [apiLock EXCEPT !.ttl = apiLock.ttl - 1]
      BY <1>1, <3>2
    <3> QED BY <1>4, <3>1, <3>2 DEF Tick
  <2>2. driver.state \in {"OVER", "CONNECT"} => refresher' = "OFF" /\ sidecar' = "NONE"
    BY <1>1, <1>4 DEF Tick
  <2> QED BY <1>1, <1>4, <2>1, <2>2, OutsideInv DEF Tick
<1>5. CASE StrangerLocks
  <2>1. apiLock' \in [holder : Int, ttl : Int] /\ apiLock'.holder = Stranger
    BY <1>5, DriverAssumption DEF StrangerLocks, Stranger
  <2> QED BY <1>1, <1>5, <2>1, OutsideInv DEF StrangerLocks
<1>6. CASE FenceMoves
  BY <1>1, <1>6, OutsideInv DEF FenceMoves
<1>7. CASE CacheChanges
  BY <1>1, <1>7, OutsideInv DEF CacheChanges
<1> QED BY <1>2, <1>3, <1>4, <1>5, <1>6, <1>7

LEMMA PhoneInv ==
  ASSUME DriverInv, PhoneInstalls
  PROVE  DriverInv'
<1>1. /\ phoneApk.outcome = "NONE" /\ \E o \in {"INSTALLED", "REFUSED"} : phoneApk' = [phoneApk EXCEPT !.outcome = o]
      /\ UNCHANGED <<driver, refresher, pipe, sidecar, fence, apiLock, late, unreturned>>
  BY DEF PhoneInstalls
<1>2. phoneApk' \in Apks /\ phoneApk'.bytes = phoneApk.bytes /\ phoneApk'.committed = phoneApk.committed
  BY <1>1 DEF DriverInv, DriverType, Apks
<1>3. DriverType' /\ CallTrue' /\ LateInv' /\ HoldInv'
  BY <1>1, <1>2 DEF DriverInv, DriverType, CallTrue, LateInv, PastGuard, HoldInv
<1>4. InstallTrue'
  BY <1>1, <1>2 DEF DriverInv, InstallTrue, ApkInstalled, Through
<1> QED BY <1>3, <1>4 DEF DriverInv

LEMMA RefreshReceiveInv ==
  ASSUME DriverInv, RefreshReceive
  PROVE  DriverInv'
<1>1. pipe.by = "REFRESH" /\ pipe' = Silent /\ UNCHANGED <<driver, sidecar, fence, apiLock, phoneApk, late, unreturned>>
  BY DEF RefreshReceive
<1>2. driver.state \notin {"OVER", "CONNECT"}
  BY <1>1, SilentFacts DEF DriverInv, CallTrue
<1>3. DriverType' /\ CallTrue' /\ LateInv' /\ HoldInv'
  BY <1>1, <1>2, SilentFacts DEF DriverInv, DriverType, CallTrue, LateInv, PastGuard, HoldInv, Touches
<1>4. InstallTrue'
  BY <1>1, SilentFacts DEF DriverInv, InstallTrue, ApkInstalled, Through
<1> QED BY <1>3, <1>4 DEF DriverInv

LEMMA StoppedInv ==
  ASSUME DriverInv, StopRefresh
  PROVE  DriverInv'
<1>1. /\ driver.state = "STOP" /\ driver' = [driver EXCEPT !.state = "RELEASE"]
      /\ UNCHANGED <<pipe, sidecar, fence, apiLock, phoneApk, late, unreturned>>
  BY DEF StopRefresh
<1>2. /\ driver' \in DriverRows /\ driver'.n = driver.n /\ driver'.kind = driver.kind /\ driver'.token = driver.token
      /\ driver'.at = driver.at /\ driver'.ready = driver.ready /\ driver'.state = "RELEASE" /\ driver'.result = driver.result
  BY <1>1 DEF DriverInv, DriverType, DriverRows
<1>3. pipe.by # "OP"
  BY <1>1 DEF DriverInv, CallTrue
<1>4. DriverType' /\ CallTrue'
  BY <1>1, <1>2, <1>3 DEF DriverInv, DriverType, CallTrue
<1>5. LateInv' /\ HoldInv' /\ InstallTrue'
  BY <1>1, <1>2 DEF DriverInv, LateInv, PastGuard, HoldInv, InstallTrue, ApkInstalled
<1> QED BY <1>4, <1>5 DEF DriverInv

LEMMA DiesInv ==
  ASSUME DriverInv, GatewayDies
  PROVE  DriverInv'
<1>1. /\ driver.state # "OVER" /\ driver' = [driver EXCEPT !.state = "OVER", !.ready = FALSE]
      /\ refresher' = "OFF" /\ pipe' = Silent /\ sidecar' = "NONE" /\ unreturned'
      /\ UNCHANGED <<fence, apiLock, phoneApk, late>>
  BY DEF GatewayDies
<1>2. /\ driver' \in DriverRows /\ driver'.n = driver.n /\ driver'.kind = driver.kind /\ driver'.token = driver.token
      /\ driver'.at = driver.at /\ driver'.state = "OVER" /\ driver'.result = driver.result
  BY <1>1 DEF DriverInv, DriverType, DriverRows
<1>3. driver'.ready = FALSE
  BY <1>1, Zenon DEF DriverInv, DriverType, DriverRows
<1>4. DriverType' /\ CallTrue'
  BY <1>1, <1>2, <1>3, SilentFacts DEF DriverInv, DriverType, CallTrue
<1>5. LateInv' /\ HoldInv' /\ InstallTrue'
  BY <1>1, <1>2, <1>3, SilentFacts DEF DriverInv, LateInv, PastGuard, HoldInv, InstallTrue, ApkInstalled, Touches
<1> QED BY <1>4, <1>5 DEF DriverInv

LEMMA ReceiveInv ==
  ASSUME DriverInv, Receive
  PROVE  DriverInv'
<1>1. PICK ok \in BOOLEAN : ok = (pipe.phase = "OK")
  OBVIOUS
<1>2. /\ pipe.by = "OP" /\ pipe.phase \in {"OK", "ERR"} /\ driver' = Continued(ok) /\ pipe' = Silent
      /\ unreturned' = (unreturned \/ (driver.state = "RELEASE" /\ pipe.phase = "ERR"))
      /\ driver'.state = "OVER" => refresher' = "OFF" /\ sidecar' = "NONE"
      /\ UNCHANGED <<fence, apiLock, phoneApk, late>>
  BY <1>1 DEF Receive
<1>3. driver \in DriverRows /\ driver.at <= Len(Script(driver.kind)) /\ driver.at \in 1..5 /\ driver.kind \in {"INSTALL", "UI"}
  BY DEF DriverInv, DriverType, DriverRows
<1>4. driver.state \in {"ACQUIRE", "IDENTITY", "OPEN", "RELEASE", "CLOSE"} /\ ~driver.ready
  BY <1>2 DEF DriverInv, CallTrue
<1>5. /\ driver' \in DriverRows /\ driver'.n = driver.n /\ driver'.kind = driver.kind /\ driver'.token = driver.token
      /\ driver'.ready = driver.ready /\ driver'.state # "CONNECT" /\ driver'.at <= Len(Script(driver'.kind))
  <2>1. CASE driver.state = "OPEN"
    <3>1. CASE driver' = [driver EXCEPT !.at = driver.at + 1] /\ driver.at # Len(Script(driver.kind))
      <4>1. driver.at + 1 \in 1..5 /\ driver.at + 1 <= Len(Script(driver.kind))
        <5>1. Len(Script(driver.kind)) \in {4, 5}
          BY <1>3, ScriptFacts
        <5>2. \A a \in 1..5, k \in {4, 5} : a <= k /\ a # k => a + 1 \in 1..5 /\ a + 1 <= k
          OBVIOUS
        <5> QED BY <1>3, <3>1, <5>1, <5>2
      <4> QED BY <1>3, <2>1, <3>1, <4>1 DEF DriverRows
    <3>2. CASE driver' \in {[driver EXCEPT !.state = "STOP", !.result = "FAILED"], [driver EXCEPT !.state = "STOP", !.result = "SUCCEEDED"]}
      BY <1>3, <3>2 DEF DriverRows
    <3> QED BY <1>2, <2>1, <3>1, <3>2 DEF Continued
  <2>2. CASE driver.state # "OPEN"
    BY <1>2, <1>3, <1>4, <2>2 DEF Continued, DriverRows, EnterFailed
  <2> QED BY <2>1, <2>2
<1>6. DriverType'
  BY <1>2, <1>5 DEF DriverInv, DriverType
<1>7. CallTrue' /\ LateInv'
  BY <1>2, <1>4, <1>5, SilentFacts DEF DriverInv, CallTrue, LateInv, PastGuard, Touches
<1>8. HoldInv'
  <2>1. driver'.state \in {"CLOSE", "OVER"} => driver.state \in {"RELEASE", "CLOSE"}
    BY <1>2, <1>3, <1>4 DEF Continued, DriverRows, EnterFailed
  <2>2. driver.state = "RELEASE" => apiLock.holder # driver.n \/ unreturned'
    BY <1>2 DEF DriverInv, HoldInv, CallTrue
  <2>3. driver.n > 0
    BY <1>4 DEF DriverInv, HoldInv
  <2> QED BY <1>2, <1>5, <2>1, <2>2, <2>3, SilentFacts DEF DriverInv, HoldInv
<1>9. InstallTrue'
  <2>1. CASE driver.state = "OPEN"
    <3>1. /\ driver'.state \in {"OPEN", "STOP"}
          /\ driver'.state = "OPEN" => driver'.at = driver.at + 1 /\ pipe.phase = "OK" /\ driver'.result = driver.result
          /\ driver'.result = "SUCCEEDED" => driver'.state = "STOP" /\ driver.at = Len(Script(driver.kind)) /\ pipe.phase = "OK"
      <4>1. driver.result # "SUCCEEDED"
        BY <2>1 DEF DriverInv, InstallTrue
      <4> QED BY <1>1, <1>2, <1>3, <2>1, <4>1 DEF Continued, DriverRows
    <3>2. driver.kind = "INSTALL" =>
            /\ Through(2) => phoneApk.bytes # "NONE"
            /\ Through(3) => phoneApk.committed
            /\ Through(4) => phoneApk.outcome = "INSTALLED"
      BY <2>1 DEF DriverInv, InstallTrue
    <3>3. driver'.state = "OPEN" => /\ Through(2)' => Through(2)
                                    /\ Through(3)' => Through(3)
                                    /\ Through(4)' => Through(4)
      BY <1>2, <1>3, <3>1, SilentFacts DEF Through
    <3>4. driver'.result = "SUCCEEDED" /\ driver.kind = "INSTALL" => Through(2) /\ Through(3) /\ Through(4)
      BY <3>1, ScriptFacts DEF Through
    <3>5. driver'.result = "SUCCEEDED" => driver'.state = "STOP" /\ driver'.state # "OPEN"
      BY <3>1
    <3> QED BY <1>2, <1>5, <3>1, <3>2, <3>3, <3>4, <3>5 DEF InstallTrue, ApkInstalled
  <2>2. CASE driver.state # "OPEN"
    <3>1. /\ driver'.at = driver.at /\ driver'.result \in {driver.result, "FAILED"}
          /\ driver'.state = "OPEN" => driver.state = "IDENTITY"
          /\ driver'.state \in {"CONNECT", "ACQUIRE", "IDENTITY"} => driver.state = "ACQUIRE"
          /\ driver.state \in {"RELEASE", "CLOSE"} => driver'.state \in {"CLOSE", "OVER"}
      BY <1>2, <1>3, <1>4, <2>2 DEF Continued, DriverRows, EnterFailed
    <3>2. driver'.state = "OPEN" => ~Through(2)' /\ ~Through(3)' /\ ~Through(4)'
      BY <1>2, <3>1, SilentFacts DEF DriverInv, InstallTrue, Through
    <3>3. driver.result = "SUCCEEDED" => driver.state \in {"RELEASE", "CLOSE"} /\ (driver.kind = "INSTALL" => ApkInstalled)
      BY <1>4, <2>2 DEF DriverInv, InstallTrue
    <3>4. driver'.state \in {"CONNECT", "ACQUIRE", "IDENTITY"} => driver'.at = 1
      BY <3>1 DEF DriverInv, InstallTrue
    <3> QED BY <1>2, <1>5, <3>1, <3>2, <3>3, <3>4 DEF InstallTrue, ApkInstalled
  <2> QED BY <2>1, <2>2
<1> QED BY <1>6, <1>7, <1>8, <1>9 DEF DriverInv

\* Which steps touch the cached file, its check and its delivery.
LEMMA SwapStep ==
  ASSUME DriverInv, SwapInv, DriverNext
  PROVE  SwapInv'
<1>1. pipe.op \in Touches => phoneApk \in Apks /\ pipe # Silent
  BY SilentFacts DEF DriverInv, DriverType, Touches
<1>2. ASSUME NEW kind \in {"INSTALL", "UI"}, Enter(kind) PROVE SwapInv'
  BY <1>2, SilentFacts DEF Enter, NoApk, SwapInv, DriverInv, CallTrue
<1>3. ASSUME NEW by, NEW op, Submit(by, op), UNCHANGED <<cached, phoneApk, swapped>> PROVE SwapInv'
  BY <1>3 DEF Submit, SwapInv
<1>4. ASSUME NEW phase \in {"OK", "ERR"}, pipe # Silent, Answer(phase), UNCHANGED <<cached, phoneApk, swapped>> PROVE SwapInv'
  BY <1>4, PipeFacts DEF Answer, Calls, SwapInv
<1>5. ASSUME pipe' = Silent, UNCHANGED <<cached, phoneApk, swapped>> PROVE SwapInv'
  BY <1>5, SilentFacts DEF SwapInv
<1>6. ASSUME UNCHANGED <<pipe, cached, phoneApk, swapped>> PROVE SwapInv'
  BY <1>6 DEF SwapInv
<1>7. CASE ServeEffect
  <2>1. PICK phase \in {"OK", "ERR"} : Answer(phase)
    BY <1>7 DEF ServeEffect
  <2>2. pipe'.phase = phase
    BY <1>1, <1>7, <2>1, PipeFacts DEF ServeEffect, Answer, Calls
  <2>3. /\ phoneApk \in Apks /\ phoneApk' = Touched /\ UNCHANGED <<cached, swapped>> /\ pipe.op \in Touches
        /\ pipe.op = "write" => pipe.phase = "CHECKED"
    BY <1>1, <1>7 DEF ServeEffect
  <2>4. phoneApk'.bytes \in {phoneApk.bytes, "NONE"} \/ (pipe.op = "write" /\ phoneApk'.bytes = cached)
    BY <2>3 DEF Touched, Touches, NoApk, Apks
  <2> QED BY <2>2, <2>3, <2>4 DEF SwapInv
<1>8. CASE VerifyArtifact
  BY <1>8 DEF VerifyArtifact, SwapInv
<1>9. CASE CacheChanges
  BY <1>9 DEF CacheChanges, SwapInv
<1>10. CASE PhoneInstalls
  <2>1. phoneApk \in Apks /\ UNCHANGED <<pipe, cached, swapped>>
    BY <1>10 DEF PhoneInstalls, DriverInv, DriverType
  <2>2. phoneApk'.bytes = phoneApk.bytes
    BY <1>10, <2>1 DEF PhoneInstalls, Apks
  <2> QED BY <2>1, <2>2 DEF SwapInv
<1>11. CASE SidecarDies
  <2>1. CASE pipe.phase \in {"SENT", "CHECKED"}
    BY <1>4, <1>11, <2>1, SilentFacts DEF SidecarDies, Answer
  <2>2. CASE pipe.phase \notin {"SENT", "CHECKED"}
    BY <1>6, <1>11, <2>2 DEF SidecarDies
  <2> QED BY <2>1, <2>2
<1>12. CASE ServeLock \/ ServeRead \/ ServeClose \/ ServeError
  BY <1>4, <1>12, SilentFacts DEF ServeLock, ServeRead, ServeClose, ServeError
<1>13. CASE SendUnguarded \/ SendOp \/ RefreshSend
  BY <1>3, <1>13 DEF SendUnguarded, SendOp, RefreshSend
<1>14. CASE Receive \/ RefreshReceive \/ GatewayDies
  BY <1>5, <1>14 DEF Receive, RefreshReceive, GatewayDies
<1>15. CASE Connect \/ Guard \/ StopRefresh \/ RefreshVerify \/ Tick \/ StrangerLocks \/ FenceMoves
  BY <1>6, <1>15 DEF Connect, Guard, StopRefresh, RefreshVerify, Tick, StrangerLocks, FenceMoves
<1> QED BY <1>2, <1>7, <1>8, <1>9, <1>10, <1>11, <1>12, <1>13, <1>14, <1>15 DEF DriverNext

LEMMA DriverStep ==
  ASSUME DriverInv, SwapInv, DriverNext
  PROVE  DriverInv' /\ SwapInv'
<1>1. DriverInv'
  BY EnterInv, ConnectInv, SendInv, GuardInv, SendOpInv, ServeLockInv, ArtifactInv, EffectInv, ServeInv, WorldStepInv, ReceiveInv,
     StoppedInv, RefreshSendInv, RefreshReceiveInv, PhoneInv, DiesInv DEF DriverNext
<1> QED BY <1>1, SwapStep

(* Whatever dies, lapses or is lost, in any number of sessions: a session  *)
(* whose fence has moved touches the phone at most once more; one that is  *)
(* over keeps no sidecar, and the device's lock only if its release was    *)
(* not acknowledged; altered bytes reach the phone only if the file        *)
(* changed between the sidecar's check and its delivery, and but for that  *)
(* SUCCEEDED means the phone installed the approved ones.                  *)
THEOREM DriverAccountableCorrect == Spec => []DriverAccountable
<1>1. Init => DriverInv /\ SwapInv
  <2>1. DriverInit => SwapInv
    BY SilentFacts DEF DriverInit, SwapInv, NoApk
  <2> QED BY <2>1, DriverStart DEF Init
<1>2. DriverInv /\ SwapInv /\ [Next]_vars => (DriverInv /\ SwapInv)'
  <2> SUFFICES ASSUME DriverInv, SwapInv, [Next]_vars PROVE (DriverInv /\ SwapInv)'
    OBVIOUS
  <2>1. DriverNext \/ UNCHANGED driverVars
    BY DEF Next, vars, rows
  <2>2. CASE UNCHANGED driverVars
    BY <2>2 DEF driverVars, DriverInv, DriverType, CallTrue, LateInv, PastGuard, HoldInv, InstallTrue, ApkInstalled, Through, SwapInv
  <2> QED BY <2>1, <2>2, DriverStep
<1> QED BY <1>1, <1>2, DriverSound, PTL DEF Spec

-----------------------------------------------------------------------------
(* The control feed                                                        *)

(* Every number was given out by the clock.                                *)
GivenOut(n) == n \in Nat /\ n < stamp

FeedRows ==
    /\ stamp \in Nat \ {0} /\ DOMAIN kept = FeedTasks
    /\ \A t \in FeedTasks : IsFiniteSet(kept[t])
    /\ \A e \in Entries : GivenOut(e.seq) /\ e.seq # 0
    /\ GivenOut(cursor) /\ GivenOut(wire.through)
    /\ \A e \in wire.events : GivenOut(e.seq)

(* The number of an open request was given out too.                        *)
OpenNumbers ==
    /\ DOMAIN req = Workers
    /\ \A w \in Workers : req[w] # Idle => req[w].t \in FeedTasks /\ GivenOut(req[w].at) /\ req[w].at # 0

Explained == applied \cup behind \cup omitted

(* The answer on the wire has no hole that is not accounted for.           *)
AnswerComplete ==
    \A e \in Entries : e.seq <= wire.through =>
        e.seq \in Explained \/ \E f \in wire.events : f.seq = e.seq

FeedInv == FeedRows /\ OpenNumbers /\ AnswerComplete /\ SkipsExplained

FleetFeed == IF service = "control" THEN FeedInv ELSE FeedInit

(* A finite set of numbers has a greatest one: the set of those above it   *)
(* is minimal, hence empty.                                                *)
LEMMA FiniteMax ==
  ASSUME NEW S, IsFiniteSet(S), S # {}, S \subseteq Nat
  PROVE  Max(S) \in S /\ \A y \in S : Max(S) >= y
<1> DEFINE Above(x) == {y \in S : y > x}
           T == {Above(x) : x \in S}
<1>1. T # {} /\ T \subseteq FiniteSubsetsOf(S)
  <2>1. ASSUME NEW x \in S PROVE Above(x) \in FiniteSubsetsOf(S)
    <3>1. IsFiniteSet(Above(x))
      BY FS_Subset
    <3> QED BY <3>1 DEF FiniteSubsetsOf
  <2> QED BY <2>1
<1>2. IsWellFoundedOn(StrictSubsetOrdering(S), FiniteSubsetsOf(S))
  BY FS_StrictSubsetOrderingWellFounded
<1>3. \E A \in T : \A B \in T : ~ (<<B, A>> \in StrictSubsetOrdering(S))
  <2> HIDE DEF T
  <2> QED BY <1>1, <1>2, WFMin
<1>4. PICK x \in S : \A B \in T : ~ (<<B, Above(x)>> \in StrictSubsetOrdering(S))
  BY <1>3
<1>5. ASSUME NEW y \in Above(x) PROVE FALSE
  <2>1. y \in S /\ y > x /\ x \in Nat /\ y \in Nat
    OBVIOUS
  <2>2. Above(y) \in T /\ Above(x) \subseteq S /\ Above(y) \subseteq S
    BY <2>1
  <2>3. \A z \in S : z > y => z > x
    BY <2>1
  <2>4. Above(y) \subseteq Above(x) /\ y \notin Above(y)
    <3>1. ASSUME NEW z \in Above(y) PROVE z \in Above(x)
      BY <2>3
    <3>2. ~ (y > y)
      BY <2>1
    <3>3. y \notin Above(y)
      BY <3>2
    <3> QED BY <3>1, <3>3
  <2>5. <<Above(y), Above(x)>> \in StrictSubsetOrdering(S)
    <3> HIDE DEF Above
    <3> QED BY <1>5, <2>2, <2>4 DEF StrictSubsetOrdering
  <2> QED BY <1>4, <2>2, <2>5
<1>6. \A y \in S : x >= y
  BY <1>5
<1> HIDE DEF Above, T
<1> QED BY <1>6 DEF Max

LEMMA MaxOfTwo ==
  ASSUME NEW a \in Nat, NEW b \in Nat
  PROVE  Max({a, b}) = IF a > b THEN a ELSE b
<1> DEFINE m == IF a > b THEN a ELSE b
<1>1. m \in {a, b} /\ \A x \in {a, b} : (\A y \in {a, b} : x >= y) <=> x = m
  OBVIOUS
<1> HIDE DEF m
<1>2. Max({a, b}) = m
  BY <1>1 DEF Max
<1> QED BY <1>2 DEF m

LEMMA EntriesFinite ==
  ASSUME \A t \in FeedTasks : IsFiniteSet(kept[t])
  PROVE  IsFiniteSet(Entries)
<1>1. IsFiniteSet({kept[t] : t \in FeedTasks})
  <2>1. PICK f : f = [t \in FeedTasks |-> kept[t]]
    OBVIOUS
  <2>2. f \in Surjection(FeedTasks, {kept[t] : t \in FeedTasks})
    BY <2>1 DEF Surjection
  <2> QED BY <2>2, FeedAssumption, FS_Surjection
<1>2. \A S \in {kept[t] : t \in FeedTasks} : IsFiniteSet(S)
  OBVIOUS
<1> QED BY <1>1, <1>2, FS_UNION DEF Entries

(* The last number of a page, and what lies before it.                     *)
LEMMA LastOfPage ==
  ASSUME FeedRows, NEW P, P \subseteq Entries, P # {}
  PROVE  /\ \E e \in P : e.seq = Max({f.seq : f \in P})
         /\ \A e \in P : e.seq <= Max({f.seq : f \in P})
<1>1. PICK S : S = {f.seq : f \in P}
  OBVIOUS
<1>2. S \subseteq Nat /\ S # {} /\ stamp \in Nat /\ \A n \in S : n <= stamp
  BY <1>1 DEF FeedRows, GivenOut
<1>3. IsFiniteSet(S)
  BY <1>2, FS_BoundedSetOfNaturals
<1>4. Max(S) \in S /\ \A n \in S : Max(S) >= n
  BY <1>2, <1>3, FiniteMax
<1> QED BY <1>1, <1>2, <1>4

(* A page of the oldest entries ends where the next one begins.            *)
LEMMA OldestFirst ==
  ASSUME FeedRows, NEW n \in Nat, NEW e \in Oldest(n, Unseen), NEW f \in Unseen, f.seq <= e.seq
  PROVE  f \in Oldest(n, Unseen)
<1> DEFINE Earlier(g) == {h \in Unseen : h.seq < g.seq}
<1>1. IsFiniteSet(Unseen) /\ Unseen \subseteq Entries
  BY EntriesFinite, FS_Subset DEF FeedRows, Unseen
<1>2. e \in Unseen /\ Cardinality(Earlier(e)) < n
  BY DEF Oldest
<1>3. Earlier(f) \subseteq Earlier(e)
  BY <1>1, <1>2 DEF FeedRows, GivenOut
<1>4. IsFiniteSet(Earlier(e)) /\ Earlier(e) \subseteq Unseen
  BY <1>1, FS_Subset
<1>5. Cardinality(Earlier(f)) <= Cardinality(Earlier(e)) /\ IsFiniteSet(Earlier(f))
  <2> HIDE DEF Earlier
  <2> QED BY <1>3, <1>4, FS_Subset
<1>6. Cardinality(Earlier(f)) \in Nat /\ Cardinality(Earlier(e)) \in Nat
  <2> HIDE DEF Earlier
  <2> QED BY <1>4, <1>5, FS_CardinalityType
<1> QED BY <1>2, <1>5, <1>6 DEF Oldest

(* Steps.  The entries may only grow by the number of the open request, or *)
(* by one the clock gives out now.                                         *)
LEMMA FeedKept ==
  ASSUME NEW t \in FeedTasks, NEW n, NEW type, IsFiniteSet(kept[t])
  PROVE  IsFiniteSet(Kept(t, n, type)) /\ \A e \in Kept(t, n, type) : e \in kept[t] \/ e.seq = n
<1>1. PICK new : new = [rev |-> NextControlRevision(t), seq |-> n, t |-> t, type |-> type]
  OBVIOUS
<1>2. new.seq = n /\ IsFiniteSet(kept[t] \cup {new})
  BY <1>1, FS_AddElement
<1>3. Kept(t, n, type) \subseteq kept[t] \cup {new}
  BY <1>1 DEF Kept, Retained
<1>4. IsFiniteSet(Kept(t, n, type))
  BY <1>2, <1>3, FS_Subset
<1> QED BY <1>2, <1>3, <1>4

(* A number is appended to a row, ahead of the cursor and of the answer,   *)
(* or accounted for.                                                       *)
LEMMA FeedAppended ==
  ASSUME FeedInv, NEW t \in FeedTasks, NEW n, NEW type, kept' = [kept EXCEPT ![t] = Kept(t, n, type)],
         UNCHANGED <<wire, cursor, applied, omitted>>, behind \subseteq behind', stamp' \in Nat, stamp' >= stamp,
         n \in Nat, n < stamp', n # 0, n <= cursor \/ n <= wire.through => n \in behind',
         OpenNumbers'
  PROVE  FeedInv'
<1>1. FeedRows /\ AnswerComplete /\ SkipsExplained
  BY DEF FeedInv
<1>2. IsFiniteSet(Kept(t, n, type)) /\ \A e \in Kept(t, n, type) : e \in kept[t] \/ e.seq = n
  BY <1>1, FeedKept DEF FeedRows
<1>3. DOMAIN kept' = FeedTasks /\ kept'[t] = Kept(t, n, type) /\ \A u \in FeedTasks \ {t} : kept'[u] = kept[u]
  BY <1>1 DEF FeedRows
<1>4. \A u \in FeedTasks : IsFiniteSet(kept'[u])
  BY <1>1, <1>2, <1>3 DEF FeedRows
<1>5. \A e \in Entries' : e \in Entries \/ e.seq = n
  <2>1. ASSUME NEW u \in FeedTasks, NEW e \in kept'[u] PROVE e \in kept[u] \/ e.seq = n
    BY <1>2, <1>3
  <2> QED BY <2>1 DEF Entries
<1>6. FeedRows'
  <2>1. \A e \in Entries' : GivenOut(e.seq)' /\ e.seq # 0
    BY <1>1, <1>5 DEF FeedRows, GivenOut
  <2>2. GivenOut(cursor)' /\ GivenOut(wire.through)' /\ (\A e \in wire.events : GivenOut(e.seq))' /\ stamp' \in Nat \ {0}
    BY <1>1 DEF FeedRows, GivenOut
  <2> QED BY <1>3, <1>4, <2>1, <2>2 DEF FeedRows
<1>7. AnswerComplete'
  BY <1>1, <1>5 DEF AnswerComplete, Explained
<1>8. SkipsExplained'
  BY <1>1, <1>5 DEF SkipsExplained, Seqs
<1> QED BY <1>6, <1>7, <1>8 DEF FeedInv

(* A step that leaves the stream and the Companion alone.                  *)
LEMMA FeedSame ==
  ASSUME FeedInv, UNCHANGED <<kept, wire, cursor, applied, behind, omitted>>, stamp' \in Nat, stamp' >= stamp, OpenNumbers'
  PROVE  FeedInv'
BY DEF FeedInv, FeedRows, GivenOut, AnswerComplete, Explained, SkipsExplained, Seqs, Entries

LEMMA ControlStartInv ==
  ASSUME FeedInv, NEW w \in Workers, NEW t \in FeedTasks, NEW type, ControlStart(w, t, type)
  PROVE  FeedInv'
<1>1. PICK r : r = [op |-> "CONTROL", t |-> t, type |-> type, at |-> stamp]
  OBVIOUS
<1>2. Begin(w, r) /\ stamp' = stamp + 1 /\ UNCHANGED <<kept, wire, cursor, applied, behind, omitted>> /\ r.t = t /\ r.at = stamp
  BY <1>1 DEF ControlStart, gaps
<1>3. DOMAIN req' = Workers /\ req'[w] = r /\ \A v \in Workers \ {w} : req'[v] = req[v]
  BY <1>2, BeginFacts DEF FeedInv, OpenNumbers
<1>4. stamp \in Nat \ {0}
  BY DEF FeedInv, FeedRows
<1>5. ASSUME NEW v \in Workers, req'[v] # Idle PROVE req'[v].t \in FeedTasks /\ GivenOut(req[v].at)' /\ req'[v].at # 0
  <2>1. CASE v = w
    BY <1>2, <1>3, <1>4, <2>1 DEF GivenOut
  <2>2. CASE v # w
    BY <1>2, <1>3, <1>4, <1>5, <2>2 DEF FeedInv, OpenNumbers, GivenOut
  <2> QED BY <2>1, <2>2
<1>6. OpenNumbers'
  BY <1>3, <1>5 DEF OpenNumbers
<1>7. stamp' \in Nat /\ stamp' >= stamp
  BY <1>2, <1>4
<1> QED BY <1>2, <1>6, <1>7, FeedSame

LEMMA ControlCommitInv ==
  ASSUME FeedInv, NEW w \in Workers, ControlCommit(w)
  PROVE  FeedInv'
<1>1. PICK r : r = req[w]
  OBVIOUS
<1>2. /\ r # Idle /\ End(w) /\ UNCHANGED <<stamp, wire, cursor, applied, omitted>>
      /\ r.t \in FeedTasks /\ GivenOut(r.at) /\ r.at # 0
  BY <1>1 DEF ControlCommit, FeedInv, OpenNumbers
<1>3. DOMAIN req' = Workers /\ req'[w] = Idle /\ \A v \in Workers \ {w} : req'[v] = req[v]
  BY <1>1, <1>2, EndFacts DEF FeedInv, OpenNumbers
<1>4. OpenNumbers' /\ stamp' \in Nat /\ stamp' >= stamp
  BY <1>2, <1>3 DEF FeedInv, FeedRows, OpenNumbers, GivenOut
<1>5. CASE UNCHANGED <<kept, behind>>
  BY <1>2, <1>4, <1>5, FeedSame
<1>6. CASE /\ kept' = [kept EXCEPT ![r.t] = Kept(r.t, r.at, r.type)]
           /\ behind' = behind \cup {n \in {r.at} : n <= cursor \/ n <= wire.through}
  <2>1. PICK t, n, type : t = r.t /\ n = r.at /\ type = r.type
    OBVIOUS
  <2>2. /\ t \in FeedTasks /\ n \in Nat /\ n < stamp' /\ n # 0
        /\ kept' = [kept EXCEPT ![t] = Kept(t, n, type)]
        /\ n <= cursor \/ n <= wire.through => n \in behind'
        /\ behind \subseteq behind'
    BY <1>2, <1>6, <2>1 DEF GivenOut
  <2> QED BY <1>2, <1>4, <2>2, FeedAppended
<1> QED BY <1>1, <1>5, <1>6 DEF ControlCommit

LEMMA DeliverAckInv ==
  ASSUME FeedInv, NEW t \in FeedTasks, DeliverAck(t)
  PROVE  FeedInv'
<1>1. UNCHANGED <<req, wire, cursor, applied, behind, omitted>> /\ stamp \in Nat \ {0}
  BY DEF DeliverAck, reqVars, gaps, FeedInv, FeedRows
<1>2. stamp' \in Nat /\ stamp' >= stamp => OpenNumbers'
  BY <1>1 DEF FeedInv, OpenNumbers, GivenOut
<1>3. CASE UNCHANGED <<stamp, kept>>
  <2>1. stamp' \in Nat /\ stamp' >= stamp
    BY <1>1, <1>3
  <2> QED BY <1>1, <1>2, <1>3, <2>1, FeedSame
<1>4. CASE stamp' = stamp + 1 /\ kept' = [kept EXCEPT ![t] = AckEvent(t)]
  <2>1. PICK n : n = stamp
    OBVIOUS
  <2>2. kept' = [kept EXCEPT ![t] = Kept(t, n, "TERMINAL")]
    BY <1>4, <2>1 DEF AckEvent
  <2>3. n \in Nat /\ n < stamp' /\ n # 0 /\ ~(n <= cursor) /\ ~(n <= wire.through) /\ stamp' \in Nat /\ stamp' >= stamp
    BY <1>1, <1>4, <2>1 DEF FeedInv, FeedRows, GivenOut
  <2> QED BY <1>1, <1>2, <2>2, <2>3, FeedAppended
<1> QED BY <1>3, <1>4 DEF DeliverAck

(* An answer is taken from the stream.                                     *)
LEMMA AnswerInv ==
  ASSUME FeedInv, UNCHANGED <<req, stamp, kept, cursor, applied, behind>>, omitted \subseteq omitted',
         wire'.events \subseteq Entries, wire'.through \in Nat, wire'.through < stamp,
         \A e \in Entries : e.seq <= wire'.through => e.seq <= cursor \/ e \in wire'.events \/ e.seq \in omitted'
  PROVE  FeedInv'
<1>1. FeedRows /\ OpenNumbers /\ SkipsExplained /\ Entries' = Entries
  BY DEF FeedInv, Entries
<1>2. FeedRows' /\ OpenNumbers'
  BY <1>1 DEF FeedRows, OpenNumbers, GivenOut
<1>3. AnswerComplete'
  BY <1>1 DEF AnswerComplete, SkipsExplained, Seqs, Explained
<1>4. SkipsExplained'
  BY <1>1 DEF SkipsExplained, Seqs
<1> QED BY <1>2, <1>3, <1>4 DEF FeedInv

(* A number the stream holds, or the cursor, was given out.                *)
LEMMA ThroughGivenOut ==
  ASSUME FeedInv, NEW n, n = cursor \/ \E e \in Entries : n = e.seq
  PROVE  n \in Nat /\ n < stamp
BY DEF FeedInv, FeedRows, GivenOut

LEMMA PullInv ==
  ASSUME FeedInv, Pull
  PROVE  FeedInv'
<1>1. UNCHANGED <<req, stamp, kept, cursor, applied, behind, omitted>> /\ FeedRows
  BY DEF Pull, reqVars, gaps, FeedInv
<1>2. PICK P : P = NextPage
  OBVIOUS
<1>3. PICK th : th = IF P = {} THEN cursor ELSE Max({e.seq : e \in P})
  OBVIOUS
<1>4. wire'.events = P /\ wire'.through = th
  BY <1>2, <1>3 DEF Pull
<1>5. P = Oldest(PullLimit, Unseen) /\ P \subseteq Unseen /\ Unseen \subseteq Entries
  BY <1>2 DEF NextPage, Oldest, Unseen
<1>6. CASE P = {}
  <2>1. th = cursor
    BY <1>3, <1>6
  <2> QED BY <1>1, <1>4, <1>5, <2>1, ThroughGivenOut, AnswerInv
<1>7. CASE P # {}
  <2>1. PICK l \in P : l.seq = th
    BY <1>1, <1>3, <1>5, <1>7, LastOfPage
  <2>2. ASSUME NEW e \in Entries, e.seq <= th PROVE e.seq <= cursor \/ e \in P
    <3>1. CASE e.seq > cursor
      <4>1. e \in Unseen /\ PullLimit \in Nat
        BY <3>1, FeedAssumption DEF Unseen
      <4> QED BY <1>1, <1>5, <2>1, <2>2, <4>1, OldestFirst
    <3>2. e.seq > cursor \/ e.seq <= cursor
      BY <1>1 DEF FeedRows, GivenOut
    <3> QED BY <3>1, <3>2
  <2>3. th \in Nat /\ th < stamp
    BY <1>5, <2>1, ThroughGivenOut
  <2> QED BY <1>1, <1>4, <1>5, <2>2, <2>3, AnswerInv
<1> QED BY <1>6, <1>7

LEMMA HeartbeatInv ==
  ASSUME FeedInv, Heartbeat
  PROVE  FeedInv'
<1>1. PICK P : P = Newest(MaxInline, Unseen)
  OBVIOUS
<1>2. PICK th : th = IF P = {} THEN cursor ELSE Max({e.seq : e \in P})
  OBVIOUS
<1>3. /\ UNCHANGED <<req, stamp, kept, cursor, applied, behind>> /\ FeedRows
      /\ omitted' = omitted \cup {e.seq : e \in Unseen \ P}
      /\ wire'.events = P /\ wire'.through = th
  BY <1>1, <1>2 DEF Heartbeat, reqVars, FeedInv
<1>4. P \subseteq Unseen /\ Unseen \subseteq Entries
  BY <1>1 DEF Newest, Unseen
<1>5. th = cursor \/ \E e \in Entries : th = e.seq
  <2>1. CASE P = {}
    BY <1>2, <2>1
  <2>2. CASE P # {}
    BY <1>2, <1>3, <1>4, <2>2, LastOfPage
  <2> QED BY <2>1, <2>2
<1>6. th \in Nat /\ th < stamp
  BY <1>5, ThroughGivenOut
<1>7. \A e \in Entries : e.seq <= cursor \/ e \in P \/ e.seq \in omitted'
  <2>1. \A e \in Entries : e.seq <= cursor \/ e \in Unseen
    BY <1>3 DEF Unseen, FeedRows, GivenOut
  <2> QED BY <1>3, <2>1
<1> QED BY <1>3, <1>4, <1>6, <1>7, AnswerInv

LEMMA SnapshotInv ==
  ASSUME FeedInv, Snapshot
  PROVE  FeedInv'
<1>1. UNCHANGED <<req, stamp, kept, cursor, applied, behind, omitted>> /\ FeedRows
  BY DEF Snapshot, reqVars, gaps, FeedInv
<1>2. wire'.events = Entries /\ wire'.through = Watermark
  BY DEF Snapshot
<1>3. Watermark \in Nat /\ Watermark < stamp
  <2>1. CASE Entries = {}
    BY <1>1, <2>1 DEF Watermark, Seqs, FeedRows
  <2>2. CASE Entries # {}
    <3>1. Watermark = Max({e.seq : e \in Entries})
      BY <2>2 DEF Watermark, Seqs
    <3>2. \E e \in Entries : Watermark = e.seq
      BY <1>1, <2>2, <3>1, LastOfPage
    <3> QED BY <3>2, ThroughGivenOut
  <2> QED BY <2>1, <2>2
<1> QED BY <1>1, <1>2, <1>3, AnswerInv

(* The answer is applied: its events are, and the cursor goes with it.     *)
LEMMA AppliedInv ==
  ASSUME FeedInv, UNCHANGED <<req, stamp, kept, behind, omitted>>, cursor' = Max({cursor, wire.through}), wire' = NoAnswer,
         applied \subseteq applied', \A e \in wire.events : e.seq > cursor => e.seq \in applied'
  PROVE  FeedInv'
<1>1. FeedRows /\ OpenNumbers /\ SkipsExplained /\ AnswerComplete /\ Entries' = Entries
  BY DEF FeedInv, Entries
<1>2. cursor' = IF cursor > wire.through THEN cursor ELSE wire.through
  BY <1>1, MaxOfTwo DEF FeedRows, GivenOut
<1>3. wire'.events = {} /\ wire'.through = 0
  BY DEF NoAnswer
<1>4. FeedRows'
  <2>1. cursor' \in Nat /\ cursor' < stamp /\ stamp \in Nat \ {0}
    BY <1>1, <1>2 DEF FeedRows, GivenOut
  <2>2. GivenOut(cursor)' /\ GivenOut(wire.through)' /\ (\A e \in wire.events : GivenOut(e.seq))'
    BY <1>3, <2>1 DEF GivenOut
  <2>3. \A e \in Entries' : GivenOut(e.seq)' /\ e.seq # 0
    BY <1>1 DEF FeedRows, GivenOut
  <2> QED BY <1>1, <2>1, <2>2, <2>3 DEF FeedRows
<1>5. AnswerComplete'
  BY <1>1, <1>3 DEF AnswerComplete, FeedRows, GivenOut
<1>6. SkipsExplained'
  <2>1. ASSUME NEW e \in Entries, e.seq <= cursor' PROVE e.seq \in Explained'
    <3>1. e.seq \in Nat /\ cursor \in Nat /\ wire.through \in Nat /\ \A f \in wire.events : f.seq \in Nat
      BY <1>1 DEF FeedRows, GivenOut
    <3>2. CASE e.seq <= cursor
      BY <1>1, <3>2 DEF SkipsExplained, Seqs, Explained
    <3>3. CASE e.seq > cursor
      <4>1. cursor' = cursor \/ cursor' = wire.through
        BY <1>2
      <4>2. e.seq <= wire.through
        BY <2>1, <3>1, <3>3, <4>1
      <4> QED BY <1>1, <3>3, <4>2 DEF AnswerComplete, Explained
    <3> QED BY <3>1, <3>2, <3>3
  <2> QED BY <1>1, <2>1 DEF SkipsExplained, Seqs, Explained
<1>7. OpenNumbers'
  BY <1>1 DEF OpenNumbers, GivenOut
<1> QED BY <1>4, <1>5, <1>6, <1>7 DEF FeedInv

LEMMA FeedStep ==
  ASSUME FeedInv, FeedNext
  PROVE  FeedInv'
<1>1. CASE ApplyEvents
  <2>1. /\ UNCHANGED <<req, stamp, kept, behind, omitted>> /\ cursor' = Max({cursor, wire.through}) /\ wire' = NoAnswer
        /\ applied' = applied \cup {e.seq : e \in Fresh}
    BY <1>1 DEF ApplyEvents, reqVars, gaps
  <2> QED BY <2>1, AppliedInv DEF Fresh
<1>2. CASE ApplySnapshot
  <2>1. /\ UNCHANGED <<req, stamp, kept, behind, omitted>> /\ cursor' = Max({cursor, wire.through}) /\ wire' = NoAnswer
        /\ applied' = applied \cup {e.seq : e \in wire.events}
    BY <1>2 DEF ApplySnapshot, reqVars, gaps
  <2> QED BY <2>1, AppliedInv
<1>3. CASE AnswerLost
  <2>1. UNCHANGED <<req, stamp, kept, cursor, applied, behind, omitted>> /\ wire'.events = {} /\ wire'.through = 0
    BY <1>3 DEF AnswerLost, NoAnswer, reqVars, gaps
  <2>2. 0 < stamp /\ \A e \in Entries : ~(e.seq <= 0)
    BY DEF FeedInv, FeedRows, GivenOut
  <2> QED BY <2>1, <2>2, AnswerInv
<1>4. CASE \E t \in FeedTasks : MirrorMoves(t)
  <2>1. UNCHANGED <<req, stamp, kept, wire, cursor, applied, behind, omitted>>
    BY <1>4 DEF MirrorMoves, reqVars, gaps
  <2>2. OpenNumbers' /\ stamp' \in Nat /\ stamp' >= stamp
    BY <2>1 DEF FeedInv, FeedRows, OpenNumbers, GivenOut
  <2> QED BY <2>1, <2>2, FeedSame
<1> QED BY <1>1, <1>2, <1>3, <1>4, ControlStartInv, ControlCommitInv, PullInv, SnapshotInv, HeartbeatInv, DeliverAckInv DEF FeedNext

LEMMA FeedStart ==
  ASSUME FeedInit, DOMAIN req = Workers, \A w \in Workers : req[w] = Idle
  PROVE  FeedInv
<1>1. Entries = {} /\ wire.events = {} /\ wire.through = 0
  BY DEF FeedInit, Entries, NoAnswer
<1>2. FeedRows
  BY <1>1, FS_EmptySet DEF FeedInit, FeedRows, GivenOut
<1> QED BY <1>1, <1>2 DEF FeedInv, OpenNumbers, AnswerComplete, SkipsExplained, Seqs

\* A control event at or below the cursor of the Companion was applied, was there
\* at a snapshot, was written behind what the Companion had been told, or found
\* no room in a heartbeat: for any tasks, any number of overlapping requests, any
\* retention, page and heartbeat size, lost answers and any interleaving of pull,
\* heartbeat and snapshot.
THEOREM SkipsExplainedCorrect == Spec => []SkipsExplained
<1>1. Init => FleetFeed
  BY FeedStart DEF Init, FleetFeed
<1>2. FleetFeed /\ [Next]_vars => FleetFeed'
  <2> SUFFICES ASSUME FleetFeed, [Next]_vars PROVE FleetFeed'
    OBVIOUS
  <2>1. CASE service = "control" /\ Next
    BY <2>1, FeedStep DEF FleetFeed, Next
  <2>2. CASE service # "control" /\ Next
    BY <2>2 DEF FleetFeed, Next, feedVars, FeedInit
  <2>3. CASE UNCHANGED vars
    <3>1. UNCHANGED <<service, req, feedVars>>
      BY <2>3 DEF vars, rows, reqVars
    <3>2. FeedInv => FeedInv'
      BY <3>1 DEF feedVars, FeedInv, FeedRows, GivenOut, OpenNumbers, AnswerComplete, Explained, SkipsExplained, Seqs, Entries
    <3> QED BY <3>1, <3>2 DEF FleetFeed, feedVars, FeedInit
  <2> QED BY <2>1, <2>2, <2>3
<1>3. FleetFeed => SkipsExplained
  <2>1. FeedInit => SkipsExplained
    BY DEF FeedInit, SkipsExplained, Seqs, Entries
  <2> QED BY <2>1 DEF FleetFeed, FeedInv
<1> QED BY <1>1, <1>2, <1>3, PTL DEF Spec

-----------------------------------------------------------------------------
(* Step scripts                                                            *)

(* Fields of the steps the builders use.                                   *)
LEMMA TapField == \A r : Tap(r).act = "ui.tap" /\ Tap(r).ref = r
BY DEF Tap, Step

LEMMA LayoutField ==
  \A r, t, n : /\ Layout(r, t, n).act = "ui.tapLayout" /\ Layout(r, t, n).ref = r
               /\ Layout(r, t, n).tab = t /\ Layout(r, t, n).num = n
BY DEF Layout, Step

LEMMA DoField == \A a, r : Do(a, r).act = a /\ Do(a, r).ref = r
BY DEF Do, Step

LEMMA LogField == \A r : Log(r).act = "run.log" /\ Log(r).ref = r
BY DEF Log, Do, Step

LEMMA ReadField ==
  \A t, n : /\ Read(t, n).act = "ui.readOrders" /\ Read(t, n).ref = "xianyu_orders_container"
            /\ Read(t, n).tab = t /\ Read(t, n).num = n
BY DEF Read, Step

LEMMA CardField == \A t : Card(t).act = "ui.tapCardByTitle" /\ Card(t).ref = ""
BY DEF Card, Step

LEMMA OtherFields ==
  /\ Shot.act = "ui.screenshot" /\ Shot.ref = ""
  /\ Swipe.act = "ui.swipeUp" /\ Swipe.ref = "xianyu_orders_container"
  /\ Review.act = "xianyu.reviewOrders" /\ Review.ref = ""
  /\ GatedTap.act = "ui.tap" /\ GatedTap.ref = "xianyu_delete_confirm"
BY DEF Shot, Swipe, Review, GatedTap, Do, Step

Nav == Tap("xianyu_profile_tab")
Published == Tap("xianyu_my_published")
Delisted == Tap("xianyu_pub_tab_delisted")

LEMMA NavSteps ==
  /\ Nav.act = "ui.tap" /\ Published.act = "ui.tap" /\ Delisted.act = "ui.tap"
  /\ Nav.ref = "xianyu_profile_tab" /\ Published.ref = "xianyu_my_published"
  /\ Delisted.ref = "xianyu_pub_tab_delisted"
BY TapField DEF Nav, Published, Delisted

IsScript(s) == \E S : s \in Seq(S)

LEMMA ScriptDomain ==
  ASSUME NEW s, IsScript(s)
  PROVE  Len(s) \in Nat /\ DOMAIN s = 1 .. Len(s)
BY DEF IsScript

LEMMA Larger ==
  ASSUME NEW S, NEW T, S \subseteq T, NEW x \in Seq(S)
  PROVE  x \in Seq(T)
OBVIOUS

LEMMA Concat ==
  ASSUME NEW S, NEW x \in Seq(S), NEW y \in Seq(S)
  PROVE  /\ x \o y \in Seq(S) /\ Len(x \o y) = Len(x) + Len(y) /\ DOMAIN (x \o y) = 1 .. (Len(x) + Len(y))
         /\ \A i \in 1 .. Len(x) : (x \o y)[i] = x[i]
         /\ \A i \in 1 .. Len(y) : (x \o y)[Len(x) + i] = y[i]
OBVIOUS

LEMMA Joined ==
  ASSUME NEW x, NEW y, IsScript(x), IsScript(y)
  PROVE  /\ IsScript(x \o y) /\ Len(x \o y) = Len(x) + Len(y) /\ DOMAIN (x \o y) = 1 .. (Len(x) + Len(y))
         /\ \A i \in 1 .. Len(x) : (x \o y)[i] = x[i]
         /\ \A i \in 1 .. Len(y) : (x \o y)[Len(x) + i] = y[i]
<1>1. PICK S : x \in Seq(S)
  BY DEF IsScript
<1>2. PICK T : y \in Seq(T)
  BY DEF IsScript
<1>3. x \in Seq(S \cup T) /\ y \in Seq(S \cup T)
  BY <1>1, <1>2, Larger
<1>4. x \o y \in Seq(S \cup T)
  BY <1>3, Concat
<1> QED BY <1>3, <1>4, Concat DEF IsScript

LEMMA TwoSteps ==
  ASSUME NEW a, NEW b, NEW x, x = <<a, b>>
  PROVE  IsScript(x) /\ Len(x) = 2 /\ DOMAIN x = 1 .. 2 /\ x[1] = a /\ x[2] = b /\ ToSet(x) = {a, b}
<1>1. x \in Seq({a, b})
  OBVIOUS
<1>2. Len(x) = 2 /\ DOMAIN x = 1 .. 2 /\ x[1] = a /\ x[2] = b
  OBVIOUS
<1>3. ToSet(x) = {a, b}
  BY <1>2 DEF ToSet
<1> QED BY <1>1, <1>2, <1>3 DEF IsScript

LEMMA Appended ==
  ASSUME NEW x, IsScript(x), NEW c
  PROVE  /\ IsScript(Append(x, c)) /\ Len(Append(x, c)) = Len(x) + 1
         /\ \A i \in 1 .. Len(x) : Append(x, c)[i] = x[i]
         /\ Append(x, c)[Len(x) + 1] = c
<1>1. PICK S : x \in Seq(S)
  BY DEF IsScript
<1>2. x \in Seq(S \cup {c}) /\ c \in S \cup {c}
  BY <1>1, Larger
<1>3. Append(x, c) \in Seq(S \cup {c})
  BY <1>2
<1> QED BY <1>2, <1>3 DEF IsScript

LEMMA NavLists ==
  /\ IsScript(PublishedList) /\ Len(PublishedList) = 2
  /\ PublishedList[1] = Nav /\ PublishedList[2] = Published
  /\ IsScript(DelistedList) /\ Len(DelistedList) = 3
  /\ DelistedList[1] = Nav /\ DelistedList[2] = Published /\ DelistedList[3] = Delisted
  /\ ToSet(PublishedList) = {Nav, Published} /\ ToSet(DelistedList) = {Nav, Published, Delisted}
<1>1. PublishedList = <<Nav, Published>> /\ DelistedList = Append(PublishedList, Delisted)
  BY DEF PublishedList, DelistedList, Nav, Published, Delisted
<1>2. PICK x : x = PublishedList
  OBVIOUS
<1>3. PICK y : y = DelistedList
  OBVIOUS
<1>4. IsScript(x) /\ Len(x) = 2 /\ x[1] = Nav /\ x[2] = Published /\ ToSet(x) = {Nav, Published}
  BY <1>1, <1>2, TwoSteps
<1>5. /\ IsScript(y) /\ Len(y) = 3 /\ y[1] = Nav /\ y[2] = Published /\ y[3] = Delisted
      /\ ToSet(y) = {Nav, Published, Delisted}
  <2>1. y = Append(x, Delisted)
    BY <1>1, <1>2, <1>3
  <2>5. /\ IsScript(Append(x, Delisted)) /\ Len(Append(x, Delisted)) = Len(x) + 1
        /\ \A i \in 1 .. Len(x) : Append(x, Delisted)[i] = x[i]
        /\ Append(x, Delisted)[Len(x) + 1] = Delisted
    BY <1>4, Appended, Zenon
  <2>2. IsScript(y) /\ Len(y) = 3 /\ y[1] = x[1] /\ y[2] = x[2] /\ y[3] = Delisted
    BY <2>1, <2>5, <1>4
  <2>3. DOMAIN y = 1 .. 3 /\ y[1] = Nav /\ y[2] = Published /\ y[3] = Delisted
    BY <2>2, <1>4, ScriptDomain
  <2>4. ToSet(y) = {Nav, Published, Delisted}
    BY <2>3 DEF ToSet
  <2> QED BY <2>2, <2>3, <2>4
<1> QED BY <1>2, <1>3, <1>4, <1>5

LEMMA OnceHit ==
  ASSUME NEW s, IsScript(s), NEW act, NEW ref, Once(s, act, ref)
  PROVE  \E i \in DOMAIN s : /\ i \in Nat /\ Hits(s, act, ref) = {i} /\ First(s, act, ref) = i
                             /\ s[i].act = act /\ s[i].ref = ref
<1>1. PICK n \in Nat : DOMAIN s = 1 .. n
  BY ScriptDomain
<1>2. IsFiniteSet(Hits(s, act, ref)) /\ Hits(s, act, ref) \subseteq DOMAIN s
  BY <1>1, FS_Interval, FS_Subset DEF Hits
<1>3. PICK i : Hits(s, act, ref) = {i}
  BY <1>2, FS_Singleton DEF Once
<1>4. i \in DOMAIN s /\ i \in Nat /\ s[i].act = act /\ s[i].ref = ref
  BY <1>1, <1>3 DEF Hits
<1>5. Min({i}) = i
  BY <1>4 DEF Min
<1> QED BY <1>3, <1>4, <1>5 DEF First

(* A step found in one place only.                                         *)
LEMMA SingleHit ==
  ASSUME NEW s, NEW act, NEW ref, NEW i \in Int, Hits(s, act, ref) = {i}
  PROVE  Once(s, act, ref) /\ First(s, act, ref) = i
BY FS_Singleton DEF Once, First, Min

(* The frozen shapes, one by one.                                          *)
Taps(s, refs) ==
    /\ \A r \in refs : Once(s, "ui.tap", r)
    /\ \A i \in Having(s, "ui.tap") : s[i].ref \in refs
    /\ \A r \in refs, i \in Having(s, "ui.tapLayout") : First(s, "ui.tap", r) < i

Layouts(s, slots) ==
    /\ \A l \in DOMAIN slots :
          /\ Once(s, "ui.tapLayout", l)
          /\ \A i \in Hits(s, "ui.tapLayout", l) : s[i].tab = slots[l].tab /\ s[i].num \in 0 .. slots[l].max
    /\ \A i \in Having(s, "ui.tapLayout") : s[i].ref \in DOMAIN slots

ShotWithin(s, l, m) ==
    \E i \in Having(s, "ui.screenshot") : First(s, "ui.tapLayout", l) < i /\ i < First(s, "ui.tapLayout", m)
ShotAfter(s, act, ref) == \E i \in Having(s, "ui.screenshot") : i > First(s, act, ref)

LEMMA ShapeParts ==
  ASSUME NEW s, NEW c, NEW sh, sh = V1Shape(c), NEW refs, refs = {t.ref : t \in sh.nav}
  PROVE  MatchesV1(c, s) <=>
           /\ Taps(s, refs) /\ Layouts(s, sh.layouts)
           /\ IF sh.badge
              THEN /\ Cardinality(Having(s, "ui.assertBadge")) = 1
                   /\ \A i \in Having(s, "ui.assertBadge") : s[i].ref = sh.anchor[2] /\ s[i].num = -1
              ELSE Having(s, "ui.assertBadge") = {}
           /\ sh.badge => First(s, "ui.assertBadge", sh.anchor[2]) > First(s, "ui.tapLayout", sh.gated)
           /\ \A e \in sh.evidence : ShotWithin(s, e[1], e[2])
           /\ ShotAfter(s, sh.anchor[1], sh.anchor[2])
           /\ Hits(s, "run.log", sh.log) # {}
<1> DEFINE M1 == \A t \in sh.nav : Once(s, "ui.tap", t.ref)
           M2 == \A i \in Having(s, "ui.tap") : s[i].ref \in {t.ref : t \in sh.nav}
           M3 == \A t \in sh.nav, i \in Having(s, "ui.tapLayout") : First(s, "ui.tap", t.ref) < i
           B1 == IF sh.badge
                 THEN /\ Cardinality(Having(s, "ui.assertBadge")) = 1
                      /\ \A i \in Having(s, "ui.assertBadge") : s[i].ref = sh.anchor[2] /\ s[i].num = -1
                 ELSE Having(s, "ui.assertBadge") = {}
           B2 == sh.badge => First(s, "ui.assertBadge", sh.anchor[2]) > First(s, "ui.tapLayout", sh.gated)
           E1 == \A e \in sh.evidence : ShotWithin(s, e[1], e[2])
           E2 == ShotAfter(s, sh.anchor[1], sh.anchor[2])
           L == Hits(s, "run.log", sh.log) # {}
<1>1. M1 /\ M2 /\ M3 <=> Taps(s, refs)
  BY Zenon DEF Taps
<1>2. MatchesV1(c, s) <=> M1 /\ M2 /\ Layouts(s, sh.layouts) /\ B1 /\ M3 /\ B2 /\ E1 /\ E2 /\ L
  BY Zenon DEF MatchesV1, Layouts, ShotWithin, ShotAfter
<1> HIDE DEF M1, M2, M3
<1> QED BY <1>1, <1>2

LEMMA PolishMatches ==
  ASSUME NEW s
  PROVE  MatchesV1("polish.v1", s) <=>
           /\ Taps(s, {"xianyu_profile_tab", "xianyu_my_published"})
           /\ Layouts(s, [l \in {"polish_all"} |-> Slot("onsale", 0)])
           /\ Having(s, "ui.assertBadge") = {}
           /\ ShotAfter(s, "ui.tapLayout", "polish_all")
           /\ Hits(s, "run.log", "XIANYU_POLISH_DONE") # {}
<1>1. PICK sh : sh = V1Shape("polish.v1")
  OBVIOUS
<1>2. /\ sh.nav = {Nav, Published} /\ sh.layouts = [l \in {"polish_all"} |-> Slot("onsale", 0)]
      /\ sh.gated = "polish_all" /\ sh.badge = FALSE /\ sh.evidence = {}
      /\ sh.anchor[1] = "ui.tapLayout" /\ sh.anchor[2] = "polish_all" /\ sh.log = "XIANYU_POLISH_DONE"
  BY <1>1, NavLists DEF V1Shape
<1>3. {t.ref : t \in sh.nav} = {"xianyu_profile_tab", "xianyu_my_published"}
  BY <1>2, NavSteps
<1>4. PICK refs, slots : refs = {t.ref : t \in sh.nav} /\ slots = sh.layouts
  OBVIOUS
<1>5. MatchesV1("polish.v1", s) <=>
           /\ Taps(s, refs) /\ Layouts(s, slots)
           /\ Having(s, "ui.assertBadge") = {}
           /\ ShotAfter(s, "ui.tapLayout", "polish_all")
           /\ Hits(s, "run.log", "XIANYU_POLISH_DONE") # {}
  <2>1. MatchesV1("polish.v1", s) <=>
           /\ Taps(s, refs) /\ Layouts(s, sh.layouts)
           /\ IF sh.badge
              THEN /\ Cardinality(Having(s, "ui.assertBadge")) = 1
                   /\ \A i \in Having(s, "ui.assertBadge") : s[i].ref = sh.anchor[2] /\ s[i].num = -1
              ELSE Having(s, "ui.assertBadge") = {}
           /\ sh.badge => First(s, "ui.assertBadge", sh.anchor[2]) > First(s, "ui.tapLayout", sh.gated)
           /\ \A e \in sh.evidence : ShotWithin(s, e[1], e[2])
           /\ ShotAfter(s, sh.anchor[1], sh.anchor[2])
           /\ Hits(s, "run.log", sh.log) # {}
    BY <1>1, <1>4, ShapeParts, Zenon
  <2> QED BY <1>2, <1>4, <2>1
<1> QED BY <1>2, <1>3, <1>4, <1>5

LEMMA DelistMatches ==
  ASSUME NEW s
  PROVE  MatchesV1("delist.v1", s) <=>
           /\ Taps(s, {"xianyu_profile_tab", "xianyu_my_published"})
           /\ Layouts(s, [l \in {"more", "delist_menu_item", "confirm_delist"} |-> Slot("onsale", 0)])
           /\ Cardinality(Having(s, "ui.assertBadge")) = 1
           /\ \A i \in Having(s, "ui.assertBadge") : s[i].ref = "xianyu_pub_tab_onsale" /\ s[i].num = -1
           /\ First(s, "ui.assertBadge", "xianyu_pub_tab_onsale") > First(s, "ui.tapLayout", "confirm_delist")
           /\ ShotWithin(s, "more", "delist_menu_item") /\ ShotWithin(s, "delist_menu_item", "confirm_delist")
           /\ ShotAfter(s, "ui.assertBadge", "xianyu_pub_tab_onsale")
           /\ Hits(s, "run.log", "XIANYU_DELIST_DONE") # {}
<1>1. PICK sh : sh = V1Shape("delist.v1")
  OBVIOUS
<1>2. /\ sh.nav = {Nav, Published}
      /\ sh.layouts = [l \in {"more", "delist_menu_item", "confirm_delist"} |-> Slot("onsale", 0)]
      /\ sh.gated = "confirm_delist" /\ sh.badge = TRUE
      /\ sh.evidence = {<<"more", "delist_menu_item">>, <<"delist_menu_item", "confirm_delist">>}
      /\ sh.anchor[1] = "ui.assertBadge" /\ sh.anchor[2] = "xianyu_pub_tab_onsale" /\ sh.log = "XIANYU_DELIST_DONE"
  BY <1>1, NavLists DEF V1Shape
<1>3. {t.ref : t \in sh.nav} = {"xianyu_profile_tab", "xianyu_my_published"}
  BY <1>2, NavSteps
<1>4. PICK refs, slots : refs = {t.ref : t \in sh.nav} /\ slots = sh.layouts
  OBVIOUS
<1>5. (\A e \in sh.evidence : ShotWithin(s, e[1], e[2])) <=>
        ShotWithin(s, "more", "delist_menu_item") /\ ShotWithin(s, "delist_menu_item", "confirm_delist")
  BY <1>2
<1>6. MatchesV1("delist.v1", s) <=>
           /\ Taps(s, refs) /\ Layouts(s, slots)
           /\ Cardinality(Having(s, "ui.assertBadge")) = 1
           /\ \A i \in Having(s, "ui.assertBadge") : s[i].ref = "xianyu_pub_tab_onsale" /\ s[i].num = -1
           /\ First(s, "ui.assertBadge", "xianyu_pub_tab_onsale") > First(s, "ui.tapLayout", "confirm_delist")
           /\ \A e \in sh.evidence : ShotWithin(s, e[1], e[2])
           /\ ShotAfter(s, "ui.assertBadge", "xianyu_pub_tab_onsale")
           /\ Hits(s, "run.log", "XIANYU_DELIST_DONE") # {}
  <2>1. MatchesV1("delist.v1", s) <=>
           /\ Taps(s, refs) /\ Layouts(s, sh.layouts)
           /\ IF sh.badge
              THEN /\ Cardinality(Having(s, "ui.assertBadge")) = 1
                   /\ \A i \in Having(s, "ui.assertBadge") : s[i].ref = sh.anchor[2] /\ s[i].num = -1
              ELSE Having(s, "ui.assertBadge") = {}
           /\ sh.badge => First(s, "ui.assertBadge", sh.anchor[2]) > First(s, "ui.tapLayout", sh.gated)
           /\ \A e \in sh.evidence : ShotWithin(s, e[1], e[2])
           /\ ShotAfter(s, sh.anchor[1], sh.anchor[2])
           /\ Hits(s, "run.log", sh.log) # {}
    BY <1>1, <1>4, ShapeParts, Zenon
  <2>2. MatchesV1("delist.v1", s) <=>
           /\ Taps(s, refs) /\ Layouts(s, slots)
           /\ Cardinality(Having(s, "ui.assertBadge")) = 1
           /\ \A i \in Having(s, "ui.assertBadge") : s[i].ref = sh.anchor[2] /\ s[i].num = -1
           /\ First(s, "ui.assertBadge", sh.anchor[2]) > First(s, "ui.tapLayout", sh.gated)
           /\ \A e \in sh.evidence : ShotWithin(s, e[1], e[2])
           /\ ShotAfter(s, sh.anchor[1], sh.anchor[2])
           /\ Hits(s, "run.log", sh.log) # {}
    BY <1>2, <1>4, <2>1, Zenon
  <2> QED BY <1>2, <2>2, Zenon
<1> QED BY <1>2, <1>3, <1>4, <1>5, <1>6

LEMMA DeleteMatches ==
  ASSUME NEW s
  PROVE  MatchesV1("delete.v1", s) <=>
           /\ Taps(s, {"xianyu_profile_tab", "xianyu_my_published", "xianyu_pub_tab_delisted"})
           /\ Layouts(s, [l \in {"delete_card", "confirm_delete"} |->
                            Slot("delisted", IF l = "delete_card" THEN 2 ELSE 0)])
           /\ Having(s, "ui.assertBadge") = {}
           /\ ShotWithin(s, "delete_card", "confirm_delete")
           /\ ShotAfter(s, "ui.tapLayout", "confirm_delete")
           /\ Hits(s, "run.log", "XIANYU_DELETE_DELISTED_DONE") # {}
<1>1. PICK sh : sh = V1Shape("delete.v1")
  OBVIOUS
<1>2. /\ sh.nav = {Nav, Published, Delisted}
      /\ sh.layouts = [l \in {"delete_card", "confirm_delete"} |->
                            Slot("delisted", IF l = "delete_card" THEN 2 ELSE 0)]
      /\ sh.gated = "confirm_delete" /\ sh.badge = FALSE
      /\ sh.evidence = {<<"delete_card", "confirm_delete">>}
      /\ sh.anchor[1] = "ui.tapLayout" /\ sh.anchor[2] = "confirm_delete" /\ sh.log = "XIANYU_DELETE_DELISTED_DONE"
  BY <1>1, NavLists DEF V1Shape
<1>3. {t.ref : t \in sh.nav} = {"xianyu_profile_tab", "xianyu_my_published", "xianyu_pub_tab_delisted"}
  BY <1>2, NavSteps
<1>4. PICK refs, slots : refs = {t.ref : t \in sh.nav} /\ slots = sh.layouts
  OBVIOUS
<1>5. (\A e \in sh.evidence : ShotWithin(s, e[1], e[2])) <=> ShotWithin(s, "delete_card", "confirm_delete")
  BY <1>2
<1>6. MatchesV1("delete.v1", s) <=>
           /\ Taps(s, refs) /\ Layouts(s, slots)
           /\ Having(s, "ui.assertBadge") = {}
           /\ \A e \in sh.evidence : ShotWithin(s, e[1], e[2])
           /\ ShotAfter(s, "ui.tapLayout", "confirm_delete")
           /\ Hits(s, "run.log", "XIANYU_DELETE_DELISTED_DONE") # {}
  <2>1. MatchesV1("delete.v1", s) <=>
           /\ Taps(s, refs) /\ Layouts(s, sh.layouts)
           /\ IF sh.badge
              THEN /\ Cardinality(Having(s, "ui.assertBadge")) = 1
                   /\ \A i \in Having(s, "ui.assertBadge") : s[i].ref = sh.anchor[2] /\ s[i].num = -1
              ELSE Having(s, "ui.assertBadge") = {}
           /\ sh.badge => First(s, "ui.assertBadge", sh.anchor[2]) > First(s, "ui.tapLayout", sh.gated)
           /\ \A e \in sh.evidence : ShotWithin(s, e[1], e[2])
           /\ ShotAfter(s, sh.anchor[1], sh.anchor[2])
           /\ Hits(s, "run.log", sh.log) # {}
    BY <1>1, <1>4, ShapeParts, Zenon
  <2> QED BY <1>2, <1>4, <2>1
<1> QED BY <1>2, <1>3, <1>4, <1>5, <1>6

(* The scripts of the builders, step by step.                              *)
BadgeStep == Step("ui.assertBadge", "xianyu_pub_tab_onsale", "", -1)

LEMMA PolishScript ==
  /\ IsScript(BuildPolish) /\ DOMAIN BuildPolish = 1 .. 5 /\ BuildPolish[1] = Nav
  /\ BuildPolish[2] = Published /\ BuildPolish[3] = Layout("polish_all", "onsale", 0)
  /\ BuildPolish[4] = Shot /\ BuildPolish[5] = Log("XIANYU_POLISH_DONE")
<1>1. PICK y : y = <<Layout("polish_all", "onsale", 0), Shot, Log("XIANYU_POLISH_DONE")>>
  OBVIOUS
<1>2. /\ Len(y) = 3 /\ y[1] = Layout("polish_all", "onsale", 0) /\ y[2] = Shot
      /\ y[3] = Log("XIANYU_POLISH_DONE")
  BY <1>1
<1>3. IsScript(y)
  <2>1. PICK S : S = {y[1], y[2], y[3]}
    OBVIOUS
  <2>2. y \in Seq(S)
    BY <1>1, <1>2, <2>1
  <2> QED BY <2>2, Zenon DEF IsScript
<1>4. PICK x, s : x = PublishedList /\ s = BuildPolish
  OBVIOUS
<1>5. s = x \o y
  BY <1>1, <1>4 DEF BuildPolish
<1>6. IsScript(x)
  BY <1>4, NavLists
<1>7. x[1] = Nav /\ x[2] = Published /\ Len(x) = 2
  BY <1>4, NavLists
<1>8. IsScript(s) /\ DOMAIN s = 1 .. (Len(x) + Len(y))
  BY <1>3, <1>5, <1>6, Joined
<1>9. \A i \in 1 .. Len(x) : s[i] = x[i]
  BY <1>3, <1>5, <1>6, Joined
<1>10. \A i \in 1 .. Len(y) : s[Len(x) + i] = y[i]
  BY <1>3, <1>5, <1>6, Joined
<1>11. /\ s[2 + 1] = y[1] /\ s[2 + 2] = y[2] /\ s[2 + 3] = y[3] /\ s[1] = Nav /\ s[2] = Published
       /\ DOMAIN s = 1 .. 5
  BY <1>2, <1>7, <1>8, <1>9, <1>10
<1>12. /\ s[3] = y[1] /\ s[4] = y[2] /\ s[5] = y[3]
  BY <1>11
<1> QED BY <1>2, <1>4, <1>8, <1>11, <1>12, Zenon

LEMMA DelistScript ==
  /\ IsScript(BuildDelist) /\ DOMAIN BuildDelist = 1 .. 10 /\ BuildDelist[1] = Nav
  /\ BuildDelist[2] = Published /\ BuildDelist[3] = Layout("more", "onsale", 0)
  /\ BuildDelist[4] = Shot /\ BuildDelist[5] = Layout("delist_menu_item", "onsale", 0)
  /\ BuildDelist[6] = Shot /\ BuildDelist[7] = Layout("confirm_delist", "onsale", 0)
  /\ BuildDelist[8] = BadgeStep /\ BuildDelist[9] = Shot
  /\ BuildDelist[10] = Log("XIANYU_DELIST_DONE")
<1>1. PICK y : y = <<Layout("more", "onsale", 0), Shot,
                     Layout("delist_menu_item", "onsale", 0), Shot,
                     Layout("confirm_delist", "onsale", 0), BadgeStep, Shot,
                     Log("XIANYU_DELIST_DONE")>>
  OBVIOUS
<1>2. /\ Len(y) = 8 /\ y[1] = Layout("more", "onsale", 0) /\ y[2] = Shot
      /\ y[3] = Layout("delist_menu_item", "onsale", 0) /\ y[4] = Shot
      /\ y[5] = Layout("confirm_delist", "onsale", 0) /\ y[6] = BadgeStep /\ y[7] = Shot
      /\ y[8] = Log("XIANYU_DELIST_DONE")
  BY <1>1
<1>3. IsScript(y)
  <2>1. PICK S : S = {y[1], y[2], y[3], y[4], y[5], y[6], y[7], y[8]}
    OBVIOUS
  <2>2. y \in Seq(S)
    BY <1>1, <1>2, <2>1
  <2> QED BY <2>2, Zenon DEF IsScript
<1>4. PICK x, s : x = PublishedList /\ s = BuildDelist
  OBVIOUS
<1>5. s = x \o y
  BY <1>1, <1>4 DEF BuildDelist, BadgeStep
<1>6. IsScript(x)
  BY <1>4, NavLists
<1>7. x[1] = Nav /\ x[2] = Published /\ Len(x) = 2
  BY <1>4, NavLists
<1>8. IsScript(s) /\ DOMAIN s = 1 .. (Len(x) + Len(y))
  BY <1>3, <1>5, <1>6, Joined
<1>9. \A i \in 1 .. Len(x) : s[i] = x[i]
  BY <1>3, <1>5, <1>6, Joined
<1>10. \A i \in 1 .. Len(y) : s[Len(x) + i] = y[i]
  BY <1>3, <1>5, <1>6, Joined
<1>11. /\ s[2 + 1] = y[1] /\ s[2 + 2] = y[2] /\ s[2 + 3] = y[3] /\ s[2 + 4] = y[4]
       /\ s[2 + 5] = y[5] /\ s[2 + 6] = y[6] /\ s[2 + 7] = y[7] /\ s[2 + 8] = y[8] /\ s[1] = Nav
       /\ s[2] = Published /\ DOMAIN s = 1 .. 10
  BY <1>2, <1>7, <1>8, <1>9, <1>10
<1>12. /\ s[3] = y[1] /\ s[4] = y[2] /\ s[5] = y[3] /\ s[6] = y[4] /\ s[7] = y[5] /\ s[8] = y[6]
       /\ s[9] = y[7] /\ s[10] = y[8]
  BY <1>11
<1> QED BY <1>2, <1>4, <1>8, <1>11, <1>12, Zenon

LEMMA DeleteScript ==
  ASSUME NEW card
  PROVE  /\ IsScript(BuildDelete(card)) /\ DOMAIN BuildDelete(card) = 1 .. 8
         /\ BuildDelete(card)[1] = Nav /\ BuildDelete(card)[2] = Published
         /\ BuildDelete(card)[3] = Delisted
         /\ BuildDelete(card)[4] = Layout("delete_card", "delisted", card)
         /\ BuildDelete(card)[5] = Shot
         /\ BuildDelete(card)[6] = Layout("confirm_delete", "delisted", 0)
         /\ BuildDelete(card)[7] = Shot /\ BuildDelete(card)[8] = Log("XIANYU_DELETE_DELISTED_DONE")
<1>1. PICK y : y = <<Layout("delete_card", "delisted", card), Shot,
                     Layout("confirm_delete", "delisted", 0), Shot,
                     Log("XIANYU_DELETE_DELISTED_DONE")>>
  OBVIOUS
<1>2. /\ Len(y) = 5 /\ y[1] = Layout("delete_card", "delisted", card) /\ y[2] = Shot
      /\ y[3] = Layout("confirm_delete", "delisted", 0) /\ y[4] = Shot
      /\ y[5] = Log("XIANYU_DELETE_DELISTED_DONE")
  BY <1>1
<1>3. IsScript(y)
  <2>1. PICK S : S = {y[1], y[2], y[3], y[4], y[5]}
    OBVIOUS
  <2>2. y \in Seq(S)
    BY <1>1, <1>2, <2>1
  <2> QED BY <2>2, Zenon DEF IsScript
<1>4. PICK x, s : x = DelistedList /\ s = BuildDelete(card)
  OBVIOUS
<1>5. s = x \o y
  BY <1>1, <1>4 DEF BuildDelete
<1>6. IsScript(x)
  BY <1>4, NavLists
<1>7. x[1] = Nav /\ x[2] = Published /\ x[3] = Delisted /\ Len(x) = 3
  BY <1>4, NavLists
<1>8. IsScript(s) /\ DOMAIN s = 1 .. (Len(x) + Len(y))
  BY <1>3, <1>5, <1>6, Joined
<1>9. \A i \in 1 .. Len(x) : s[i] = x[i]
  BY <1>3, <1>5, <1>6, Joined
<1>10. \A i \in 1 .. Len(y) : s[Len(x) + i] = y[i]
  BY <1>3, <1>5, <1>6, Joined
<1>11. /\ s[3 + 1] = y[1] /\ s[3 + 2] = y[2] /\ s[3 + 3] = y[3] /\ s[3 + 4] = y[4]
       /\ s[3 + 5] = y[5] /\ s[1] = Nav /\ s[2] = Published /\ s[3] = Delisted /\ DOMAIN s = 1 .. 8
  BY <1>2, <1>7, <1>8, <1>9, <1>10
<1>12. /\ s[4] = y[1] /\ s[5] = y[2] /\ s[6] = y[3] /\ s[7] = y[4] /\ s[8] = y[5]
  BY <1>11
<1> QED BY <1>2, <1>4, <1>8, <1>11, <1>12, Zenon

LEMMA DelistV2Script ==
  /\ IsScript(BuildDelistV2) /\ DOMAIN BuildDelistV2 = 1 .. 10 /\ BuildDelistV2[1] = Nav
  /\ BuildDelistV2[2] = Published /\ BuildDelistV2[3] = Card("onsale")
  /\ BuildDelistV2[4] = Tap("xianyu_detail_manage") /\ BuildDelistV2[5] = Shot
  /\ BuildDelistV2[6] = Tap("xianyu_manage_delist") /\ BuildDelistV2[7] = Shot
  /\ BuildDelistV2[8] = Layout("confirm_delist", "onsale", 0) /\ BuildDelistV2[9] = Shot
  /\ BuildDelistV2[10] = Log("XIANYU_DELIST_DONE")
<1>1. PICK y : y = <<Card("onsale"), Tap("xianyu_detail_manage"), Shot,
                     Tap("xianyu_manage_delist"), Shot, Layout("confirm_delist", "onsale", 0),
                     Shot, Log("XIANYU_DELIST_DONE")>>
  OBVIOUS
<1>2. /\ Len(y) = 8 /\ y[1] = Card("onsale") /\ y[2] = Tap("xianyu_detail_manage") /\ y[3] = Shot
      /\ y[4] = Tap("xianyu_manage_delist") /\ y[5] = Shot
      /\ y[6] = Layout("confirm_delist", "onsale", 0) /\ y[7] = Shot
      /\ y[8] = Log("XIANYU_DELIST_DONE")
  BY <1>1
<1>3. IsScript(y)
  <2>1. PICK S : S = {y[1], y[2], y[3], y[4], y[5], y[6], y[7], y[8]}
    OBVIOUS
  <2>2. y \in Seq(S)
    BY <1>1, <1>2, <2>1
  <2> QED BY <2>2, Zenon DEF IsScript
<1>4. PICK x, s : x = PublishedList /\ s = BuildDelistV2
  OBVIOUS
<1>5. s = x \o y
  BY <1>1, <1>4 DEF BuildDelistV2
<1>6. IsScript(x)
  BY <1>4, NavLists
<1>7. x[1] = Nav /\ x[2] = Published /\ Len(x) = 2
  BY <1>4, NavLists
<1>8. IsScript(s) /\ DOMAIN s = 1 .. (Len(x) + Len(y))
  BY <1>3, <1>5, <1>6, Joined
<1>9. \A i \in 1 .. Len(x) : s[i] = x[i]
  BY <1>3, <1>5, <1>6, Joined
<1>10. \A i \in 1 .. Len(y) : s[Len(x) + i] = y[i]
  BY <1>3, <1>5, <1>6, Joined
<1>11. /\ s[2 + 1] = y[1] /\ s[2 + 2] = y[2] /\ s[2 + 3] = y[3] /\ s[2 + 4] = y[4]
       /\ s[2 + 5] = y[5] /\ s[2 + 6] = y[6] /\ s[2 + 7] = y[7] /\ s[2 + 8] = y[8] /\ s[1] = Nav
       /\ s[2] = Published /\ DOMAIN s = 1 .. 10
  BY <1>2, <1>7, <1>8, <1>9, <1>10
<1>12. /\ s[3] = y[1] /\ s[4] = y[2] /\ s[5] = y[3] /\ s[6] = y[4] /\ s[7] = y[5] /\ s[8] = y[6]
       /\ s[9] = y[7] /\ s[10] = y[8]
  BY <1>11
<1> QED BY <1>2, <1>4, <1>8, <1>11, <1>12, Zenon

LEMMA DeleteV2Script ==
  /\ IsScript(BuildDeleteV2) /\ DOMAIN BuildDeleteV2 = 1 .. 11 /\ BuildDeleteV2[1] = Nav
  /\ BuildDeleteV2[2] = Published /\ BuildDeleteV2[3] = Delisted
  /\ BuildDeleteV2[4] = Card("delisted") /\ BuildDeleteV2[5] = Tap("xianyu_detail_manage")
  /\ BuildDeleteV2[6] = Shot /\ BuildDeleteV2[7] = Tap("xianyu_manage_delete")
  /\ BuildDeleteV2[8] = Shot /\ BuildDeleteV2[9] = GatedTap /\ BuildDeleteV2[10] = Shot
  /\ BuildDeleteV2[11] = Log("XIANYU_DELETE_DELISTED_DONE")
<1>1. PICK y : y = <<Card("delisted"), Tap("xianyu_detail_manage"), Shot,
                     Tap("xianyu_manage_delete"), Shot, GatedTap, Shot,
                     Log("XIANYU_DELETE_DELISTED_DONE")>>
  OBVIOUS
<1>2. /\ Len(y) = 8 /\ y[1] = Card("delisted") /\ y[2] = Tap("xianyu_detail_manage") /\ y[3] = Shot
      /\ y[4] = Tap("xianyu_manage_delete") /\ y[5] = Shot /\ y[6] = GatedTap /\ y[7] = Shot
      /\ y[8] = Log("XIANYU_DELETE_DELISTED_DONE")
  BY <1>1
<1>3. IsScript(y)
  <2>1. PICK S : S = {y[1], y[2], y[3], y[4], y[5], y[6], y[7], y[8]}
    OBVIOUS
  <2>2. y \in Seq(S)
    BY <1>1, <1>2, <2>1
  <2> QED BY <2>2, Zenon DEF IsScript
<1>4. PICK x, s : x = DelistedList /\ s = BuildDeleteV2
  OBVIOUS
<1>5. s = x \o y
  BY <1>1, <1>4 DEF BuildDeleteV2
<1>6. IsScript(x)
  BY <1>4, NavLists
<1>7. x[1] = Nav /\ x[2] = Published /\ x[3] = Delisted /\ Len(x) = 3
  BY <1>4, NavLists
<1>8. IsScript(s) /\ DOMAIN s = 1 .. (Len(x) + Len(y))
  BY <1>3, <1>5, <1>6, Joined
<1>9. \A i \in 1 .. Len(x) : s[i] = x[i]
  BY <1>3, <1>5, <1>6, Joined
<1>10. \A i \in 1 .. Len(y) : s[Len(x) + i] = y[i]
  BY <1>3, <1>5, <1>6, Joined
<1>11. /\ s[3 + 1] = y[1] /\ s[3 + 2] = y[2] /\ s[3 + 3] = y[3] /\ s[3 + 4] = y[4]
       /\ s[3 + 5] = y[5] /\ s[3 + 6] = y[6] /\ s[3 + 7] = y[7] /\ s[3 + 8] = y[8] /\ s[1] = Nav
       /\ s[2] = Published /\ s[3] = Delisted /\ DOMAIN s = 1 .. 11
  BY <1>2, <1>7, <1>8, <1>9, <1>10
<1>12. /\ s[4] = y[1] /\ s[5] = y[2] /\ s[6] = y[3] /\ s[7] = y[4] /\ s[8] = y[5] /\ s[9] = y[6]
       /\ s[10] = y[7] /\ s[11] = y[8]
  BY <1>11
<1> QED BY <1>2, <1>4, <1>8, <1>11, <1>12, Zenon

(* A script has at most one of the frozen shapes: the layout taps of the   *)
(* three V1 shapes differ, and the V2 sequences tap what V1 refuses.       *)
LayoutsOf(c) ==
    IF c = "polish.v1" THEN {"polish_all"}
    ELSE IF c = "delist.v1" THEN {"more", "delist_menu_item", "confirm_delist"}
    ELSE {"delete_card", "confirm_delete"}
GatedOf(c) ==
    IF c = "polish.v1" THEN "polish_all" ELSE IF c = "delist.v1" THEN "confirm_delist" ELSE "confirm_delete"
NavOf(c) ==
    IF c = "delete.v1" THEN {"xianyu_profile_tab", "xianyu_my_published", "xianyu_pub_tab_delisted"}
    ELSE {"xianyu_profile_tab", "xianyu_my_published"}

LEMMA V1Steps ==
  ASSUME NEW s, NEW c \in V1Commands, MatchesV1(c, s)
  PROVE  /\ Taps(s, NavOf(c))
         /\ Once(s, "ui.tapLayout", GatedOf(c))
         /\ \A i \in Having(s, "ui.tapLayout") : s[i].ref \in LayoutsOf(c)
<1>1. CASE c = "polish.v1"
  <2>1. Taps(s, NavOf(c))
    BY <1>1, PolishMatches DEF NavOf
  <2>2. PICK slots : slots = [l \in {"polish_all"} |-> Slot("onsale", 0)]
    OBVIOUS
  <2>3. Layouts(s, slots)
    BY <1>1, <2>2, PolishMatches
  <2>4. DOMAIN slots = LayoutsOf(c) /\ GatedOf(c) \in LayoutsOf(c)
    BY <1>1, <2>2 DEF LayoutsOf, GatedOf
  <2> QED BY <2>1, <2>3, <2>4 DEF Layouts
<1>2. CASE c = "delist.v1"
  <2>1. Taps(s, NavOf(c))
    BY <1>2, DelistMatches DEF NavOf
  <2>2. PICK slots : slots = [l \in {"more", "delist_menu_item", "confirm_delist"} |-> Slot("onsale", 0)]
    OBVIOUS
  <2>3. Layouts(s, slots)
    BY <1>2, <2>2, DelistMatches
  <2>4. DOMAIN slots = LayoutsOf(c) /\ GatedOf(c) \in LayoutsOf(c)
    BY <1>2, <2>2 DEF LayoutsOf, GatedOf
  <2> QED BY <2>1, <2>3, <2>4 DEF Layouts
<1>3. CASE c = "delete.v1"
  <2>1. Taps(s, NavOf(c))
    BY <1>3, DeleteMatches DEF NavOf
  <2>2. PICK slots : slots = [l \in {"delete_card", "confirm_delete"} |->
                                Slot("delisted", IF l = "delete_card" THEN 2 ELSE 0)]
    OBVIOUS
  <2>3. Layouts(s, slots)
    BY <1>3, <2>2, DeleteMatches
  <2>4. DOMAIN slots = LayoutsOf(c) /\ GatedOf(c) \in LayoutsOf(c)
    BY <1>3, <2>2 DEF LayoutsOf, GatedOf
  <2> QED BY <2>1, <2>3, <2>4 DEF Layouts
<1> QED BY <1>1, <1>2, <1>3 DEF V1Commands

LEMMA V1Differ ==
  ASSUME NEW s, IsScript(s), NEW c \in V1Commands, NEW d \in V1Commands, MatchesV1(c, s), MatchesV1(d, s)
  PROVE  c = d
<1>1. PICK i \in DOMAIN s : s[i].act = "ui.tapLayout" /\ s[i].ref = GatedOf(c)
  BY V1Steps, OnceHit
<1>2. GatedOf(c) \in LayoutsOf(d)
  BY <1>1, V1Steps DEF Having
<1> QED BY <1>2 DEF V1Commands, GatedOf, LayoutsOf

LEMMA V2NotV1 ==
  ASSUME NEW c \in V1Commands
  PROVE  ~MatchesV1(c, BuildDelistV2) /\ ~MatchesV1(c, BuildDeleteV2)
<1>1. "xianyu_detail_manage" \notin NavOf(c)
  BY DEF NavOf
<1>2. Tap("xianyu_detail_manage").act = "ui.tap" /\ Tap("xianyu_detail_manage").ref = "xianyu_detail_manage"
  BY TapField
<1>3. ~MatchesV1(c, BuildDelistV2)
  <2>1. PICK s : s = BuildDelistV2
    OBVIOUS
  <2>2. 4 \in DOMAIN s /\ s[4].act = "ui.tap" /\ s[4].ref = "xianyu_detail_manage"
    BY <1>2, <2>1, DelistV2Script
  <2>3. ~Taps(s, NavOf(c))
    BY <1>1, <2>2 DEF Taps, Having
  <2> QED BY <2>1, <2>3, V1Steps
<1>4. ~MatchesV1(c, BuildDeleteV2)
  <2>1. PICK s : s = BuildDeleteV2
    OBVIOUS
  <2>2. 5 \in DOMAIN s /\ s[5].act = "ui.tap" /\ s[5].ref = "xianyu_detail_manage"
    BY <1>2, <2>1, DeleteV2Script
  <2>3. ~Taps(s, NavOf(c))
    BY <1>1, <2>2 DEF Taps, Having
  <2> QED BY <2>1, <2>3, V1Steps
<1> QED BY <1>3, <1>4

LEMMA V2Differ == BuildDelistV2 # BuildDeleteV2
<1>1. BuildDelistV2[3].act = "ui.tapCardByTitle"
  BY DelistV2Script, CardField
<1>2. BuildDeleteV2[3].act = "ui.tap"
  BY DeleteV2Script, NavSteps
<1> QED BY <1>1, <1>2

LEMMA OneShape ==
  ASSUME NEW s, IsScript(s), NEW c \in MaintenanceMatches(s)
  PROVE  MaintenanceMatches(s) = {c}
<1>1. SUFFICES ASSUME NEW d \in MaintenanceMatches(s) PROVE d = c
  OBVIOUS
<1>2. \A x \in MaintenanceMatches(s) :
        (x \in V1Commands /\ MatchesV1(x, s)) \/ (x \in V2Commands /\ s = V2Sequence(x))
  BY DEF MaintenanceMatches, MatchesV2
<1>3. \A x \in V2Commands : V2Sequence(x) = BuildDelistV2 \/ V2Sequence(x) = BuildDeleteV2
  BY DEF V2Sequence
<1>4. \A x, y \in V2Commands : V2Sequence(x) = V2Sequence(y) => x = y
  BY V2Differ DEF V2Commands, V2Sequence
<1> QED BY <1>2, <1>3, <1>4, V1Differ, V2NotV1

LEMMA ShapeAdmitted ==
  ASSUME NEW s, IsScript(s), Uses(s, MaintenanceActions), NEW c \in MaintenanceMatches(s)
  PROVE  Gate(s) = c
<1>1. PICK M : M = MaintenanceMatches(s)
  OBVIOUS
<1>2. M = {c}
  BY <1>1, OneShape
<1>3. Cardinality(M) = 1 /\ (CHOOSE d \in M : TRUE) = c
  BY <1>2, FS_Singleton
<1> QED BY <1>1, <1>3 DEF Gate

LEMMA AdmittedAs ==
  ASSUME NEW s, IsScript(s), Gate(s) \in V1Commands \cup V2Commands
  PROVE  Gate(s) \in MaintenanceMatches(s)
<1>1. Uses(s, MaintenanceActions) /\ Cardinality(MaintenanceMatches(s)) = 1
  BY DEF Gate, V1Commands, V2Commands
<1>2. Gate(s) = CHOOSE c \in MaintenanceMatches(s) : TRUE
  BY <1>1 DEF Gate
<1>3. MaintenanceMatches(s) # {}
  BY <1>1, FS_EmptySet
<1> QED BY <1>2, <1>3

(* What an admitted command does.                                          *)
GuardedStrike(s) ==
    \E g \in DOMAIN s :
       /\ Strikes(s) = {g}
       /\ \E i \in Having(s, "ui.screenshot") : i < g
       /\ \E i \in Having(s, "ui.screenshot") : i > g
       /\ \E i \in Hits(s, "ui.tap", "xianyu_my_published") : i < g

StrikeTaps == {"xianyu_delete_confirm", "xianyu_publish_button"}

LEMMA NoTapStrikes ==
  ASSUME NEW s, NEW c \in V1Commands, Taps(s, NavOf(c)), NEW r \in StrikeTaps
  PROVE  Hits(s, "ui.tap", r) = {}
<1>1. r \notin NavOf(c)
  BY DEF NavOf, StrikeTaps
<1> QED BY <1>1 DEF Taps, Hits, Having

LEMMA NotPublish ==
  ASSUME NEW s, Hits(s, "ui.tap", "xianyu_publish_button") = {}
  PROVE  ~PublishShape(s)
BY FS_EmptySet DEF PublishShape, Once

LEMMA PolishNoStrike ==
  ASSUME NEW s, MatchesV1("polish.v1", s)
  PROVE  Strikes(s) = {}
<1>1. "polish.v1" \in V1Commands /\ LayoutsOf("polish.v1") = {"polish_all"}
  BY DEF V1Commands, LayoutsOf
<1>2. \A r \in StrikeTaps : Hits(s, "ui.tap", r) = {}
  BY <1>1, V1Steps, NoTapStrikes
<1>3. \A i \in Having(s, "ui.tapLayout") : s[i].ref = "polish_all"
  BY <1>1, V1Steps
<1>4. Hits(s, "ui.tapLayout", "confirm_delist") = {} /\ Hits(s, "ui.tapLayout", "confirm_delete") = {}
  BY <1>3 DEF Hits, Having
<1> QED BY <1>2, <1>4 DEF Strikes, StrikeTaps

LEMMA PublishedBefore ==
  ASSUME NEW s, IsScript(s), NEW c \in V1Commands, Taps(s, NavOf(c)), NEW g \in Having(s, "ui.tapLayout")
  PROVE  \E i \in Hits(s, "ui.tap", "xianyu_my_published") : i < g
<1>1. "xianyu_my_published" \in NavOf(c)
  BY DEF NavOf
<1>2. Once(s, "ui.tap", "xianyu_my_published") /\ First(s, "ui.tap", "xianyu_my_published") < g
  BY <1>1 DEF Taps
<1>3. PICK i : Hits(s, "ui.tap", "xianyu_my_published") = {i} /\ First(s, "ui.tap", "xianyu_my_published") = i
  BY <1>2, OnceHit
<1> QED BY <1>2, <1>3

LEMMA DelistGuarded ==
  ASSUME NEW s, IsScript(s), MatchesV1("delist.v1", s)
  PROVE  GuardedStrike(s) /\ ~PublishShape(s)
<1>1. "delist.v1" \in V1Commands /\ GatedOf("delist.v1") = "confirm_delist" /\ "confirm_delete" \notin LayoutsOf("delist.v1")
  BY DEF V1Commands, LayoutsOf, GatedOf
<1>2. Taps(s, NavOf("delist.v1")) /\ Once(s, "ui.tapLayout", "confirm_delist")
  BY <1>1, V1Steps
<1>3. Hits(s, "ui.tapLayout", "confirm_delete") = {}
  <2>1. \A i \in Having(s, "ui.tapLayout") : s[i].ref \in LayoutsOf("delist.v1")
    BY <1>1, V1Steps
  <2> QED BY <1>1, <2>1 DEF Hits, Having
<1>4. \A r \in StrikeTaps : Hits(s, "ui.tap", r) = {}
  BY <1>1, <1>2, NoTapStrikes
<1>5. PICK g \in DOMAIN s : /\ Hits(s, "ui.tapLayout", "confirm_delist") = {g} /\ g \in Nat
                            /\ First(s, "ui.tapLayout", "confirm_delist") = g /\ s[g].act = "ui.tapLayout"
  BY <1>2, OnceHit
<1>6. Strikes(s) = {g}
  BY <1>3, <1>4, <1>5 DEF Strikes, StrikeTaps
<1>7. \E i \in Having(s, "ui.screenshot") : i < g
  BY <1>5, DelistMatches DEF ShotWithin
<1>8. \E i \in Having(s, "ui.screenshot") : i > g
  <2>1. Hits(s, "ui.assertBadge", "xianyu_pub_tab_onsale") = Having(s, "ui.assertBadge")
    BY DelistMatches DEF Hits, Having
  <2>2. Once(s, "ui.assertBadge", "xianyu_pub_tab_onsale")
    BY <2>1, DelistMatches DEF Once
  <2>3. PICK b : b \in Nat /\ First(s, "ui.assertBadge", "xianyu_pub_tab_onsale") = b
    BY <2>2, OnceHit
  <2>4. b > g
    BY <2>3, <1>5, DelistMatches
  <2>5. PICK i \in Having(s, "ui.screenshot") : i > b
    BY <2>3, DelistMatches DEF ShotAfter
  <2>6. i \in Nat
    BY ScriptDomain DEF Having
  <2> QED BY <1>5, <2>3, <2>4, <2>5, <2>6
<1>9. \E i \in Hits(s, "ui.tap", "xianyu_my_published") : i < g
  BY <1>1, <1>2, <1>5, PublishedBefore DEF Having
<1> QED BY <1>4, <1>6, <1>7, <1>8, <1>9, NotPublish DEF GuardedStrike, StrikeTaps

LEMMA DeleteGuarded ==
  ASSUME NEW s, IsScript(s), MatchesV1("delete.v1", s)
  PROVE  GuardedStrike(s) /\ ~PublishShape(s)
<1>1. "delete.v1" \in V1Commands /\ GatedOf("delete.v1") = "confirm_delete" /\ "confirm_delist" \notin LayoutsOf("delete.v1")
  BY DEF V1Commands, LayoutsOf, GatedOf
<1>2. Taps(s, NavOf("delete.v1")) /\ Once(s, "ui.tapLayout", "confirm_delete")
  BY <1>1, V1Steps
<1>3. Hits(s, "ui.tapLayout", "confirm_delist") = {}
  <2>1. \A i \in Having(s, "ui.tapLayout") : s[i].ref \in LayoutsOf("delete.v1")
    BY <1>1, V1Steps
  <2> QED BY <1>1, <2>1 DEF Hits, Having
<1>4. \A r \in StrikeTaps : Hits(s, "ui.tap", r) = {}
  BY <1>1, <1>2, NoTapStrikes
<1>5. PICK g \in DOMAIN s : /\ Hits(s, "ui.tapLayout", "confirm_delete") = {g} /\ g \in Nat
                            /\ First(s, "ui.tapLayout", "confirm_delete") = g /\ s[g].act = "ui.tapLayout"
  BY <1>2, OnceHit
<1>6. Strikes(s) = {g}
  BY <1>3, <1>4, <1>5 DEF Strikes, StrikeTaps
<1>7. \E i \in Having(s, "ui.screenshot") : i < g
  BY <1>5, DeleteMatches DEF ShotWithin
<1>8. \E i \in Having(s, "ui.screenshot") : i > g
  BY <1>5, DeleteMatches DEF ShotAfter
<1>9. \E i \in Hits(s, "ui.tap", "xianyu_my_published") : i < g
  BY <1>1, <1>2, <1>5, PublishedBefore DEF Having
<1> QED BY <1>4, <1>6, <1>7, <1>8, <1>9, NotPublish DEF GuardedStrike, StrikeTaps

LEMMA DelistV2Guarded == GuardedStrike(BuildDelistV2) /\ ~PublishShape(BuildDelistV2)
<1>1. PICK s : s = BuildDelistV2
  OBVIOUS
<1>2. DOMAIN s = 1 .. 10
  BY <1>1, DelistV2Script
<1>3. s[1].act = "ui.tap" /\ s[1].ref = "xianyu_profile_tab" /\ s[2].act = "ui.tap" /\ s[2].ref = "xianyu_my_published"
  BY <1>1, DelistV2Script, NavSteps
<1>4. s[5].act = "ui.screenshot" /\ s[7].act = "ui.screenshot" /\ s[9].act = "ui.screenshot"
  BY <1>1, DelistV2Script, OtherFields
<1>5. /\ s[4].act = "ui.tap" /\ s[4].ref = "xianyu_detail_manage"
      /\ s[6].act = "ui.tap" /\ s[6].ref = "xianyu_manage_delist"
  BY <1>1, DelistV2Script, TapField
<1>6. s[3].act = "ui.tapCardByTitle" /\ s[10].act = "run.log"
  BY <1>1, DelistV2Script, CardField, LogField
<1>7. s[8].act = "ui.tapLayout" /\ s[8].ref = "confirm_delist"
  BY <1>1, DelistV2Script, LayoutField
<1>8. Hits(s, "ui.tapLayout", "confirm_delist") = {8} /\ Hits(s, "ui.tapLayout", "confirm_delete") = {}
  BY <1>2, <1>3, <1>4, <1>5, <1>6, <1>7 DEF Hits
<1>9. Hits(s, "ui.tap", "xianyu_delete_confirm") = {} /\ Hits(s, "ui.tap", "xianyu_publish_button") = {}
  BY <1>2, <1>3, <1>4, <1>5, <1>6, <1>7 DEF Hits
<1>10. 8 \in DOMAIN s /\ Strikes(s) = {8}
  BY <1>2, <1>8, <1>9 DEF Strikes
<1>11. 7 \in Having(s, "ui.screenshot") /\ 9 \in Having(s, "ui.screenshot") /\ 2 \in Hits(s, "ui.tap", "xianyu_my_published")
  BY <1>2, <1>3, <1>4, <1>5, <1>6, <1>7 DEF Having, Hits
<1>12. GuardedStrike(s)
  BY <1>10, <1>11 DEF GuardedStrike
<1> QED BY <1>1, <1>9, <1>12, NotPublish

LEMMA DeleteV2Guarded == GuardedStrike(BuildDeleteV2) /\ ~PublishShape(BuildDeleteV2)
<1>1. PICK s : s = BuildDeleteV2
  OBVIOUS
<1>2. DOMAIN s = 1 .. 11
  BY <1>1, DeleteV2Script
<1>3. /\ s[1].act = "ui.tap" /\ s[1].ref = "xianyu_profile_tab" /\ s[2].act = "ui.tap" /\ s[2].ref = "xianyu_my_published"
      /\ s[3].act = "ui.tap" /\ s[3].ref = "xianyu_pub_tab_delisted"
  BY <1>1, DeleteV2Script, NavSteps
<1>4. /\ s[6].act = "ui.screenshot" /\ s[8].act = "ui.screenshot" /\ s[10].act = "ui.screenshot"
      /\ s[9].act = "ui.tap" /\ s[9].ref = "xianyu_delete_confirm"
  BY <1>1, DeleteV2Script, OtherFields
<1>5. /\ s[5].act = "ui.tap" /\ s[5].ref = "xianyu_detail_manage"
      /\ s[7].act = "ui.tap" /\ s[7].ref = "xianyu_manage_delete"
  BY <1>1, DeleteV2Script, TapField
<1>6. s[4].act = "ui.tapCardByTitle" /\ s[11].act = "run.log"
  BY <1>1, DeleteV2Script, CardField, LogField
<1>7. Hits(s, "ui.tapLayout", "confirm_delist") = {} /\ Hits(s, "ui.tapLayout", "confirm_delete") = {}
  BY <1>2, <1>3, <1>4, <1>5, <1>6 DEF Hits
<1>8. Hits(s, "ui.tap", "xianyu_delete_confirm") = {9} /\ Hits(s, "ui.tap", "xianyu_publish_button") = {}
  BY <1>2, <1>3, <1>4, <1>5, <1>6 DEF Hits
<1>9. 9 \in DOMAIN s /\ Strikes(s) = {9}
  BY <1>2, <1>7, <1>8 DEF Strikes
<1>10. 8 \in Having(s, "ui.screenshot") /\ 10 \in Having(s, "ui.screenshot") /\ 2 \in Hits(s, "ui.tap", "xianyu_my_published")
  BY <1>2, <1>3, <1>4, <1>5, <1>6 DEF Having, Hits
<1>11. GuardedStrike(s)
  BY <1>9, <1>10 DEF GuardedStrike
<1> QED BY <1>1, <1>8, <1>11, NotPublish

LEMMA Ledgered ==
  ASSUME NEW s, IsScript(s), NEW c \in Destructive, c \in MaintenanceMatches(s)
  PROVE  LedgerCommand(s) = c /\ GuardedStrike(s)
<1>1. MaintenanceMatches(s) = {c}
  BY OneShape
<1>2. \A d \in V1Commands : MatchesV1(d, s) => d = c
  BY <1>1 DEF MaintenanceMatches
<1>3. \A d \in V2Commands : MatchesV2(d, s) => d = c
  BY <1>1 DEF MaintenanceMatches
<1>4. /\ "delist.v1" \in V1Commands /\ "delete.v1" \in V1Commands
      /\ "delist.v2" \in V2Commands /\ "delete.v2" \in V2Commands
      /\ V2Sequence("delist.v2") = BuildDelistV2 /\ V2Sequence("delete.v2") = BuildDeleteV2
      /\ "delist.v2" \notin V1Commands /\ "delete.v2" \notin V1Commands
      /\ "delist.v1" \notin V2Commands /\ "delete.v1" \notin V2Commands
  BY DEF V1Commands, V2Commands, V2Sequence
<1>5. CASE c = "delist.v1"
  <2>1. MatchesV1("delist.v1", s)
    BY <1>4, <1>5 DEF MaintenanceMatches
  <2>2. GuardedStrike(s) /\ ~PublishShape(s)
    BY <2>1, DelistGuarded
  <2> QED BY <1>5, <2>1, <2>2 DEF LedgerCommand
<1>6. CASE c = "delete.v1"
  <2>1. MatchesV1("delete.v1", s)
    BY <1>4, <1>6 DEF MaintenanceMatches
  <2>2. GuardedStrike(s) /\ ~PublishShape(s)
    BY <2>1, DeleteGuarded
  <2>3. ~MatchesV1("delist.v1", s)
    BY <1>2, <1>4, <1>6
  <2> QED BY <1>6, <2>1, <2>2, <2>3 DEF LedgerCommand
<1>7. CASE c = "delist.v2"
  <2>1. MatchesV2("delist.v2", s)
    BY <1>4, <1>7 DEF MaintenanceMatches
  <2>2. GuardedStrike(s) /\ ~PublishShape(s)
    BY <1>4, <2>1, DelistV2Guarded DEF MatchesV2
  <2>3. ~MatchesV1("delist.v1", s) /\ ~MatchesV1("delete.v1", s)
    BY <1>2, <1>4, <1>7
  <2> QED BY <1>7, <2>1, <2>2, <2>3 DEF LedgerCommand
<1>8. CASE c = "delete.v2"
  <2>1. MatchesV2("delete.v2", s)
    BY <1>4, <1>8 DEF MaintenanceMatches
  <2>2. GuardedStrike(s) /\ ~PublishShape(s)
    BY <1>4, <2>1, DeleteV2Guarded DEF MatchesV2
  <2>3. ~MatchesV1("delist.v1", s) /\ ~MatchesV1("delete.v1", s) /\ ~MatchesV2("delist.v2", s)
    BY <1>2, <1>3, <1>4, <1>8
  <2> QED BY <1>8, <2>1, <2>2, <2>3 DEF LedgerCommand
<1> QED BY <1>5, <1>6, <1>7, <1>8 DEF Destructive

(* The scripts of the builders have the shape of their command.            *)
LEMMA PolishBuilt == Gate(BuildPolish) = "polish.v1"
<1>1. PICK s : s = BuildPolish
  OBVIOUS
<1>2. DOMAIN s = 1 .. 5 /\ IsScript(s)
  BY <1>1, PolishScript
<1>3. s[1].act = "ui.tap" /\ s[1].ref = "xianyu_profile_tab" /\ s[2].act = "ui.tap" /\ s[2].ref = "xianyu_my_published"
  BY <1>1, PolishScript, NavSteps
<1>4. s[3].act = "ui.tapLayout" /\ s[3].ref = "polish_all" /\ s[3].tab = "onsale" /\ s[3].num = 0
  BY <1>1, PolishScript, LayoutField
<1>5. s[4].act = "ui.screenshot"
  BY <1>1, PolishScript, OtherFields
<1>6. s[5].act = "run.log" /\ s[5].ref = "XIANYU_POLISH_DONE"
  BY <1>1, PolishScript, LogField
<1>7. /\ Hits(s, "ui.tap", "xianyu_profile_tab") = {1} /\ Hits(s, "ui.tap", "xianyu_my_published") = {2}
      /\ Having(s, "ui.tap") = {1, 2}
  BY <1>2, <1>3, <1>4, <1>5, <1>6 DEF Hits, Having
<1>8. Hits(s, "ui.tapLayout", "polish_all") = {3} /\ Having(s, "ui.tapLayout") = {3}
  BY <1>2, <1>3, <1>4, <1>5, <1>6 DEF Hits, Having
<1>9. Having(s, "ui.assertBadge") = {} /\ 4 \in Having(s, "ui.screenshot") /\ 5 \in Hits(s, "run.log", "XIANYU_POLISH_DONE")
  BY <1>2, <1>3, <1>4, <1>5, <1>6 DEF Hits, Having
<1>10. /\ First(s, "ui.tap", "xianyu_profile_tab") = 1 /\ First(s, "ui.tap", "xianyu_my_published") = 2
       /\ Once(s, "ui.tap", "xianyu_profile_tab") /\ Once(s, "ui.tap", "xianyu_my_published")
       /\ Once(s, "ui.tapLayout", "polish_all") /\ First(s, "ui.tapLayout", "polish_all") = 3
  BY <1>7, <1>8, SingleHit
<1>11. Taps(s, {"xianyu_profile_tab", "xianyu_my_published"})
  BY <1>3, <1>7, <1>8, <1>10 DEF Taps
<1>12. Layouts(s, [l \in {"polish_all"} |-> Slot("onsale", 0)])
  BY <1>4, <1>8, <1>10 DEF Layouts, Slot
<1>13. ShotAfter(s, "ui.tapLayout", "polish_all")
  BY <1>9, <1>10 DEF ShotAfter
<1>14. MatchesV1("polish.v1", s)
  BY <1>9, <1>11, <1>12, <1>13, PolishMatches
<1>15. "polish.v1" \in MaintenanceMatches(s)
  BY <1>14 DEF MaintenanceMatches, V1Commands
<1>16. Uses(s, MaintenanceActions)
  BY <1>2, <1>4 DEF Uses, MaintenanceActions
<1> QED BY <1>1, <1>2, <1>15, <1>16, ShapeAdmitted

LEMMA DelistBuilt == Gate(BuildDelist) = "delist.v1"
<1>1. PICK s : s = BuildDelist
  OBVIOUS
<1>2. DOMAIN s = 1 .. 10 /\ IsScript(s)
  BY <1>1, DelistScript
<1>3. s[1].act = "ui.tap" /\ s[1].ref = "xianyu_profile_tab" /\ s[2].act = "ui.tap" /\ s[2].ref = "xianyu_my_published"
  BY <1>1, DelistScript, NavSteps
<1>4. /\ s[3].act = "ui.tapLayout" /\ s[3].ref = "more" /\ s[3].tab = "onsale" /\ s[3].num = 0
      /\ s[5].act = "ui.tapLayout" /\ s[5].ref = "delist_menu_item" /\ s[5].tab = "onsale" /\ s[5].num = 0
      /\ s[7].act = "ui.tapLayout" /\ s[7].ref = "confirm_delist" /\ s[7].tab = "onsale" /\ s[7].num = 0
  BY <1>1, DelistScript, LayoutField
<1>5. s[4].act = "ui.screenshot" /\ s[6].act = "ui.screenshot" /\ s[9].act = "ui.screenshot"
  BY <1>1, DelistScript, OtherFields
<1>6. s[10].act = "run.log" /\ s[10].ref = "XIANYU_DELIST_DONE"
  BY <1>1, DelistScript, LogField
<1>7. s[8].act = "ui.assertBadge" /\ s[8].ref = "xianyu_pub_tab_onsale" /\ s[8].num = -1
  <2>1. s[8] = BadgeStep
    BY <1>1, DelistScript
  <2>2. BadgeStep.act = "ui.assertBadge" /\ BadgeStep.ref = "xianyu_pub_tab_onsale" /\ BadgeStep.num = -1
    BY DEF BadgeStep, Step
  <2> QED BY <2>1, <2>2
<1>8. /\ Hits(s, "ui.tap", "xianyu_profile_tab") = {1} /\ Hits(s, "ui.tap", "xianyu_my_published") = {2}
      /\ Having(s, "ui.tap") = {1, 2}
  BY <1>2, <1>3, <1>4, <1>5, <1>6, <1>7 DEF Hits, Having
<1>9. /\ Hits(s, "ui.tapLayout", "more") = {3} /\ Hits(s, "ui.tapLayout", "delist_menu_item") = {5}
      /\ Hits(s, "ui.tapLayout", "confirm_delist") = {7} /\ Having(s, "ui.tapLayout") = {3, 5, 7}
  BY <1>2, <1>3, <1>4, <1>5, <1>6, <1>7 DEF Hits, Having
<1>10. /\ Having(s, "ui.assertBadge") = {8} /\ Hits(s, "ui.assertBadge", "xianyu_pub_tab_onsale") = {8}
       /\ 4 \in Having(s, "ui.screenshot") /\ 6 \in Having(s, "ui.screenshot") /\ 9 \in Having(s, "ui.screenshot")
       /\ 10 \in Hits(s, "run.log", "XIANYU_DELIST_DONE")
  BY <1>2, <1>3, <1>4, <1>5, <1>6, <1>7 DEF Hits, Having
<1>11. /\ First(s, "ui.tap", "xianyu_profile_tab") = 1 /\ First(s, "ui.tap", "xianyu_my_published") = 2
       /\ Once(s, "ui.tap", "xianyu_profile_tab") /\ Once(s, "ui.tap", "xianyu_my_published")
  BY <1>8, SingleHit
<1>12. /\ First(s, "ui.tapLayout", "more") = 3 /\ First(s, "ui.tapLayout", "delist_menu_item") = 5
       /\ First(s, "ui.tapLayout", "confirm_delist") = 7
       /\ Once(s, "ui.tapLayout", "more") /\ Once(s, "ui.tapLayout", "delist_menu_item")
       /\ Once(s, "ui.tapLayout", "confirm_delist")
  BY <1>9, SingleHit
<1>13. First(s, "ui.assertBadge", "xianyu_pub_tab_onsale") = 8
  BY <1>10, SingleHit
<1>14. Taps(s, {"xianyu_profile_tab", "xianyu_my_published"})
  BY <1>3, <1>8, <1>9, <1>11 DEF Taps
<1>15. Layouts(s, [l \in {"more", "delist_menu_item", "confirm_delist"} |-> Slot("onsale", 0)])
  BY <1>4, <1>9, <1>12 DEF Layouts, Slot
<1>16. /\ ShotAfter(s, "ui.assertBadge", "xianyu_pub_tab_onsale")
       /\ ShotWithin(s, "more", "delist_menu_item") /\ ShotWithin(s, "delist_menu_item", "confirm_delist")
  BY <1>10, <1>12, <1>13 DEF ShotAfter, ShotWithin
<1>17. Cardinality(Having(s, "ui.assertBadge")) = 1
  BY <1>10, FS_Singleton
<1>18. MatchesV1("delist.v1", s)
  BY <1>7, <1>10, <1>12, <1>13, <1>14, <1>15, <1>16, <1>17, DelistMatches
<1>19. "delist.v1" \in MaintenanceMatches(s)
  BY <1>18 DEF MaintenanceMatches, V1Commands
<1>20. Uses(s, MaintenanceActions)
  BY <1>2, <1>4 DEF Uses, MaintenanceActions
<1> QED BY <1>1, <1>2, <1>19, <1>20, ShapeAdmitted

LEMMA DeleteBuilt ==
  ASSUME NEW card \in 0 .. 2
  PROVE  Gate(BuildDelete(card)) = "delete.v1"
<1>1. PICK s : s = BuildDelete(card)
  OBVIOUS
<1>2. DOMAIN s = 1 .. 8 /\ IsScript(s)
  BY <1>1, DeleteScript
<1>3. /\ s[1].act = "ui.tap" /\ s[1].ref = "xianyu_profile_tab" /\ s[2].act = "ui.tap" /\ s[2].ref = "xianyu_my_published"
      /\ s[3].act = "ui.tap" /\ s[3].ref = "xianyu_pub_tab_delisted"
  BY <1>1, DeleteScript, NavSteps
<1>4. /\ s[4].act = "ui.tapLayout" /\ s[4].ref = "delete_card" /\ s[4].tab = "delisted" /\ s[4].num = card
      /\ s[6].act = "ui.tapLayout" /\ s[6].ref = "confirm_delete" /\ s[6].tab = "delisted" /\ s[6].num = 0
  BY <1>1, DeleteScript, LayoutField
<1>5. s[5].act = "ui.screenshot" /\ s[7].act = "ui.screenshot"
  BY <1>1, DeleteScript, OtherFields
<1>6. s[8].act = "run.log" /\ s[8].ref = "XIANYU_DELETE_DELISTED_DONE"
  BY <1>1, DeleteScript, LogField
<1>7. /\ Hits(s, "ui.tap", "xianyu_profile_tab") = {1} /\ Hits(s, "ui.tap", "xianyu_my_published") = {2}
      /\ Hits(s, "ui.tap", "xianyu_pub_tab_delisted") = {3} /\ Having(s, "ui.tap") = {1, 2, 3}
  BY <1>2, <1>3, <1>4, <1>5, <1>6 DEF Hits, Having
<1>8. /\ Hits(s, "ui.tapLayout", "delete_card") = {4} /\ Hits(s, "ui.tapLayout", "confirm_delete") = {6}
      /\ Having(s, "ui.tapLayout") = {4, 6}
  BY <1>2, <1>3, <1>4, <1>5, <1>6 DEF Hits, Having
<1>9. /\ Having(s, "ui.assertBadge") = {} /\ 5 \in Having(s, "ui.screenshot") /\ 7 \in Having(s, "ui.screenshot")
      /\ 8 \in Hits(s, "run.log", "XIANYU_DELETE_DELISTED_DONE")
  BY <1>2, <1>3, <1>4, <1>5, <1>6 DEF Hits, Having
<1>10. /\ First(s, "ui.tap", "xianyu_profile_tab") = 1 /\ First(s, "ui.tap", "xianyu_my_published") = 2
       /\ First(s, "ui.tap", "xianyu_pub_tab_delisted") = 3
       /\ Once(s, "ui.tap", "xianyu_profile_tab") /\ Once(s, "ui.tap", "xianyu_my_published")
       /\ Once(s, "ui.tap", "xianyu_pub_tab_delisted")
  BY <1>7, SingleHit
<1>11. /\ First(s, "ui.tapLayout", "delete_card") = 4 /\ First(s, "ui.tapLayout", "confirm_delete") = 6
       /\ Once(s, "ui.tapLayout", "delete_card") /\ Once(s, "ui.tapLayout", "confirm_delete")
  BY <1>8, SingleHit
<1>12. Taps(s, {"xianyu_profile_tab", "xianyu_my_published", "xianyu_pub_tab_delisted"})
  BY <1>3, <1>7, <1>8, <1>10 DEF Taps
<1>13. Layouts(s, [l \in {"delete_card", "confirm_delete"} |->
                     Slot("delisted", IF l = "delete_card" THEN 2 ELSE 0)])
  BY <1>4, <1>8, <1>11 DEF Layouts, Slot
<1>14. ShotAfter(s, "ui.tapLayout", "confirm_delete") /\ ShotWithin(s, "delete_card", "confirm_delete")
  BY <1>9, <1>11 DEF ShotAfter, ShotWithin
<1>15. MatchesV1("delete.v1", s)
  BY <1>9, <1>12, <1>13, <1>14, DeleteMatches
<1>16. "delete.v1" \in MaintenanceMatches(s)
  BY <1>15 DEF MaintenanceMatches, V1Commands
<1>17. Uses(s, MaintenanceActions)
  BY <1>2, <1>4 DEF Uses, MaintenanceActions
<1> QED BY <1>1, <1>2, <1>16, <1>17, ShapeAdmitted

LEMMA V2Built == Gate(BuildDelistV2) = "delist.v2" /\ Gate(BuildDeleteV2) = "delete.v2"
<1>1. PICK s, r : s = BuildDelistV2 /\ r = BuildDeleteV2
  OBVIOUS
<1>2. 3 \in DOMAIN s /\ 4 \in DOMAIN r /\ IsScript(s) /\ IsScript(r)
  BY <1>1, DelistV2Script, DeleteV2Script
<1>3. s[3].act = "ui.tapCardByTitle" /\ r[4].act = "ui.tapCardByTitle"
  BY <1>1, DelistV2Script, DeleteV2Script, CardField
<1>4. Uses(s, MaintenanceActions) /\ Uses(r, MaintenanceActions)
  BY <1>2, <1>3 DEF Uses, MaintenanceActions
<1>5. "delist.v2" \in MaintenanceMatches(s) /\ "delete.v2" \in MaintenanceMatches(r)
  BY <1>1 DEF MaintenanceMatches, MatchesV2, V2Commands, V2Sequence
<1> QED BY <1>1, <1>2, <1>4, <1>5, ShapeAdmitted

LEMMA FunctionScript ==
  ASSUME NEW m, NEW n \in Nat, NEW S, m \in [1 .. n -> S]
  PROVE  IsScript(m) /\ Len(m) = n
<1>1. m \in Seq(S) /\ Len(m) = n
  OBVIOUS
<1> QED BY <1>1, Zenon DEF IsScript

(* Order collection of n screens                                           *)
LEMMA MoreScript ==
  ASSUME NEW n \in 1 .. 3, NEW d, NEW k, NEW m, m = MoreScreens(n, d, k)
  PROVE  /\ IsScript(m) /\ Len(m) = 2 * (n - 1)
         /\ \A i \in 1 .. (2 * (n - 1)) : m[i] = Swipe \/ m[i] = Read(d, k)
         /\ n > 1 => m[1] = Swipe /\ m[2] = Read(d, k)
         /\ n > 2 => m[3] = Swipe /\ m[4] = Read(d, k)
<1>1. m = [i \in 1 .. (2 * (n - 1)) |-> IF i % 2 = 1 THEN Swipe ELSE Read(d, k)]
  BY DEF MoreScreens
<1>2. PICK w, r : w = Swipe /\ r = Read(d, k)
  OBVIOUS
<1>3. m \in [1 .. (2 * (n - 1)) -> {w, r}] /\ 2 * (n - 1) \in Nat
  BY <1>1, <1>2
<1>4. IsScript(m) /\ Len(m) = 2 * (n - 1)
  BY <1>3, FunctionScript
<1>5. \A i \in 1 .. (2 * (n - 1)) : m[i] = w \/ m[i] = r
  BY <1>3
<1>6. n > 1 => 1 \in 1 .. (2 * (n - 1)) /\ 2 \in 1 .. (2 * (n - 1))
  OBVIOUS
<1>7. n > 2 => 3 \in 1 .. (2 * (n - 1)) /\ 4 \in 1 .. (2 * (n - 1))
  OBVIOUS
<1>8. 1 % 2 = 1 /\ 2 % 2 = 0 /\ 3 % 2 = 1 /\ 4 % 2 = 0
  OBVIOUS
<1>9. n > 1 => m[1] = Swipe /\ m[2] = Read(d, k)
  BY <1>1, <1>6, <1>8
<1>10. n > 2 => m[3] = Swipe /\ m[4] = Read(d, k)
  BY <1>1, <1>7, <1>8
<1> QED BY <1>2, <1>4, <1>5, <1>9, <1>10

LEMMA EntryField == \A d : Entry(d) = "xianyu_order_list_sold" \/ Entry(d) = "xianyu_order_list_bought"
BY DEF Entry

LEMMA OrdersScript ==
  ASSUME NEW n \in 1 .. 3, NEW d, NEW k, NEW s, s = BuildOrders(n, d, k)
  PROVE  /\ IsScript(s) /\ DOMAIN s = 1 .. (2 * n + 3)
         /\ s[1] = Nav /\ s[2] = Tap(Entry(d)) /\ s[3] = Read(d, k)
         /\ \A i \in 4 .. (2 * n + 1) : s[i] = Swipe \/ s[i] = Read(d, k)
         /\ n > 1 => s[4] = Swipe /\ s[5] = Read(d, k)
         /\ n > 2 => s[6] = Swipe /\ s[7] = Read(d, k)
         /\ s[2 * n + 2] = Shot /\ s[2 * n + 3] = Log("XIANYU_COLLECT_ORDERS_DONE")
<1>1. PICK x : x = <<Nav, Tap(Entry(d)), Read(d, k)>>
  OBVIOUS
<1>2. PICK y : y = <<Shot, Log("XIANYU_COLLECT_ORDERS_DONE")>>
  OBVIOUS
<1>3. PICK m : m = MoreScreens(n, d, k)
  OBVIOUS
<1>4. s = x \o m \o y
  BY <1>1, <1>2, <1>3 DEF BuildOrders, Nav
<1>5. Len(x) = 3 /\ x[1] = Nav /\ x[2] = Tap(Entry(d)) /\ x[3] = Read(d, k)
  BY <1>1
<1>6. IsScript(x)
  <2>1. PICK S : S = {x[1], x[2], x[3]}
    OBVIOUS
  <2>2. x \in Seq(S)
    BY <1>1, <1>5, <2>1
  <2> QED BY <2>2, Zenon DEF IsScript
<1>7. Len(y) = 2 /\ y[1] = Shot /\ y[2] = Log("XIANYU_COLLECT_ORDERS_DONE")
  BY <1>2
<1>8. IsScript(y)
  <2>1. PICK S : S = {y[1], y[2]}
    OBVIOUS
  <2>2. y \in Seq(S)
    BY <1>2, <1>7, <2>1
  <2> QED BY <2>2, Zenon DEF IsScript
<1>9. IsScript(m) /\ Len(m) = 2 * (n - 1)
  BY <1>3, MoreScript
<1>10. PICK z : z = x \o m
  OBVIOUS
<1>11. IsScript(z) /\ Len(z) = Len(x) + Len(m)
  BY <1>6, <1>9, <1>10, Joined
<1>12. \A i \in 1 .. Len(x) : z[i] = x[i]
  BY <1>6, <1>9, <1>10, Joined
<1>13. \A i \in 1 .. Len(m) : z[Len(x) + i] = m[i]
  BY <1>6, <1>9, <1>10, Joined
<1>14. s = z \o y
  BY <1>4, <1>10
<1>15. IsScript(s) /\ DOMAIN s = 1 .. (Len(z) + Len(y))
  BY <1>8, <1>11, <1>14, Joined
<1>16. \A i \in 1 .. Len(z) : s[i] = z[i]
  BY <1>8, <1>11, <1>14, Joined
<1>17. \A i \in 1 .. Len(y) : s[Len(z) + i] = y[i]
  BY <1>8, <1>11, <1>14, Joined
<1>18. Len(z) = 2 * n + 1 /\ Len(x) = 3
  BY <1>5, <1>9, <1>11
<1>19. s[1] = Nav /\ s[2] = Tap(Entry(d)) /\ s[3] = Read(d, k)
  BY <1>5, <1>12, <1>16, <1>18
<1>20. s[2 * n + 1 + 1] = y[1] /\ s[2 * n + 1 + 2] = y[2]
  BY <1>7, <1>17, <1>18
<1>21. s[2 * n + 2] = Shot /\ s[2 * n + 3] = Log("XIANYU_COLLECT_ORDERS_DONE")
  <2>1. 2 * n + 1 + 1 = 2 * n + 2 /\ 2 * n + 1 + 2 = 2 * n + 3
    OBVIOUS
  <2> QED BY <1>7, <1>20, <2>1
<1>22. \A i \in 1 .. (2 * (n - 1)) : s[3 + i] = m[i]
  BY <1>9, <1>13, <1>16, <1>18
<1>23. \A i \in 4 .. (2 * n + 1) : s[i] = Swipe \/ s[i] = Read(d, k)
  <2>1. ASSUME NEW i \in 4 .. (2 * n + 1) PROVE s[i] = Swipe \/ s[i] = Read(d, k)
    <3>1. PICK j \in 1 .. (2 * (n - 1)) : i = 3 + j
      <4>1. i - 3 \in 1 .. (2 * (n - 1)) /\ i = 3 + (i - 3)
        OBVIOUS
      <4> QED BY <4>1
    <3>2. m[j] = Swipe \/ m[j] = Read(d, k)
      BY <1>3, <3>1, MoreScript
    <3> QED BY <1>22, <3>1, <3>2
  <2> QED BY <2>1
<1>24. n > 1 => s[4] = Swipe /\ s[5] = Read(d, k)
  <2> SUFFICES ASSUME n > 1 PROVE s[4] = Swipe /\ s[5] = Read(d, k)
    OBVIOUS
  <2>1. m[1] = Swipe /\ m[2] = Read(d, k)
    BY <1>3, MoreScript
  <2>2. s[3 + 1] = m[1] /\ s[3 + 2] = m[2]
    BY <1>22
  <2> QED BY <2>1, <2>2
<1>25. n > 2 => s[6] = Swipe /\ s[7] = Read(d, k)
  <2> SUFFICES ASSUME n > 2 PROVE s[6] = Swipe /\ s[7] = Read(d, k)
    OBVIOUS
  <2>1. m[3] = Swipe /\ m[4] = Read(d, k)
    BY <1>3, MoreScript
  <2>2. s[3 + 3] = m[3] /\ s[3 + 4] = m[4]
    BY <1>22
  <2> QED BY <2>1, <2>2
<1>26. DOMAIN s = 1 .. (2 * n + 3)
  BY <1>7, <1>15, <1>18
<1> QED BY <1>15, <1>19, <1>21, <1>23, <1>24, <1>25, <1>26

(* Steps that change nothing on the marketplace.                           *)
MildStep(x) ==
    /\ x.act \notin MaintenanceActions
    /\ x.act = "ui.tap" => x.ref \notin StrikeTaps

LEMMA MildScript ==
  ASSUME NEW s, \A i \in DOMAIN s : MildStep(s[i])
  PROVE  Strikes(s) = {} /\ ~Uses(s, MaintenanceActions)
<1>1. Hits(s, "ui.tapLayout", "confirm_delist") = {} /\ Hits(s, "ui.tapLayout", "confirm_delete") = {}
  BY DEF Hits, MildStep, MaintenanceActions
<1>2. Hits(s, "ui.tap", "xianyu_delete_confirm") = {} /\ Hits(s, "ui.tap", "xianyu_publish_button") = {}
  BY DEF Hits, MildStep, StrikeTaps
<1> QED BY <1>1, <1>2 DEF Strikes, Uses, MildStep

LEMMA MildSteps ==
  /\ MildStep(Nav) /\ MildStep(Shot) /\ MildStep(Swipe) /\ MildStep(Review)
  /\ \A d : MildStep(Tap(Entry(d)))
  /\ \A d, k : MildStep(Read(d, k))
  /\ \A r : MildStep(Log(r))
<1>1. MildStep(Nav)
  BY NavSteps DEF MildStep, MaintenanceActions, StrikeTaps
<1>2. MildStep(Shot) /\ MildStep(Swipe) /\ MildStep(Review)
  BY OtherFields DEF MildStep, MaintenanceActions
<1>3. \A d : MildStep(Tap(Entry(d)))
  BY EntryField, TapField DEF MildStep, MaintenanceActions, StrikeTaps
<1>4. \A d, k : MildStep(Read(d, k))
  BY ReadField DEF MildStep, MaintenanceActions
<1>5. \A r : MildStep(Log(r))
  BY LogField DEF MildStep, MaintenanceActions
<1> QED BY <1>1, <1>2, <1>3, <1>4, <1>5

LEMMA OrdersMild ==
  ASSUME NEW n \in 1 .. 3, NEW d, NEW k, NEW s, s = BuildOrders(n, d, k), NEW i \in DOMAIN s
  PROVE  MildStep(s[i])
<1>1. DOMAIN s = 1 .. (2 * n + 3)
  BY OrdersScript
<1>2. i = 1 \/ i = 2 \/ i = 3 \/ i \in 4 .. (2 * n + 1) \/ i = 2 * n + 2 \/ i = 2 * n + 3
  BY <1>1
<1>3. s[1] = Nav /\ s[2] = Tap(Entry(d)) /\ s[3] = Read(d, k)
  BY OrdersScript
<1>4. \A j \in 4 .. (2 * n + 1) : s[j] = Swipe \/ s[j] = Read(d, k)
  BY OrdersScript
<1>5. s[2 * n + 2] = Shot /\ s[2 * n + 3] = Log("XIANYU_COLLECT_ORDERS_DONE")
  BY OrdersScript
<1> QED BY <1>2, <1>3, <1>4, <1>5, MildSteps

LEMMA OrdersReads ==
  ASSUME NEW n \in 1 .. 3, NEW d, NEW k, NEW s, s = BuildOrders(n, d, k)
  PROVE  Having(s, "ui.readOrders") = {2 * j + 1 : j \in 1 .. n}
<1>1. DOMAIN s = 1 .. (2 * n + 3)
  BY OrdersScript
<1>2. s[1] = Nav /\ s[2] = Tap(Entry(d)) /\ s[3] = Read(d, k)
  BY OrdersScript
<1>3. /\ n > 1 => s[4] = Swipe /\ s[5] = Read(d, k)
      /\ n > 2 => s[6] = Swipe /\ s[7] = Read(d, k)
  BY OrdersScript
<1>4. s[2 * n + 2] = Shot /\ s[2 * n + 3] = Log("XIANYU_COLLECT_ORDERS_DONE")
  BY OrdersScript
<1>5. s[1].act = "ui.tap"
  BY <1>2, NavSteps
<1>6. s[2].act = "ui.tap"
  BY <1>2, TapField
<1>7. s[3].act = "ui.readOrders" /\ (n > 1 => s[5].act = "ui.readOrders") /\ (n > 2 => s[7].act = "ui.readOrders")
  BY <1>2, <1>3, ReadField
<1>8. (n > 1 => s[4].act = "ui.swipeUp") /\ (n > 2 => s[6].act = "ui.swipeUp") /\ s[2 * n + 2].act = "ui.screenshot"
  BY <1>3, <1>4, OtherFields
<1>9. s[2 * n + 3].act = "run.log"
  BY <1>4, LogField
<1>10. CASE n = 1
  BY <1>1, <1>5, <1>6, <1>7, <1>8, <1>9, <1>10 DEF Having
<1>11. CASE n = 2
  BY <1>1, <1>5, <1>6, <1>7, <1>8, <1>9, <1>11 DEF Having
<1>12. CASE n = 3
  BY <1>1, <1>5, <1>6, <1>7, <1>8, <1>9, <1>12 DEF Having
<1> QED BY <1>10, <1>11, <1>12

LEMMA OrdersBuilt ==
  ASSUME NEW n \in 1 .. 3, NEW d \in {"SOLD", "BOUGHT"}, NEW k \in 1 .. 10
  PROVE  Gate(BuildOrders(n, d, k)) = IF n = 1 THEN "orders.v1" ELSE "orders.v2"
<1>1. PICK s : s = BuildOrders(n, d, k)
  OBVIOUS
<1>2. ~Uses(s, MaintenanceActions)
  BY <1>1, OrdersMild, MildScript
<1>3. Having(s, "ui.readOrders") = {2 * j + 1 : j \in 1 .. n}
  BY <1>1, OrdersReads
<1>4. Cardinality({2 * j + 1 : j \in 1 .. n}) = n
  <2>1. CASE n = 1
    <3>1. {2 * j + 1 : j \in 1 .. n} = {3}
      BY <2>1
    <3> QED BY <2>1, <3>1, FS_Singleton
  <2>2. CASE n = 2
    <3>1. {2 * j + 1 : j \in 1 .. n} = {3} \cup {5}
      BY <2>2
    <3>2. IsFiniteSet({3}) /\ Cardinality({3}) = 1
      BY FS_Singleton
    <3>3. 5 \notin {3} /\ 1 + 1 = 2
      OBVIOUS
    <3>4. Cardinality({3} \cup {5}) = 2
      BY <3>2, <3>3, FS_AddElement
    <3> QED BY <2>2, <3>1, <3>4
  <2>3. CASE n = 3
    <3>1. {2 * j + 1 : j \in 1 .. n} = ({3} \cup {5}) \cup {7}
      BY <2>3
    <3>2. IsFiniteSet({3}) /\ Cardinality({3}) = 1
      BY FS_Singleton
    <3>3. Cardinality({3} \cup {5}) = 2 /\ IsFiniteSet({3} \cup {5}) /\ 7 \notin {3} \cup {5}
      <4>1. 5 \notin {3} /\ 7 \notin {3} \cup {5}
        OBVIOUS
      <4> QED BY <3>2, <4>1, FS_AddElement
    <3>4. Cardinality(({3} \cup {5}) \cup {7}) = 3
      BY <3>3, FS_AddElement
    <3> QED BY <2>3, <3>1, <3>4
  <2> QED BY <2>1, <2>2, <2>3
<1>5. OrdersScreens(s) = n
  BY <1>3, <1>4 DEF OrdersScreens
<1>6. Min(Having(s, "ui.readOrders")) = 3
  <2>1. 3 \in Having(s, "ui.readOrders") /\ \A j \in Having(s, "ui.readOrders") : j \in Nat /\ 3 <= j
    BY <1>3
  <2> QED BY <2>1 DEF Min
<1>7. s[3] = Read(d, k) /\ 3 \in DOMAIN s
  BY <1>1, OrdersScript
<1>8. s[3].tab = d /\ s[3].num = k /\ s[3].act = "ui.readOrders"
  BY <1>7, ReadField
<1>9. OrdersMatch(s)
  BY <1>1, <1>5, <1>6, <1>8 DEF OrdersMatch
<1>10. Uses(s, {"ui.readOrders", "ui.swipeUp"})
  BY <1>7, <1>8 DEF Uses
<1> QED BY <1>1, <1>2, <1>5, <1>9, <1>10 DEF Gate

(* The review loop                                                         *)
LEMMA ReviewSteps ==
  /\ IsScript(ReviewScript) /\ DOMAIN ReviewScript = 1 .. 6 /\ ReviewScript[1] = Nav
  /\ ReviewScript[2] = Tap("xianyu_order_list_sold") /\ ReviewScript[3] = Tap("xianyu_orders_tab_pending")
  /\ ReviewScript[4] = Review /\ ReviewScript[5] = Shot /\ ReviewScript[6] = Log("XIANYU_REVIEW_DONE")
<1>1. PICK y : y = ReviewScript
  OBVIOUS
<1>2. y = <<Nav, Tap("xianyu_order_list_sold"), Tap("xianyu_orders_tab_pending"), Review, Shot,
            Log("XIANYU_REVIEW_DONE")>>
  BY <1>1 DEF ReviewScript, Nav
<1>3. /\ DOMAIN y = 1 .. 6 /\ y[1] = Nav /\ y[2] = Tap("xianyu_order_list_sold")
      /\ y[3] = Tap("xianyu_orders_tab_pending") /\ y[4] = Review /\ y[5] = Shot /\ y[6] = Log("XIANYU_REVIEW_DONE")
  BY <1>2
<1>4. IsScript(y)
  <2>1. PICK S : S = {y[1], y[2], y[3], y[4], y[5], y[6]}
    OBVIOUS
  <2>2. y \in Seq(S)
    BY <1>2, <1>3, <2>1
  <2> QED BY <2>2, Zenon DEF IsScript
<1> QED BY <1>1, <1>3, <1>4

LEMMA ReviewMild == Strikes(ReviewScript) = {} /\ Gate(ReviewScript) = "review.v1"
<1>1. PICK s : s = ReviewScript
  OBVIOUS
<1>2. /\ DOMAIN s = 1 .. 6 /\ s[1] = Nav /\ s[2] = Tap("xianyu_order_list_sold")
      /\ s[3] = Tap("xianyu_orders_tab_pending") /\ s[4] = Review /\ s[5] = Shot /\ s[6] = Log("XIANYU_REVIEW_DONE")
  BY <1>1, ReviewSteps
<1>3. MildStep(s[2]) /\ MildStep(s[3])
  BY <1>2, TapField DEF MildStep, MaintenanceActions, StrikeTaps
<1>4. \A i \in DOMAIN s : MildStep(s[i])
  BY <1>2, <1>3, MildSteps
<1>5. Strikes(s) = {} /\ ~Uses(s, MaintenanceActions)
  BY <1>4, MildScript
<1>6. s[1].act = "ui.tap"
  BY <1>2, NavSteps
<1>7. s[2].act = "ui.tap" /\ s[3].act = "ui.tap"
  BY <1>2, TapField
<1>8. s[4].act = "xianyu.reviewOrders" /\ s[5].act = "ui.screenshot"
  BY <1>2, OtherFields
<1>9. s[6].act = "run.log"
  BY <1>2, LogField
<1>10. ~Uses(s, {"ui.readOrders", "ui.swipeUp"}) /\ Uses(s, {"xianyu.reviewOrders"})
  BY <1>2, <1>6, <1>7, <1>8, <1>9 DEF Uses
<1> QED BY <1>1, <1>5, <1>10 DEF Gate

(* Scripts no validator looks at: replies and publishing.                  *)
PlainActions == {"ui.find", "ui.tap", "ui.tapText", "ui.wait", "ui.input", "ui.screenshot", "run.log"}
PlainScript(s) == IsScript(s) /\ \A i \in DOMAIN s : s[i].act \in PlainActions

LEMMA PlainGate ==
  ASSUME NEW s, PlainScript(s)
  PROVE  Gate(s) = "PLAIN"
<1>1. ~Uses(s, MaintenanceActions) /\ ~Uses(s, {"ui.readOrders", "ui.swipeUp"}) /\ ~Uses(s, {"xianyu.reviewOrders"})
  BY DEF PlainScript, PlainActions, Uses, MaintenanceActions
<1> QED BY <1>1 DEF Gate

LEMMA PlainJoin ==
  ASSUME NEW x, NEW y, PlainScript(x), PlainScript(y)
  PROVE  PlainScript(x \o y)
<1>1. IsScript(x) /\ IsScript(y)
  BY DEF PlainScript
<1>2. PICK s : s = x \o y
  OBVIOUS
<1>3. IsScript(s) /\ DOMAIN s = 1 .. (Len(x) + Len(y))
  BY <1>1, <1>2, Joined
<1>4. \A i \in 1 .. Len(x) : s[i] = x[i]
  BY <1>1, <1>2, Joined
<1>5. \A i \in 1 .. Len(y) : s[Len(x) + i] = y[i]
  BY <1>1, <1>2, Joined
<1>6. ASSUME NEW i \in DOMAIN s PROVE s[i].act \in PlainActions
  <2>1. Len(x) \in Nat /\ Len(y) \in Nat /\ DOMAIN x = 1 .. Len(x) /\ DOMAIN y = 1 .. Len(y)
    BY <1>1, ScriptDomain
  <2>2. CASE i <= Len(x)
    BY <1>3, <1>4, <1>6, <2>1, <2>2 DEF PlainScript
  <2>3. CASE i > Len(x)
    <3>1. PICK j \in 1 .. Len(y) : i = Len(x) + j
      <4>1. i - Len(x) \in 1 .. Len(y) /\ i = Len(x) + (i - Len(x))
        BY <1>3, <1>6, <2>1, <2>3
      <4> QED BY <4>1
    <3> QED BY <1>5, <2>1, <3>1 DEF PlainScript
  <2> QED BY <1>3, <1>6, <2>1, <2>2, <2>3
<1> QED BY <1>2, <1>3, <1>6 DEF PlainScript

LEMMA PlainSteps ==
  /\ \A r : Tap(r).act \in PlainActions
  /\ \A r : Log(r).act \in PlainActions
  /\ Shot.act \in PlainActions
  /\ \A r : \A a \in PlainActions : Do(a, r).act \in PlainActions
<1>1. \A r : Tap(r).act \in PlainActions
  BY TapField DEF PlainActions
<1>2. \A r : Log(r).act \in PlainActions
  BY LogField DEF PlainActions
<1>3. Shot.act \in PlainActions
  BY OtherFields DEF PlainActions
<1>4. \A r : \A a \in PlainActions : Do(a, r).act \in PlainActions
  BY DoField
<1> QED BY <1>1, <1>2, <1>3, <1>4

TapText == Do("ui.tapText", "")

LEMMA ReplyPlain == PlainScript(BuildReply)
<1>1. PICK y : y = BuildReply
  OBVIOUS
<1>2. y = <<Do("ui.find", "xianyu_messages_tab"), Tap("xianyu_messages_tab"), TapText,
            Do("ui.wait", "xianyu_chat_input"), Do("ui.input", "xianyu_chat_input"), Tap("xianyu_chat_send")>>
  BY <1>1 DEF BuildReply, TapText
<1>3. /\ DOMAIN y = 1 .. 6 /\ y[1] = Do("ui.find", "xianyu_messages_tab") /\ y[2] = Tap("xianyu_messages_tab")
      /\ y[3] = TapText /\ y[4] = Do("ui.wait", "xianyu_chat_input")
      /\ y[5] = Do("ui.input", "xianyu_chat_input") /\ y[6] = Tap("xianyu_chat_send")
  BY <1>2
<1>4. IsScript(y)
  <2>1. PICK S : S = {y[1], y[2], y[3], y[4], y[5], y[6]}
    OBVIOUS
  <2>2. y \in Seq(S)
    BY <1>2, <1>3, <2>1
  <2> QED BY <2>2, Zenon DEF IsScript
<1>5. /\ y[1].act \in PlainActions /\ y[2].act \in PlainActions /\ y[4].act \in PlainActions
      /\ y[5].act \in PlainActions /\ y[6].act \in PlainActions
  <2>1. "ui.find" \in PlainActions /\ "ui.input" \in PlainActions /\ "ui.wait" \in PlainActions
    BY DEF PlainActions
  <2> QED BY <1>3, <2>1, PlainSteps
<1>6. y[3].act \in PlainActions
  <2>1. TapText.act = "ui.tapText"
    BY DoField DEF TapText
  <2> QED BY <1>3, <2>1 DEF PlainActions
<1> QED BY <1>1, <1>3, <1>4, <1>5, <1>6 DEF PlainScript

LEMMA OpenPlain == PlainScript(OpenForm)
<1>1. PICK y : y = OpenForm
  OBVIOUS
<1>2. /\ DOMAIN y = 1 .. 4 /\ y[1] = Do("ui.find", "xianyu_home_sell")
      /\ y[2] = Tap("xianyu_home_sell") /\ y[3] = Tap("xianyu_publish_entry")
      /\ y[4] = Do("ui.wait", "xianyu_publish_page")
  BY <1>1 DEF OpenForm
<1>3. IsScript(y)
  <2>1. PICK S : S = {y[1], y[2], y[3], y[4]}
    OBVIOUS
  <2>2. y \in Seq(S)
    BY <1>1, <1>2, <2>1 DEF OpenForm
  <2> QED BY <2>2, Zenon DEF IsScript
<1>4. /\ y[1].act \in PlainActions /\ y[2].act \in PlainActions /\ y[3].act \in PlainActions
      /\ y[4].act \in PlainActions
  <2>1. "ui.find" \in PlainActions /\ "ui.wait" \in PlainActions
    BY DEF PlainActions
  <2> QED BY <1>2, <2>1, PlainSteps
<1> QED BY <1>1, <1>2, <1>3, <1>4 DEF PlainScript

LEMMA MediaPlain == PlainScript(MediaSteps)
<1>1. PICK y : y = MediaSteps
  OBVIOUS
<1>2. /\ DOMAIN y = 1 .. 6 /\ y[1] = Do("ui.wait", "xianyu_add_image")
      /\ y[2] = Tap("xianyu_add_image") /\ y[3] = Tap("xianyu_gallery_select_1")
      /\ y[4] = Tap("xianyu_gallery_next") /\ y[5] = Do("ui.wait", "xianyu_crop_done")
      /\ y[6] = Tap("xianyu_crop_done")
  BY <1>1 DEF MediaSteps
<1>3. IsScript(y)
  <2>1. PICK S : S = {y[1], y[2], y[3], y[4], y[5], y[6]}
    OBVIOUS
  <2>2. y \in Seq(S)
    BY <1>1, <1>2, <2>1 DEF MediaSteps
  <2> QED BY <2>2, Zenon DEF IsScript
<1>4. /\ y[1].act \in PlainActions /\ y[2].act \in PlainActions /\ y[3].act \in PlainActions
      /\ y[4].act \in PlainActions /\ y[5].act \in PlainActions /\ y[6].act \in PlainActions
  <2>1. "ui.wait" \in PlainActions
    BY DEF PlainActions
  <2> QED BY <1>2, <2>1, PlainSteps
<1> QED BY <1>1, <1>2, <1>3, <1>4 DEF PlainScript

LEMMA FillPlain == PlainScript(FillForm)
<1>1. PICK y : y = FillForm
  OBVIOUS
<1>2. /\ DOMAIN y = 1 .. 6 /\ y[1] = Do("ui.wait", "xianyu_description")
      /\ y[2] = Do("ui.input", "xianyu_description") /\ y[3] = Tap("xianyu_composer_done")
      /\ y[4] = Do("ui.wait", "xianyu_price") /\ y[5] = Do("ui.input", "xianyu_price")
      /\ y[6] = Shot
  BY <1>1 DEF FillForm
<1>3. IsScript(y)
  <2>1. PICK S : S = {y[1], y[2], y[3], y[4], y[5], y[6]}
    OBVIOUS
  <2>2. y \in Seq(S)
    BY <1>1, <1>2, <2>1 DEF FillForm
  <2> QED BY <2>2, Zenon DEF IsScript
<1>4. /\ y[1].act \in PlainActions /\ y[2].act \in PlainActions /\ y[3].act \in PlainActions
      /\ y[4].act \in PlainActions /\ y[5].act \in PlainActions /\ y[6].act \in PlainActions
  <2>1. "ui.input" \in PlainActions /\ "ui.wait" \in PlainActions
    BY DEF PlainActions
  <2> QED BY <1>2, <2>1, PlainSteps
<1> QED BY <1>1, <1>2, <1>3, <1>4 DEF PlainScript

LEMMA SubmitPlain == PlainScript(SubmitForm)
<1>1. PICK y : y = SubmitForm
  OBVIOUS
<1>2. /\ DOMAIN y = 1 .. 8 /\ y[1] = Do("ui.wait", "xianyu_location")
      /\ y[2] = Tap("xianyu_location") /\ y[3] = Tap("xianyu_location_saved_0")
      /\ y[4] = Do("ui.wait", "xianyu_publish_button") /\ y[5] = Tap("xianyu_publish_button")
      /\ y[6] = Do("ui.wait", "xianyu_publish_success") /\ y[7] = Shot
      /\ y[8] = Log("XIANYU_PUBLISH_SUCCESS")
  BY <1>1 DEF SubmitForm
<1>3. IsScript(y)
  <2>1. PICK S : S = {y[1], y[2], y[3], y[4], y[5], y[6], y[7], y[8]}
    OBVIOUS
  <2>2. y \in Seq(S)
    BY <1>1, <1>2, <2>1 DEF SubmitForm
  <2> QED BY <2>2, Zenon DEF IsScript
<1>4. /\ y[1].act \in PlainActions /\ y[2].act \in PlainActions /\ y[3].act \in PlainActions
      /\ y[4].act \in PlainActions /\ y[5].act \in PlainActions /\ y[6].act \in PlainActions
      /\ y[7].act \in PlainActions /\ y[8].act \in PlainActions
  <2>1. "ui.wait" \in PlainActions
    BY DEF PlainActions
  <2> QED BY <1>2, <2>1, PlainSteps
<1> QED BY <1>1, <1>2, <1>3, <1>4 DEF PlainScript

LEMMA PublishPlain ==
  ASSUME NEW media \in BOOLEAN, NEW auto \in BOOLEAN
  PROVE  PlainScript(BuildPublish(media, auto))
<1>1. PICK l : l = Log("XIANYU_PUBLISH_FORM_READY")
  OBVIOUS
<1>2. PICK y, e : y = <<l>> /\ e = <<>>
  OBVIOUS
<1>3. y \in Seq({l}) /\ DOMAIN y = 1 .. 1 /\ y[1] = l /\ e \in Seq({l}) /\ DOMAIN e = {}
  BY <1>2
<1>4. l.act \in PlainActions
  BY <1>1, PlainSteps
<1>5. IsScript(y) /\ IsScript(e)
  BY <1>3, Zenon DEF IsScript
<1>6. PlainScript(y) /\ PlainScript(e)
  BY <1>3, <1>4, <1>5 DEF PlainScript
<1>7. PICK m, f : m = (IF media THEN MediaSteps ELSE <<>>) /\ f = (IF auto THEN SubmitForm ELSE <<Log("XIANYU_PUBLISH_FORM_READY")>>)
  OBVIOUS
<1>8. (m = MediaSteps \/ m = e) /\ (f = SubmitForm \/ f = y)
  BY <1>1, <1>2, <1>7
<1>9. PlainScript(m) /\ PlainScript(f)
  BY <1>6, <1>8, MediaPlain, SubmitPlain
<1>10. PlainScript(OpenForm \o m)
  BY <1>9, OpenPlain, PlainJoin
<1>11. PlainScript((OpenForm \o m) \o FillForm)
  BY <1>10, FillPlain, PlainJoin
<1>12. PlainScript(((OpenForm \o m) \o FillForm) \o f)
  BY <1>9, <1>11, PlainJoin
<1>13. BuildPublish(media, auto) = ((OpenForm \o m) \o FillForm) \o f
  BY <1>7 DEF BuildPublish
<1> QED BY <1>12, <1>13

LEMMA BuiltAdmitted ==
  ASSUME NEW b \in Built
  PROVE  IsScript(b[2]) /\ Gate(b[2]) = b[1]
<1>1. \/ b = <<"polish.v1", BuildPolish>> \/ b = <<"delist.v1", BuildDelist>>
      \/ b = <<"delist.v2", BuildDelistV2>> \/ b = <<"delete.v2", BuildDeleteV2>>
      \/ b = <<"orders.v1", BuildOrders(1, "BOUGHT", 10)>> \/ b = <<"review.v1", ReviewScript>>
      \/ b = <<"PLAIN", BuildReply>>
      \/ \E card \in 0 .. 2 : b = <<"delete.v1", BuildDelete(card)>>
      \/ \E n \in 2 .. 3 : b = <<"orders.v2", BuildOrders(n, "SOLD", 5)>>
      \/ \E media, auto \in BOOLEAN : b = <<"PLAIN", BuildPublish(media, auto)>>
  BY DEF Built
<1>2. CASE b = <<"polish.v1", BuildPolish>>
  BY <1>2, PolishScript, PolishBuilt
<1>3. CASE b = <<"delist.v1", BuildDelist>>
  BY <1>3, DelistScript, DelistBuilt
<1>4. CASE b = <<"delist.v2", BuildDelistV2>> \/ b = <<"delete.v2", BuildDeleteV2>>
  BY <1>4, DelistV2Script, DeleteV2Script, V2Built
<1>5. CASE b = <<"orders.v1", BuildOrders(1, "BOUGHT", 10)>>
  <2>1. IsScript(BuildOrders(1, "BOUGHT", 10))
    BY OrdersScript
  <2>2. Gate(BuildOrders(1, "BOUGHT", 10)) = "orders.v1"
    BY OrdersBuilt
  <2> QED BY <1>5, <2>1, <2>2
<1>6. CASE b = <<"review.v1", ReviewScript>>
  BY <1>6, ReviewSteps, ReviewMild
<1>7. CASE b = <<"PLAIN", BuildReply>>
  <2>1. IsScript(BuildReply) /\ Gate(BuildReply) = "PLAIN"
    BY ReplyPlain, PlainGate DEF PlainScript
  <2> QED BY <1>7, <2>1
<1>8. CASE \E card \in 0 .. 2 : b = <<"delete.v1", BuildDelete(card)>>
  BY <1>8, DeleteScript, DeleteBuilt
<1>9. CASE \E n \in 2 .. 3 : b = <<"orders.v2", BuildOrders(n, "SOLD", 5)>>
  <2>1. PICK n \in 2 .. 3 : b = <<"orders.v2", BuildOrders(n, "SOLD", 5)>>
    BY <1>9
  <2>2. n \in 1 .. 3 /\ n # 1 /\ 5 \in 1 .. 10
    OBVIOUS
  <2>3. IsScript(BuildOrders(n, "SOLD", 5))
    BY <2>2, OrdersScript
  <2>4. Gate(BuildOrders(n, "SOLD", 5)) = "orders.v2"
    BY <2>2, OrdersBuilt
  <2> QED BY <2>1, <2>3, <2>4
<1>10. CASE \E media, auto \in BOOLEAN : b = <<"PLAIN", BuildPublish(media, auto)>>
  <2>1. PICK media \in BOOLEAN, auto \in BOOLEAN : b = <<"PLAIN", BuildPublish(media, auto)>>
    BY <1>10
  <2>2. IsScript(BuildPublish(media, auto)) /\ Gate(BuildPublish(media, auto)) = "PLAIN"
    BY PublishPlain, PlainGate DEF PlainScript
  <2> QED BY <2>1, <2>2
<1> QED BY <1>1, <1>2, <1>3, <1>4, <1>5, <1>6, <1>7, <1>8, <1>9, <1>10

(* What the gate admits, whatever the client sent.                         *)
LEMMA AdmittedStrikes ==
  ASSUME NEW s, IsScript(s)
  PROVE  /\ Gate(s) \in Destructive => LedgerCommand(s) = Gate(s) /\ GuardedStrike(s)
         /\ Gate(s) \notin Destructive \cup {"PLAIN", "REFUSED"} => Strikes(s) = {}
<1>1. ASSUME Gate(s) \in Destructive PROVE LedgerCommand(s) = Gate(s) /\ GuardedStrike(s)
  <2>1. Gate(s) \in V1Commands \cup V2Commands
    BY <1>1 DEF Destructive, V1Commands, V2Commands
  <2>2. Gate(s) \in MaintenanceMatches(s)
    BY <2>1, AdmittedAs
  <2> QED BY <1>1, <2>2, Ledgered
<1>2. ASSUME Gate(s) \notin Destructive \cup {"PLAIN", "REFUSED"} PROVE Strikes(s) = {}
  <2>1. CASE Uses(s, MaintenanceActions)
    <3>1. PICK M : M = MaintenanceMatches(s)
      OBVIOUS
    <3>2. M # {} /\ Gate(s) = CHOOSE c \in M : TRUE
      <4>1. Cardinality(M) = 1 /\ Gate(s) = CHOOSE c \in M : TRUE
        BY <1>2, <2>1, <3>1 DEF Gate
      <4> QED BY <4>1, FS_EmptySet
    <3>3. Gate(s) \in M
      BY <3>2
    <3>4. Gate(s) = "polish.v1" /\ MatchesV1("polish.v1", s)
      BY <1>2, <3>1, <3>3 DEF MaintenanceMatches, V1Commands, V2Commands, Destructive
    <3> QED BY <3>4, PolishNoStrike
  <2>2. CASE ~Uses(s, MaintenanceActions) /\ Uses(s, {"ui.readOrders", "ui.swipeUp"})
    <3>1. OrdersMatch(s)
      BY <1>2, <2>2 DEF Gate
    <3>2. PICK n, d, k : n \in 1 .. 3 /\ s = BuildOrders(n, d, k)
      BY <3>1 DEF OrdersMatch
    <3> QED BY <3>2, OrdersMild, MildScript
  <2>3. CASE ~Uses(s, MaintenanceActions) /\ ~Uses(s, {"ui.readOrders", "ui.swipeUp"})
    <3>1. s = ReviewScript
      BY <1>2, <2>3 DEF Gate
    <3> QED BY <3>1, ReviewMild
  <2> QED BY <2>1, <2>2, <2>3
<1> QED BY <1>1, <1>2

(* The script in hand is a sequence of steps, and unedited it is one the   *)
(* server built.                                                           *)
ScriptInv ==
    /\ IsScript(script) /\ edits \in Nat
    /\ made = "NONE" => script = <<>> /\ edits = 0
    /\ made # "NONE" /\ edits = 0 => <<made, script>> \in Built

LEMMA BuiltNames == \A b \in Built : b = <<b[1], b[2]>> /\ b[1] # "NONE"
BY DEF Built

LEMMA EditedScript ==
  ASSUME NEW s, IsScript(s), NEW i \in DOMAIN s, NEW x
  PROVE  IsScript(RemoveAt(s, i)) /\ IsScript(InsertAt(s, i, x)) /\ IsScript([s EXCEPT ![i] = x])
<1>1. PICK T : s \in Seq(T)
  BY DEF IsScript
<1>2. PICK S : S = T \cup {x}
  OBVIOUS
<1>3. s \in Seq(S) /\ x \in S
  BY <1>1, <1>2, Larger
<1>4. i \in 1 .. Len(s) /\ Len(s) \in Nat
  BY <1>3
<1>5. SubSeq(s, 1, i - 1) \in Seq(S) /\ SubSeq(s, i, Len(s)) \in Seq(S) /\ SubSeq(s, i + 1, Len(s)) \in Seq(S)
  BY <1>3, <1>4
<1>6. <<x>> \in Seq(S)
  BY <1>3
<1>7. RemoveAt(s, i) \in Seq(S)
  BY <1>5, Concat DEF RemoveAt
<1>8. InsertAt(s, i, x) \in Seq(S)
  BY <1>5, <1>6, Concat DEF InsertAt
<1>9. [s EXCEPT ![i] = x] \in Seq(S)
  BY <1>3, <1>4
<1> QED BY <1>7, <1>8, <1>9 DEF IsScript

LEMMA ScriptsStart == ScriptsInit => ScriptInv
<1>1. <<>> \in Seq({})
  OBVIOUS
<1> QED BY <1>1 DEF ScriptsInit, ScriptInv, IsScript

LEMMA BuildInv ==
  ASSUME ScriptInv, Build
  PROVE  ScriptInv'
<1>1. PICK b \in Built : made' = b[1] /\ script' = b[2]
  BY DEF Build
<1>2. IsScript(b[2]) /\ b = <<b[1], b[2]>> /\ b[1] # "NONE"
  BY BuiltAdmitted, BuiltNames
<1>3. edits' = edits /\ edits \in Nat
  BY DEF Build, ScriptInv
<1>4. <<made', script'>> \in Built
  BY <1>1, <1>2
<1>5. IsScript(script') /\ made' # "NONE" /\ edits' \in Nat
  BY <1>1, <1>2, <1>3
<1> QED BY <1>4, <1>5 DEF ScriptInv, IsScript

LEMMA EditInv ==
  ASSUME ScriptInv, Edit
  PROVE  ScriptInv'
<1>1. edits' = edits + 1 /\ edits \in Nat /\ made' = made
  BY DEF Edit, ScriptInv
<1>2. PICK i \in DOMAIN script :
          \/ script' = RemoveAt(script, i)
          \/ script' = InsertAt(script, i, script[i])
          \/ i < Len(script) /\ script' = [script EXCEPT ![i] = script[i + 1], ![i + 1] = script[i]]
          \/ \E x \in Strays : script' = InsertAt(script, i, x)
  BY DEF Edit
<1>3. IsScript(script) /\ Len(script) \in Nat /\ DOMAIN script = 1 .. Len(script)
  BY ScriptDomain DEF ScriptInv
<1>4. IsScript(script')
  <2>1. CASE script' = RemoveAt(script, i)
    BY <1>3, <2>1, EditedScript
  <2>2. CASE \E x : script' = InsertAt(script, i, x)
    BY <1>3, <2>2, EditedScript
  <2>3. CASE i < Len(script) /\ script' = [script EXCEPT ![i] = script[i + 1], ![i + 1] = script[i]]
    <3>1. PICK s, a, b : s = script /\ a = script[i] /\ b = script[i + 1]
      OBVIOUS
    <3>2. PICK r : r = [s EXCEPT ![i] = b]
      OBVIOUS
    <3>3. IsScript(r) /\ DOMAIN r = DOMAIN s
      BY <1>3, <3>1, <3>2, EditedScript
    <3>4. i + 1 \in DOMAIN r
      BY <1>3, <2>3, <3>1, <3>3
    <3>5. script' = [r EXCEPT ![i + 1] = a]
      BY <2>3, <3>1, <3>2
    <3> QED BY <3>3, <3>4, <3>5, EditedScript
  <2> QED BY <1>2, <2>1, <2>2, <2>3
<1>5. made # "NONE"
  <2>1. script # <<>>
    BY <1>2
  <2> QED BY <2>1 DEF ScriptInv
<1>6. edits' \in Nat /\ edits' # 0
  BY <1>1
<1> QED BY <1>1, <1>4, <1>5, <1>6 DEF ScriptInv, IsScript

LEMMA ScriptsSound == ScriptInv => ScriptGated
<1> SUFFICES ASSUME ScriptInv PROVE ScriptGated
  OBVIOUS
<1>1. IsScript(script)
  BY DEF ScriptInv
<1>2. made # "NONE" /\ edits = 0 => Gate(script) = made
  <2> SUFFICES ASSUME made # "NONE", edits = 0 PROVE Gate(script) = made
    OBVIOUS
  <2>1. PICK b : b = <<made, script>>
    OBVIOUS
  <2>2. b \in Built /\ b[1] = made /\ b[2] = script
    BY <2>1 DEF ScriptInv
  <2> QED BY <2>2, BuiltAdmitted
<1>3. Gate(script) \in Destructive => LedgerCommand(script) = Gate(script) /\ GuardedStrike(script)
  BY <1>1, AdmittedStrikes
<1>4. Gate(script) \notin Destructive \cup {"PLAIN", "REFUSED"} => Strikes(script) = {}
  BY <1>1, AdmittedStrikes
<1> QED BY <1>2, <1>3, <1>4 DEF ScriptGated, GuardedStrike

\* Every script the server builds is admitted as its own command; whatever a client
\* sends, a script admitted as a command that takes a listing down or deletes it
\* strikes exactly once, with a screenshot before and after and the navigation behind
\* it, and is the command the ledger authorizes; other admitted commands do not
\* strike.  For any bound MaxEdits on the edits a client makes to a script.
THEOREM ScriptGatedCorrect == Spec => []ScriptGated
<1>1. Init => ScriptInv
  BY ScriptsStart DEF Init
<1>2. ScriptInv /\ [Next]_vars => ScriptInv'
  <2> SUFFICES ASSUME ScriptInv, [Next]_vars PROVE ScriptInv'
    OBVIOUS
  <2>1. ScriptsNext \/ UNCHANGED scriptVars
    BY DEF Next, vars, rows
  <2>2. CASE UNCHANGED scriptVars
    BY <2>2 DEF scriptVars, ScriptInv, IsScript
  <2> QED BY <2>1, <2>2, BuildInv, EditInv DEF ScriptsNext
<1> QED BY <1>1, <1>2, ScriptsSound, PTL DEF Spec
=============================================================================
