---------------------------- MODULE FleetServices ----------------------------
(***************************************************************************)
(* The services of the control API beside tasks and publishing, and the    *)
(* device tools beside it.                                                 *)
(* They share the API workers and unit_of_work() but no row: a request of  *)
(* one cannot change what another decides on.  A behaviour therefore stays *)
(* with one service, picked at the start, and the requests it may receive  *)
(* are bounded per service.                                                *)
(***************************************************************************)
EXTENDS WechatPublisher, PublishQueue, ImInbox, Orders, Listings, Maintenance, StepScripts,
        ApkRollout, Recipes, DeviceLock, DebugSessions, Sources, Accounts, ControlFeed, InstallWindow, LamdaDriver,
        LiveSessions, FleetIdentity, EdgeCompanion, Library

CONSTANTS Services,      \* the services of the instance
          Budget         \* Budget[s]: bound on the requests of service s

ASSUME BudgetAssumption == \A s \in Services : Budget[s] \in 0..MaxRequests

VARIABLE service

rows == <<wechatVars, queueVars, imVars, orderVars, listingVars, maintVars, scriptVars, apkVars,
          recipeVars, promoteVars, draftVars, lockVars, debugVars, sourceVars, accountVars, feedVars,
          windowVars, driverVars, liveVars, identityVars, companionVars, libraryVars>>

vars == <<service, reqVars, rows>>

Init ==
    /\ service \in Services
    /\ req = [w \in Workers |-> Idle] /\ left = Budget[service]
    /\ WechatInit /\ QueueInit /\ ImInit /\ OrdersInit /\ ListingsInit /\ MaintInit /\ ScriptsInit
    /\ ApkInit /\ RecipesInit /\ PackagesInit /\ DraftsInit /\ LockInit /\ DebugInit /\ SourcesInit
    /\ AccountsInit /\ FeedInit /\ WindowInit /\ DriverInit /\ LiveInit /\ IdentityInit /\ CompanionInit
    /\ LibraryInit

Next ==
    /\ UNCHANGED service
    /\ IF service = "wechat" THEN WechatNext ELSE UNCHANGED wechatVars
    /\ IF service = "queue" THEN QueueNext ELSE UNCHANGED queueVars
    /\ IF service = "im" THEN ImNext ELSE UNCHANGED imVars
    /\ IF service = "orders" THEN OrdersNext ELSE UNCHANGED orderVars
    /\ IF service = "listings" THEN ListingsNext ELSE UNCHANGED listingVars
    /\ IF service = "maintenance" THEN MaintNext ELSE UNCHANGED maintVars
    /\ IF service = "scripts" THEN ScriptsNext ELSE UNCHANGED scriptVars
    /\ IF service = "apk" THEN ApkNext ELSE UNCHANGED apkVars
    /\ IF service = "recipes" THEN RecipesNext ELSE UNCHANGED recipeVars
    /\ IF service = "packages" THEN PackagesNext ELSE UNCHANGED promoteVars
    /\ IF service = "drafts" THEN DraftsNext ELSE UNCHANGED draftVars
    /\ IF service = "lock" THEN LockNext ELSE UNCHANGED lockVars
    /\ IF service = "debug" THEN DebugNext ELSE UNCHANGED debugVars
    /\ IF service = "sources" THEN SourcesNext ELSE UNCHANGED sourceVars
    /\ IF service = "accounts" THEN AccountsNext ELSE UNCHANGED accountVars
    /\ IF service = "control" THEN FeedNext ELSE UNCHANGED feedVars
    /\ IF service = "install" THEN WindowNext ELSE UNCHANGED windowVars
    /\ IF service = "driver" THEN DriverNext ELSE UNCHANGED driverVars
    /\ IF service = "identity" THEN IdentityNext ELSE UNCHANGED identityVars
    /\ IF service = "library" THEN LibraryNext ELSE UNCHANGED libraryVars
    /\ IF service = "companion" THEN CompanionNext ELSE UNCHANGED companionVars
    /\ IF service = "live" THEN LiveNext
       ELSE IF service = "slice" THEN LegacyNext ELSE UNCHANGED liveVars
    /\ IF service \in {"scripts", "driver"} THEN UNCHANGED reqVars ELSE TRUE

Spec == Init /\ [][Next]_vars
=============================================================================
