---------------------------- MODULE StepScripts ----------------------------
(***************************************************************************)
(* Step scripts of Xianyu tasks: the builders (xianyu_maintenance.py,      *)
(* xianyu_orders.py, xianyu_publish.py, im_service.py), the frozen shapes  *)
(* the creation gate admits and the ledger identity of a script            *)
(* (mobile_actions.py).  A script is a sequence of steps; timeouts, labels *)
(* and free text are left out.  A client may send any script, so the gate  *)
(* is tried on built scripts and on edits of them.                         *)
(***************************************************************************)
EXTENDS Integers, Sequences, SequencesExt, FiniteSets, FiniteSetsExt

CONSTANT MaxEdits        \* bound: edits made to a built script

ASSUME ScriptAssumption == MaxEdits \in Nat

VARIABLES script,        \* the steps of the task that is to be created
          made,          \* command of the builder it started from
          edits          \* edits made since

scriptVars == <<script, made, edits>>

-----------------------------------------------------------------------------
(* Steps: what is acted on, on which tab, and a number: the card index, the*)
(* badge delta, the rows to read, or 1 for a tap with the frozen stepId.   *)
Step(act, ref, tab, num) == [act |-> act, ref |-> ref, tab |-> tab, num |-> num]
Tap(ref) == Step("ui.tap", ref, "", 0)
Do(act, ref) == Step(act, ref, "", 0)
Layout(ref, tab, card) == Step("ui.tapLayout", ref, tab, card)
Card(tab) == Step("ui.tapCardByTitle", "", tab, 0)
Shot == Do("ui.screenshot", "")
Log(code) == Do("run.log", code)
Read(direction, rows) == Step("ui.readOrders", "xianyu_orders_container", direction, rows)
Swipe == Do("ui.swipeUp", "xianyu_orders_container")
Review == Do("xianyu.reviewOrders", "")
GatedTap == Step("ui.tap", "xianyu_delete_confirm", "", 1)

PublishedList == <<Tap("xianyu_profile_tab"), Tap("xianyu_my_published")>>
DelistedList == Append(PublishedList, Tap("xianyu_pub_tab_delisted"))

(* build_polish_steps(), build_delist_steps(), build_delete_delisted_steps()*)
BuildPolish == PublishedList \o
    <<Layout("polish_all", "onsale", 0), Shot, Log("XIANYU_POLISH_DONE")>>
BuildDelist == PublishedList \o
    <<Layout("more", "onsale", 0), Shot, Layout("delist_menu_item", "onsale", 0), Shot,
      Layout("confirm_delist", "onsale", 0),
      Step("ui.assertBadge", "xianyu_pub_tab_onsale", "", -1), Shot, Log("XIANYU_DELIST_DONE")>>
BuildDelete(card) == DelistedList \o
    <<Layout("delete_card", "delisted", card), Shot, Layout("confirm_delete", "delisted", 0),
      Shot, Log("XIANYU_DELETE_DELISTED_DONE")>>

(* build_delist_steps_v2(), build_delete_delisted_steps_v2()               *)
BuildDelistV2 == PublishedList \o
    <<Card("onsale"), Tap("xianyu_detail_manage"), Shot, Tap("xianyu_manage_delist"), Shot,
      Layout("confirm_delist", "onsale", 0), Shot, Log("XIANYU_DELIST_DONE")>>
BuildDeleteV2 == DelistedList \o
    <<Card("delisted"), Tap("xianyu_detail_manage"), Shot, Tap("xianyu_manage_delete"), Shot,
      GatedTap, Shot, Log("XIANYU_DELETE_DELISTED_DONE")>>

(* build_collect_orders_steps(), and _v2() for more than one screen        *)
Entry(direction) == IF direction = "SOLD" THEN "xianyu_order_list_sold"
                                          ELSE "xianyu_order_list_bought"
MoreScreens(n, direction, rows) ==
    [i \in 1..(2 * (n - 1)) |-> IF i % 2 = 1 THEN Swipe ELSE Read(direction, rows)]
BuildOrders(n, direction, rows) ==
    <<Tap("xianyu_profile_tab"), Tap(Entry(direction)), Read(direction, rows)>>
    \o MoreScreens(n, direction, rows) \o <<Shot, Log("XIANYU_COLLECT_ORDERS_DONE")>>

(* The review loop has no builder; the gate admits this one script.        *)
ReviewScript ==
    <<Tap("xianyu_profile_tab"), Tap("xianyu_order_list_sold"), Tap("xianyu_orders_tab_pending"),
      Review, Shot, Log("XIANYU_REVIEW_DONE")>>

(* _reply_steps()                                                          *)
BuildReply ==
    <<Do("ui.find", "xianyu_messages_tab"), Tap("xianyu_messages_tab"), Do("ui.tapText", ""),
      Do("ui.wait", "xianyu_chat_input"), Do("ui.input", "xianyu_chat_input"),
      Tap("xianyu_chat_send")>>

(* build_text_publish_steps() and the media steps build_text_publish_task()*)
(* inserts before the description.                                         *)
OpenForm == <<Do("ui.find", "xianyu_home_sell"), Tap("xianyu_home_sell"),
              Tap("xianyu_publish_entry"), Do("ui.wait", "xianyu_publish_page")>>
MediaSteps == <<Do("ui.wait", "xianyu_add_image"), Tap("xianyu_add_image"),
                Tap("xianyu_gallery_select_1"), Tap("xianyu_gallery_next"),
                Do("ui.wait", "xianyu_crop_done"), Tap("xianyu_crop_done")>>
FillForm == <<Do("ui.wait", "xianyu_description"), Do("ui.input", "xianyu_description"),
              Tap("xianyu_composer_done"), Do("ui.wait", "xianyu_price"),
              Do("ui.input", "xianyu_price"), Shot>>
SubmitForm == <<Do("ui.wait", "xianyu_location"), Tap("xianyu_location"),
                Tap("xianyu_location_saved_0"), Do("ui.wait", "xianyu_publish_button"),
                Tap("xianyu_publish_button"), Do("ui.wait", "xianyu_publish_success"),
                Shot, Log("XIANYU_PUBLISH_SUCCESS")>>
BuildPublish(media, auto) ==
    OpenForm \o (IF media THEN MediaSteps ELSE <<>>) \o FillForm
    \o (IF auto THEN SubmitForm ELSE <<Log("XIANYU_PUBLISH_FORM_READY")>>)

-----------------------------------------------------------------------------
(* XIANYU_MAINTENANCE_SHAPES: layouts says tab and greatest card index of  *)
(* each layout tap; evidence the pairs with a screenshot between them;     *)
(* anchor the step after which the last screenshot is taken.               *)
Slot(tab, max) == [tab |-> tab, max |-> max]
V1Commands == {"polish.v1", "delist.v1", "delete.v1"}
V1Shape(c) ==
    CASE c = "polish.v1" ->
           [nav |-> ToSet(PublishedList),
            layouts |-> [l \in {"polish_all"} |-> Slot("onsale", 0)],
            gated |-> "polish_all", badge |-> FALSE, evidence |-> {},
            anchor |-> <<"ui.tapLayout", "polish_all">>, log |-> "XIANYU_POLISH_DONE"]
      [] c = "delist.v1" ->
           [nav |-> ToSet(PublishedList),
            layouts |-> [l \in {"more", "delist_menu_item", "confirm_delist"} |-> Slot("onsale", 0)],
            gated |-> "confirm_delist", badge |-> TRUE,
            evidence |-> {<<"more", "delist_menu_item">>, <<"delist_menu_item", "confirm_delist">>},
            anchor |-> <<"ui.assertBadge", "xianyu_pub_tab_onsale">>,
            log |-> "XIANYU_DELIST_DONE"]
      [] c = "delete.v1" ->
           [nav |-> ToSet(DelistedList),
            layouts |-> [l \in {"delete_card", "confirm_delete"} |->
                            Slot("delisted", IF l = "delete_card" THEN 2 ELSE 0)],
            gated |-> "confirm_delete", badge |-> FALSE,
            evidence |-> {<<"delete_card", "confirm_delete">>},
            anchor |-> <<"ui.tapLayout", "confirm_delete">>,
            log |-> "XIANYU_DELETE_DELISTED_DONE"]

Hits(s, act, ref) == {i \in DOMAIN s : s[i].act = act /\ s[i].ref = ref}
First(s, act, ref) == Min(Hits(s, act, ref))
Having(s, act) == {i \in DOMAIN s : s[i].act = act}
(* Mutant: a step of the shape may be repeated.                            *)
OnceOrMore(s, act, ref) == Hits(s, act, ref) # {}
Once(s, act, ref) == Cardinality(Hits(s, act, ref)) = 1

(* _maintenance_shape_error() is None                                      *)
MatchesV1(c, s) ==
    LET sh == V1Shape(c) IN
    /\ \A t \in sh.nav : Once(s, "ui.tap", t.ref)
    /\ \A i \in Having(s, "ui.tap") : s[i].ref \in {t.ref : t \in sh.nav}
    /\ \A l \in DOMAIN sh.layouts :
          /\ Once(s, "ui.tapLayout", l)
          /\ \A i \in Hits(s, "ui.tapLayout", l) :
                s[i].tab = sh.layouts[l].tab /\ s[i].num \in 0..sh.layouts[l].max
    /\ \A i \in Having(s, "ui.tapLayout") : s[i].ref \in DOMAIN sh.layouts
    /\ IF sh.badge
       THEN /\ Cardinality(Having(s, "ui.assertBadge")) = 1
            /\ \A i \in Having(s, "ui.assertBadge") :
                  s[i].ref = sh.anchor[2] /\ s[i].num = -1
       ELSE Having(s, "ui.assertBadge") = {}
    /\ \A t \in sh.nav, i \in Having(s, "ui.tapLayout") : First(s, "ui.tap", t.ref) < i
    /\ sh.badge => First(s, "ui.assertBadge", sh.anchor[2]) > First(s, "ui.tapLayout", sh.gated)
    /\ \A e \in sh.evidence : \E i \in Having(s, "ui.screenshot") :
          First(s, "ui.tapLayout", e[1]) < i /\ i < First(s, "ui.tapLayout", e[2])
    /\ \E i \in Having(s, "ui.screenshot") : i > First(s, sh.anchor[1], sh.anchor[2])
    /\ Hits(s, "run.log", sh.log) # {}

(* XIANYU_MAINTENANCE_V2_SHAPES: one exact sequence each                   *)
V2Commands == {"delist.v2", "delete.v2"}
V2Sequence(c) == IF c = "delist.v2" THEN BuildDelistV2 ELSE BuildDeleteV2
MatchesV2(c, s) == s = V2Sequence(c)

MaintenanceMatches(s) ==
    {c \in V1Commands : MatchesV1(c, s)} \cup {c \in V2Commands : MatchesV2(c, s)}

(* _orders_shape_error(), _orders_shape_error_v2(): up to three screens    *)
OrdersScreens(s) == Cardinality(Having(s, "ui.readOrders"))
OrdersMatch(s) ==
    /\ OrdersScreens(s) \in 1..3
    /\ LET read == s[Min(Having(s, "ui.readOrders"))] IN
         /\ read.tab \in {"SOLD", "BOUGHT"} /\ read.num \in 1..10
         /\ s = BuildOrders(OrdersScreens(s), read.tab, read.num)

(* The gate of _insert_task(): which validator a script meets depends on   *)
(* the actions it uses.                                                    *)
Uses(s, acts) == \E i \in DOMAIN s : s[i].act \in acts
MaintenanceActions == {"ui.tapLayout", "ui.assertBadge", "ui.tapCardByTitle"}
Gate(s) ==
    IF Uses(s, MaintenanceActions)
    THEN IF Cardinality(MaintenanceMatches(s)) = 1
         THEN CHOOSE c \in MaintenanceMatches(s) : TRUE ELSE "REFUSED"
    ELSE IF Uses(s, {"ui.readOrders", "ui.swipeUp"})
    THEN IF ~OrdersMatch(s) THEN "REFUSED"
         ELSE IF OrdersScreens(s) = 1 THEN "orders.v1" ELSE "orders.v2"
    ELSE IF Uses(s, {"xianyu.reviewOrders"})
    THEN IF s = ReviewScript THEN "review.v1" ELSE "REFUSED"
    ELSE "PLAIN"

(* steps_action_identity(): publish is tried first, polish has no identity *)
PublishShape(s) ==
    /\ Once(s, "ui.tap", "xianyu_publish_button")
    /\ \E i \in DOMAIN s : s[i].ref = "xianyu_publish_success"
    /\ Hits(s, "ui.input", "xianyu_description") # {}
(* Mutant: a shape is found by the layout tap the ledger gates.            *)
LedgerByStrike(s) ==
    IF Hits(s, "ui.tapLayout", "confirm_delist") # {} THEN "delist.v1"
    ELSE IF Hits(s, "ui.tapLayout", "confirm_delete") # {} THEN "delete.v1" ELSE "REFUSED"
LedgerCommand(s) ==
    IF PublishShape(s) THEN "publish.v1"
    ELSE IF MatchesV1("delist.v1", s) THEN "delist.v1"
    ELSE IF MatchesV1("delete.v1", s) THEN "delete.v1"
    ELSE IF MatchesV2("delist.v2", s) THEN "delist.v2"
    ELSE IF MatchesV2("delete.v2", s) THEN "delete.v2"
    ELSE "REFUSED"

-----------------------------------------------------------------------------
Built == {<<"polish.v1", BuildPolish>>, <<"delist.v1", BuildDelist>>,
          <<"delist.v2", BuildDelistV2>>, <<"delete.v2", BuildDeleteV2>>,
          <<"orders.v1", BuildOrders(1, "BOUGHT", 10)>>, <<"review.v1", ReviewScript>>,
          <<"PLAIN", BuildReply>>}
         \cup {<<"delete.v1", BuildDelete(card)>> : card \in 0..2}
         \cup {<<"orders.v2", BuildOrders(n, "SOLD", 5)>> : n \in 2..3}
         \cup {<<"PLAIN", BuildPublish(media, auto)>> : media, auto \in BOOLEAN}

ScriptsInit == script = <<>> /\ made = "NONE" /\ edits = 0

(* A builder is called.                                                    *)
Build == /\ made = "NONE"
         /\ \E b \in Built : made' = b[1] /\ script' = b[2]
         /\ UNCHANGED edits

(* Steps a client may put anywhere: the strikes, and what leads to them.   *)
Strays == {Shot, GatedTap, Tap("xianyu_publish_button"), Tap("xianyu_my_published"),
           Layout("confirm_delist", "onsale", 0), Layout("confirm_delete", "delisted", 0),
           Card("onsale")}

(* A client changes a step before it creates the task.                     *)
Edit ==
    /\ edits < MaxEdits /\ edits' = edits + 1
    /\ UNCHANGED made
    /\ \E i \in DOMAIN script :
          \/ script' = RemoveAt(script, i)
          \/ script' = InsertAt(script, i, script[i])
          \/ i < Len(script) /\ script' = [script EXCEPT ![i] = script[i + 1],
                                                         ![i + 1] = script[i]]
          \/ \E x \in Strays : script' = InsertAt(script, i, x)

ScriptsNext == Build \/ Edit

(* The steps that publish, take down or delete a listing.                  *)
Strikes(s) ==
    Hits(s, "ui.tapLayout", "confirm_delist") \cup Hits(s, "ui.tapLayout", "confirm_delete")
    \cup Hits(s, "ui.tap", "xianyu_delete_confirm") \cup Hits(s, "ui.tap", "xianyu_publish_button")
Destructive == {"delist.v1", "delete.v1", "delist.v2", "delete.v2"}

(* Every script the server builds is admitted under its own command, and   *)
(* whatever script is admitted as a maintenance command strikes once, with *)
(* a picture before and after and the navigation behind it, and is the     *)
(* very command the ledger will authorize; other commands never strike.    *)
ScriptGated ==
    LET c == Gate(script) IN
    /\ made # "NONE" /\ edits = 0 => c = made
    /\ c \in Destructive =>
          /\ LedgerCommand(script) = c
          /\ \E g \in DOMAIN script :
                /\ Strikes(script) = {g}
                /\ \E i \in Having(script, "ui.screenshot") : i < g
                /\ \E i \in Having(script, "ui.screenshot") : i > g
                /\ \E i \in Hits(script, "ui.tap", "xianyu_my_published") : i < g
    /\ c \notin Destructive \cup {"PLAIN", "REFUSED"} => Strikes(script) = {}
=============================================================================
