--------------------------- MODULE MCFleetServices ---------------------------
(* Two workers; each service with a few rows and its own request bound.    *)
EXTENDS FleetServices, TLC
CONSTANTS w1, w2, d1, k1, o1, o2, i1, i2, h1, h2, a1, a2, r1, r2,
          s1, s2, x1, c1, c2, phone, key1, key2, key3, none

MCBudget == [s \in Services |->
    CASE s \in {"im", "lock", "install", "sources", "control"} -> 3
      [] s \in {"drafts", "library", "listings"} -> 4
      [] s \in {"recipes", "orders", "apk", "companion"} -> 5
      [] s \in {"wechat", "queue", "maintenance", "live", "slice", "identity"} -> 6
      [] s = "debug" -> 7
      [] s = "accounts" -> 9
      [] s = "packages" -> 5
      [] OTHER -> 0]

(* A legacy Companion; one that lacks its input method, one its            *)
(* accessibility service, one a capability; one that names an unknown key. *)
MCProfiles == {<<{}, "NONE", "NONE">>, <<{{"accessibility", "ime", "screen_capture"}}, "YES", "NO">>,
               <<{{"accessibility", "ime", "screen_capture"}}, "NO", "NONE">>, <<{{"accessibility"}}, "YES", "NONE">>,
               <<{{"accessibility", "ime", "screen_capture", "telepathy"}}, "YES", "NONE">>}

(* One product exists; one digest is the watermarked image of the other.   *)
MCSpuOf == "p1" :> "spu1"
MCRenderOf == "b1" :> "b2" @@ "b2" :> "b2"

(* Of two records of a source one may come before the other or alone,      *)
(* change its content or be malformed.                                     *)
MCRecord(e, c) == [id |-> e, content |-> c]
MCFiles == {<<>>, <<MCRecord("y", 1)>>, <<MCRecord("x", 1), MCRecord("y", 1)>>,
            <<MCRecord("x", 0), MCRecord("y", 2)>>}

(* Workers are interchangeable: they only index req, and the holder of the *)
(* reply and the device locks is the worker itself.                        *)
MCSymmetry == Permutations(Workers)
=============================================================================
