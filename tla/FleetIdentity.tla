---------------------------- MODULE FleetIdentity ----------------------------
(***************************************************************************)
(* Enrollment of Companions on one device, their bearer bindings and fleet *)
(* sessions, and the screen preview.  A Companion request authenticates in *)
(* one transaction and acts in another.  enroll() and register_session_    *)
(* row() revoke the rows their SELECT returned: a row another transaction  *)
(* inserts meanwhile is not among them.                                    *)
(***************************************************************************)
EXTENDS ApiRequests, FiniteSets, Sequences

CONSTANTS Codes,          \* enrollment codes
          Apps,           \* Companion installations (app_instance_id)
          Profiles        \* the profiles a Companion registers: <<table, acc, ime>>

VARIABLES code,           \* state of each enrollment row
          bound,          \* mobile_binding by installation
          fleet,          \* fleet_device_session rows, oldest first
          device,         \* device: control epoch, active binding, online
          preview,        \* device_preview: session, granted, session of the frame
          overlapped,     \* history: two registrations of the device overlapped
          redeemed,       \* history: enrollments each code has made
          told,           \* history: what each installation reported since it enrolled
          stopped,        \* history: preview sessions whose stop was answered
          trespass        \* history: a revoked binding or a stopped preview was served

identityVars == <<code, bound, fleet, device, preview, overlapped, redeemed, told, stopped, trespass>>
rowsOnly == <<overlapped, redeemed, stopped, trespass>>

Unreported == [caps |-> {}, acc |-> "NONE"]

IdentityInit ==
    /\ code = [c \in Codes |-> "NONE"] /\ bound = [a \in Apps |-> "NONE"] /\ fleet = <<>>
    /\ device = [epoch |-> 0, active |-> "NONE", online |-> FALSE]
    /\ preview = [session |-> 0, granted |-> FALSE, frame |-> 0]
    /\ overlapped = FALSE /\ redeemed = [c \in Codes |-> 0] /\ told = [a \in Apps |-> Unreported]
    /\ stopped = {} /\ trespass = FALSE

Busy(w, op) == req[w].op = op
LockedBy(v, a) ==
    \/ Busy(v, "ENROLL") /\ req[v].existing /\ req[v].app = a
    \/ Busy(v, "REGISTER") /\ req[v].app = a
BindingFree(w, a) == \A v \in Workers \ {w} : ~LockedBy(v, a)
CodeFree(c) == \A v \in Workers : ~(Busy(v, "ENROLL") /\ req[v].code = c)
Overlapping == \E v \in Workers : req[v].op \in {"ENROLL", "REGISTER"}

Unrevoked == {i \in DOMAIN fleet : ~fleet[i].revoked}
SessionsOf(a) == {i \in Unrevoked : fleet[i].app = a}

CreateEnrollment(w, c) ==
    /\ AtOnce(w) /\ code[c] = "NONE"
    /\ code' = [code EXCEPT ![c] = "OPEN"]
    /\ UNCHANGED <<bound, fleet, device, preview, rowsOnly, told>>

CodeExpires(c) ==
    /\ code[c] = "OPEN" /\ CodeFree(c)
    /\ code' = [code EXCEPT ![c] = "EXPIRED"]
    /\ UNCHANGED <<reqVars, bound, fleet, device, preview, rowsOnly, told>>

(* Mutant: the row is read without its lock.                               *)
CodeUsableUnlocked(c) == code[c] = "OPEN"
CodeUsable(c) == code[c] = "OPEN" /\ CodeFree(c)

(* enroll(): the code and the binding rows it will replace                 *)
Enroll(w, c, a) ==
    /\ CodeUsable(c) /\ (bound[a] # "NONE" => BindingFree(w, a))
    /\ Begin(w, [op |-> "ENROLL", code |-> c, app |-> a, existing |-> bound[a] # "NONE",
                 others |-> {b \in Apps \ {a} : bound[b] = "ACTIVE"}])
    /\ overlapped' = (overlapped \/ Overlapping)
    /\ UNCHANGED <<code, bound, fleet, device, preview, redeemed, told, stopped, trespass>>

(* register_session_row(): revoke the rows the SELECT returned, add one    *)
(* normalize_capabilities(): no table was sent, or every key of the closed *)
(* set is supported or not; an unknown key is refused.                     *)
CAPABILITY_KEYS == {"accessibility", "ime", "screen_capture"}
KnownKeys(table) == \A keys \in table : keys \subseteq CAPABILITY_KEYS
Normalized(table) == {{k \in CAPABILITY_KEYS : k \in keys} : keys \in table}

NewSession(a, caps, acc, ime) == [app |-> a, revoked |-> FALSE, caps |-> caps, acc |-> acc, ime |-> ime]
Registered(old, new) ==
    Append([i \in DOMAIN fleet |-> IF i \in old THEN [fleet[i] EXCEPT !.revoked = TRUE] ELSE fleet[i]], new)

(* Mutant: only the replaced binding is cut off.                           *)
ReplacedNone(r) == {}
Replaced(r) == r.others

(* enroll(): with the device row locked it sees the sessions of now.       *)
EnrollCommit(w) ==
    LET r == req[w] IN
    /\ Busy(w, "ENROLL") /\ End(w)
    /\ r.existing \/ bound[r.app] = "NONE"
    /\ \A b \in r.others : BindingFree(w, b)
    /\ code' = [code EXCEPT ![r.code] = "USED"]
    /\ redeemed' = [redeemed EXCEPT ![r.code] = @ + 1]
    /\ bound' = [b \in Apps |-> IF b = r.app THEN "ACTIVE"
                                ELSE IF b \in Replaced(r) THEN "REVOKED" ELSE bound[b]]
    /\ device' = [epoch |-> device.epoch + 1, active |-> r.app, online |-> TRUE]
    /\ fleet' = Registered(Unrevoked, NewSession(r.app, {}, "NONE", "NONE"))
    /\ told' = [told EXCEPT ![r.app] = Unreported]
    /\ UNCHANGED <<preview, overlapped, stopped, trespass>>

(* A deadlock victim, a broken unique constraint, an unknown capability    *)
(* key or a lost connection                                                *)
RolledBack(w) ==
    /\ req[w].op \in {"ENROLL", "REGISTER"} /\ End(w)
    /\ UNCHANGED identityVars

-----------------------------------------------------------------------------
(* authenticate(): the binding it returns is only a copy.                  *)
Authenticate(w, a) ==
    /\ bound[a] = "ACTIVE"
    /\ Begin(w, [op |-> "AUTHENTICATED", app |-> a])
    /\ device' = [device EXCEPT !.online = TRUE]
    /\ UNCHANGED <<code, bound, fleet, preview, rowsOnly, told>>

(* Mutant: the copy is trusted.                                            *)
StillBoundThen(a) == TRUE
StillBound(a) == bound[a] = "ACTIVE"

Serving(w) == Busy(w, "AUTHENTICATED") /\ BindingFree(w, req[w].app)
RefusedRevoked(w) == Serving(w) /\ ~StillBound(req[w].app) /\ End(w) /\ UNCHANGED identityVars
Authorised(w) == Serving(w) /\ StillBound(req[w].app) /\ trespass' = (trespass \/ bound[req[w].app] # "ACTIVE")

(* register_fleet_session(): binding locked, sessions read                 *)
RegisterSession(w, caps, acc, ime) ==
    /\ Authorised(w)
    /\ req' = [req EXCEPT ![w] = [op |-> "REGISTER", app |-> @.app, old |-> Unrevoked,
                                 caps |-> caps, acc |-> acc, ime |-> ime]]
    /\ overlapped' = (overlapped \/ Overlapping)
    /\ UNCHANGED <<left, code, bound, fleet, device, preview, redeemed, told, stopped>>

RegisterCommit(w) ==
    LET r == req[w] IN
    /\ Busy(w, "REGISTER") /\ End(w) /\ KnownKeys(r.caps)
    /\ fleet' = Registered(r.old, NewSession(r.app, Normalized(r.caps), r.acc, r.ime))
    /\ device' = [device EXCEPT !.online = TRUE]
    /\ told' = [told EXCEPT ![r.app] = [caps |-> r.caps, acc |-> r.acc]]
    /\ UNCHANGED <<code, bound, preview, rowsOnly>>

(* device_heartbeat(): refreshes the session of the binding, never another *)
SessionRefreshed(a) == {i \in SessionsOf(a) : \A j \in SessionsOf(a) : j <= i}

DeviceHeartbeat(w, acc, ime) ==
    LET a == req[w].app IN
    /\ Authorised(w) /\ End(w)
    /\ fleet' = [i \in DOMAIN fleet |->
                    IF i \in SessionRefreshed(a)
                    THEN [fleet[i] EXCEPT !.acc = acc, !.ime = IF ime = "YES" THEN "YES" ELSE @]
                    ELSE fleet[i]]
    /\ device' = [device EXCEPT !.online = TRUE]
    /\ told' = [told EXCEPT ![a].acc = acc]
    /\ UNCHANGED <<code, bound, preview, overlapped, redeemed, stopped>>

Unbind(w) ==
    /\ Authorised(w) /\ End(w)
    /\ bound' = [bound EXCEPT ![req[w].app] = "REVOKED"]
    /\ device' = [device EXCEPT !.online = FALSE]
    /\ UNCHANGED <<code, fleet, preview, told, overlapped, redeemed, stopped>>

(* device_online(): ninety seconds without a request                       *)
OfflineAgain ==
    /\ device.online
    /\ device' = [device EXCEPT !.online = FALSE]
    /\ UNCHANGED <<reqVars, code, bound, fleet, preview, rowsOnly, told>>

(* evaluate_executable(): a gate never reported is not evaluated.          *)
(* Mutant: only the transport counts.                                      *)
SessionReadyOnline(s) == TRUE
SessionReady(s) == s.acc # "NO" /\ s.ime # "NO"

(* capability_shortfall() of a publishing task                             *)
NoShortfall(caps) == \A keys \in caps : {"accessibility", "ime", "screen_capture"} \subseteq keys

(* What the claim of a task asks of the session: nothing, before it has    *)
(* negotiated; then the gates and the capabilities of the task at hand.    *)
ClaimOpen(a) ==
    \A i \in SessionRefreshed(a) : fleet[i].caps # {} =>
        device.online /\ SessionReady(fleet[i]) /\ NoShortfall(fleet[i].caps)

-----------------------------------------------------------------------------
StartPreview(w) ==
    /\ AtOnce(w)
    /\ preview' = [preview EXCEPT !.session = @ + 1, !.granted = TRUE]
    /\ UNCHANGED <<code, bound, fleet, device, rowsOnly, told>>

(* stop_preview() compares the session of a row it has not locked; the     *)
(* update that follows ends whichever session the row has by then.         *)
StopPreview(w) ==
    /\ preview.session > 0
    /\ Begin(w, [op |-> "STOP", session |-> preview.session])
    /\ UNCHANGED identityVars

StopCommit(w) ==
    /\ Busy(w, "STOP") /\ End(w)
    /\ preview' = [preview EXCEPT !.granted = FALSE]
    /\ stopped' = stopped \cup {req[w].session}
    /\ UNCHANGED <<code, bound, fleet, device, told, overlapped, redeemed, trespass>>

PreviewExpires ==
    /\ preview.granted
    /\ preview' = [preview EXCEPT !.granted = FALSE]
    /\ UNCHANGED <<reqVars, code, bound, fleet, device, rowsOnly, told>>

(* Mutant: the session decides, not its expiry.                            *)
UploadOpenAlways(s) == s = preview.session
UploadOpen(s) == s = preview.session /\ preview.granted

(* upload_preview() of a session the Companion was once granted            *)
UploadPreview(w, s) ==
    /\ Serving(w) /\ StillBound(req[w].app) /\ End(w) /\ UploadOpen(s)
    /\ preview' = [preview EXCEPT !.frame = s]
    /\ trespass' = (trespass \/ bound[req[w].app] # "ACTIVE" \/ s \in stopped)
    /\ UNCHANGED <<code, bound, fleet, device, told, overlapped, redeemed, stopped>>

IdentityNext ==
    \/ \E w \in Workers :
          \/ \E c \in Codes : CreateEnrollment(w, c) \/ (\E a \in Apps : Enroll(w, c, a))
          \/ EnrollCommit(w) \/ RolledBack(w) \/ RegisterCommit(w) \/ RefusedRevoked(w) \/ Unbind(w)
          \/ \E a \in Apps : Authenticate(w, a)
          \/ \E acc \in {"YES", "NO"}, ime \in {"NONE", "YES"} : DeviceHeartbeat(w, acc, ime)
          \/ \E p \in Profiles : RegisterSession(w, p[1], p[2], p[3])
          \/ StartPreview(w) \/ StopPreview(w) \/ StopCommit(w)
          \/ \E s \in 1..preview.session : UploadPreview(w, s)
    \/ \E c \in Codes : CodeExpires(c)
    \/ OfflineAgain \/ PreviewExpires

-----------------------------------------------------------------------------
(* A code makes one enrollment however many present it; a binding that was *)
(* revoked after it authenticated is not served, and no frame of a preview *)
(* is taken once its stop was answered; a binding has one live session,    *)
(* and once it has negotiated a claim passes only on the capabilities and  *)
(* the accessibility its Companion reported last.  Unless registrations of *)
(* the device overlap, one binding and one session are live and the device *)
(* names the binding.                                                      *)
IdentitySound ==
    /\ \A c \in Codes : redeemed[c] <= 1
    /\ ~trespass
    /\ \A a \in Apps : Cardinality(SessionsOf(a)) <= 1
    /\ \A a \in Apps : SessionsOf(a) # {} /\ told[a].caps # {} /\ ClaimOpen(a) =>
          told[a].acc # "NO" /\ CAPABILITY_KEYS \in told[a].caps
    /\ ~overlapped => /\ Cardinality(Unrevoked) <= 1
                      /\ \A a \in Apps : bound[a] = "ACTIVE" => device.active = a
=============================================================================
