----------------------------- MODULE ApkRollout -----------------------------
(***************************************************************************)
(* Releases of the device APK: the registry and its install candidates     *)
(* (apk_releases.py) and the coordinator that downloads and installs one   *)
(* candidate at a time (ApkUpdateCoordinator.kt).  One device, one         *)
(* package; a release is its versionCode, and all releases fit the device  *)
(* (ring, capability, data schema and signature).  Only assign_release()   *)
(* locks a row.  The app may die at any point; its ledger survives.        *)
(***************************************************************************)
EXTENDS ApiRequests, FiniteSets

CONSTANTS Releases,      \* versionCodes of the published artifacts
          MaxSessions    \* bound: PackageInstaller sessions

ASSUME RolloutAssumption == Releases \subseteq Nat \ {0} /\ MaxSessions \in Nat

VARIABLES release,       \* release[r]: artifact ADMITTED, release ACTIVE or RETIRED
          cand,          \* cand[r]: the device's install candidate
          reportedCode,  \* target_app_versions as the server knows it
          pending,       \* the coordinator's pending install
          sessions,      \* sessions[i]: release and state of session i
          statuses,      \* installer statuses not yet handled: <<session, outcome>>
          receipts,      \* install receipts not yet delivered: <<release, outcome>>
          rejected,      \* releases in the failure ledger
          installed,     \* versionCode on the device, 0 for none
          ever,          \* history: versions the device has run
          window,        \* claiming is suspended for an install
          occupied,      \* a task is claimed, running or waiting
          app            \* RECOVER after a start, IDLE, or INSTALLING in a tick

serverVars == <<release, cand, reportedCode>>
installerVars == <<sessions, statuses, installed, ever>>
coordVars == <<pending, receipts, rejected, window, app>>
apkVars == <<serverVars, installerVars, coordVars, occupied>>

SessionIds == 1..MaxSessions
NoPending == [r |-> 0, stage |-> "NONE", sid |-> 0, retired |-> FALSE]

ApkInit ==
    /\ release = [r \in Releases |-> IF r = 1 THEN "ADMITTED" ELSE "NONE"]
    /\ cand = [r \in Releases |-> "NONE"]
    /\ reportedCode = 0
    /\ pending = NoPending /\ receipts = {} /\ rejected = {} /\ window = FALSE
    /\ sessions = [i \in SessionIds |-> [r |-> 0, state |-> "NONE"]]
    /\ statuses = {} /\ installed = 0 /\ ever = {}
    /\ occupied = FALSE /\ app = "IDLE"

-----------------------------------------------------------------------------
(* evaluate_apk_policy() and the signature of the report: each of these    *)
(* refuses the artifact.                                                   *)
AnalysisDefects == {"signature", "reference", "mismatch", "future", "stale", "verdict",
                    "debuggable", "cleartext", "sdk", "abi", "permission", "finding"}
Acceptable(defects) == defects = {}

(* register_apk(): the artifact is stored only when it is acceptable.      *)
RegisterApk(w, r) ==
    /\ AtOnce(w)
    /\ release[r] = "NONE"
    /\ \E defects \in {{}} \cup {{x} : x \in AnalysisDefects} :
          /\ Acceptable(defects)
          /\ release' = [release EXCEPT ![r] = "ADMITTED"]
    /\ UNCHANGED <<cand, reportedCode, installerVars, coordVars, occupied>>

(* create_release() of an admitted artifact; (tenant, artifact) is unique. *)
CreateRelease(w, r) ==
    /\ AtOnce(w)
    /\ release[r] = "ADMITTED"
    /\ release' = [release EXCEPT ![r] = "ACTIVE"]
    /\ UNCHANGED <<cand, reportedCode, installerVars, coordVars, occupied>>

(* retire_release() leaves the candidates alone.                           *)
RetireRelease(w, r) ==
    /\ AtOnce(w)
    /\ release[r] = "ACTIVE"
    /\ release' = [release EXCEPT ![r] = "RETIRED"]
    /\ UNCHANGED <<cand, reportedCode, installerVars, coordVars, occupied>>

(* assign_release() reads the release before it locks the device.          *)
AssignRead(w, r) ==
    /\ release[r] = "ACTIVE"
    /\ Begin(w, [op |-> "ASSIGN", r |-> r])
    /\ UNCHANGED apkVars

(* Mutant: only a candidate of the same release is looked for.             *)
OfferSlotUnchecked(r) == cand[r] = "NONE"
(* Neither this release nor another pending one is offered; the partial    *)
(* unique index says the same.                                             *)
OfferSlotFree(r) ==
    cand[r] = "NONE" /\ \A q \in Releases : cand[q] # "OFFERED"

(* The gates of the device: a higher version, nothing that runs on it;     *)
(* ring, capability and schema do not change here.                         *)
GatesPass(r) == reportedCode < r /\ ~occupied

AssignCommit(w) ==
    LET r == req[w].r IN
    /\ req[w].op = "ASSIGN"
    /\ cand' = IF GatesPass(r) /\ OfferSlotFree(r)
               THEN [cand EXCEPT ![r] = "OFFERED"] ELSE cand
    /\ End(w)
    /\ UNCHANGED <<release, reportedCode, installerVars, coordVars, occupied>>

(* A heartbeat tells the server which version runs.                        *)
ReportVersion(w) ==
    /\ AtOnce(w)
    /\ reportedCode # installed /\ reportedCode' = installed
    /\ UNCHANGED <<release, cand, installerVars, coordVars, occupied>>

(* report_downloaded(), called by the coordinator with the verified digest.*)
(* The status it read is overwritten unconditionally at commit; the answer *)
(* may be lost.                                                            *)
DownloadedRead(w) ==
    /\ app = "IDLE" /\ pending.stage = "DOWNLOADED"
    /\ Begin(w, [op |-> "DOWNLOADED", r |-> pending.r, saw |-> cand[pending.r]])
    /\ UNCHANGED apkVars

DownloadedCommit(w) ==
    LET r == req[w].r IN
    /\ req[w].op = "DOWNLOADED"
    /\ cand' = IF req[w].saw = "OFFERED" THEN [cand EXCEPT ![r] = "DOWNLOADED"] ELSE cand
    /\ \/ UNCHANGED pending
       \/ /\ app = "IDLE" /\ pending.r = r /\ pending.stage = "DOWNLOADED"
          /\ req[w].saw \in {"OFFERED", "DOWNLOADED"}
          /\ pending' = [pending EXCEPT !.stage = "REPORTED_DOWNLOADED"]
    /\ End(w)
    /\ UNCHANGED <<release, reportedCode, installerVars, receipts, rejected, window,
                   occupied, app>>

(* report_installed(), from drainReceipts(): kept until it is acknowledged.*)
ReceiptRead(w, rc) ==
    /\ app = "IDLE" /\ rc \in receipts
    /\ Begin(w, [op |-> "RECEIPT", rc |-> rc, saw |-> cand[rc[1]]])
    /\ UNCHANGED apkVars

(* Mutant: any receipt of an attempt settles the candidate.                *)
CountsAnyOutcome(rc) == TRUE
CountsAsInstalled(rc) == rc[2] = "INSTALLED"

ReceiptCommit(w) ==
    LET rc == req[w].rc IN
    /\ req[w].op = "RECEIPT"
    /\ cand' = IF req[w].saw # "INSTALLED" /\ CountsAsInstalled(rc)
               THEN [cand EXCEPT ![rc[1]] = "INSTALLED"] ELSE cand
    /\ \/ UNCHANGED receipts
       \/ app = "IDLE" /\ receipts' = receipts \ {rc}
    /\ End(w)
    /\ UNCHANGED <<release, reportedCode, installerVars, pending, rejected, window,
                   occupied, app>>

-----------------------------------------------------------------------------
(* poll(): a listed candidate that did not fail before is elected when its *)
(* version is higher than the installed one, and else noted as a failure.  *)
Elect(r) ==
    /\ app = "IDLE" /\ pending = NoPending
    /\ cand[r] \in {"OFFERED", "DOWNLOADED"} /\ r \notin rejected
    /\ IF r <= installed
       THEN rejected' = rejected \cup {r} /\ UNCHANGED pending
       ELSE /\ pending' = [NoPending EXCEPT !.r = r, !.stage = "DOWNLOADING",
                                            !.retired = release[r] = "RETIRED"]
            /\ UNCHANGED rejected
    /\ UNCHANGED <<reqVars, serverVars, installerVars, receipts, window, app, occupied>>

(* advanceDownload(): the bytes are complete and match the digest.         *)
Download ==
    /\ app = "IDLE" /\ pending.stage = "DOWNLOADING"
    /\ pending' = [pending EXCEPT !.stage = "DOWNLOADED"]
    /\ UNCHANGED <<reqVars, serverVars, installerVars, receipts, rejected, window, app, occupied>>

(* prepareInstall(): the session is persisted, then committed, then the    *)
(* commit is persisted; statuses wait for the driver's lock meanwhile.     *)
OpenSession(i) ==
    /\ app = "IDLE" /\ pending.stage = "REPORTED_DOWNLOADED"
    /\ ~pending.retired /\ ~occupied
    /\ sessions[i].state = "NONE" /\ \A j \in 1..(i - 1) : sessions[j].state # "NONE"
    /\ window' = TRUE /\ app' = "INSTALLING"
    /\ sessions' = [sessions EXCEPT ![i] = [r |-> pending.r, state |-> "STAGED"]]
    /\ pending' = [pending EXCEPT !.stage = "SESSION_STAGED", !.sid = i]
    /\ UNCHANGED <<reqVars, serverVars, statuses, installed, ever, receipts, rejected, occupied>>

CommitSession ==
    /\ app = "INSTALLING" /\ sessions[pending.sid].state = "STAGED"
    /\ sessions' = [sessions EXCEPT ![pending.sid].state = "COMMITTED"]
    /\ UNCHANGED <<reqVars, serverVars, statuses, installed, ever, coordVars, occupied>>

RecordCommit ==
    /\ app = "INSTALLING" /\ sessions[pending.sid].state # "STAGED"
    /\ pending' = [pending EXCEPT !.stage = "SESSION_COMMITTED"]
    /\ app' = "IDLE"
    /\ UNCHANGED <<reqVars, serverVars, installerVars, receipts, rejected, window, occupied>>

(* terminal(): the receipt, the end of the install window, no pending.     *)
Terminal(outcome) ==
    /\ receipts' = receipts \cup {<<pending.r, outcome>>}
    /\ pending' = NoPending /\ window' = FALSE

(* Mutant: the installer's SUCCESS is believed.                            *)
VerifiedBlindly == "INSTALLED"
(* finishWithVerification()                                                *)
Verified == IF installed = pending.r THEN "INSTALLED" ELSE "INTERRUPTED"

(* onInstallerStatus(): dropped without a pending install and for another  *)
(* session, unless the pending install has no session yet.                 *)
HandleStatus(e) ==
    /\ e \in statuses /\ app # "INSTALLING"
    /\ statuses' = statuses \ {e}
    /\ IF pending = NoPending \/ pending.sid \notin {0, e[1]}
       THEN UNCHANGED <<pending, receipts, window>>
       ELSE \/ e[2] = "ASK" /\ pending' = [pending EXCEPT !.stage = "AWAITING_USER_ACTION"]
                            /\ UNCHANGED <<receipts, window>>
            \/ e[2] = "SUCCESS" /\ Terminal(Verified)
            \/ e[2] = "ABORTED" /\ Terminal("USER_DECLINED")
            \/ e[2] = "FAILURE" /\ Terminal("FAILED")
    /\ UNCHANGED <<reqVars, serverVars, sessions, installed, ever, rejected, app, occupied>>

(* recoverAfterRestart(): a session that was handed over is judged by what *)
(* is installed; a question to the user stays open.                        *)
Recover ==
    /\ app = "RECOVER" /\ app' = "IDLE"
    /\ IF pending.stage \in {"SESSION_STAGED", "SESSION_COMMITTED"}
       THEN Terminal(Verified) ELSE UNCHANGED <<pending, receipts, window>>
    /\ UNCHANGED <<reqVars, serverVars, installerVars, rejected, occupied>>

(* The process dies: the suspension of claiming is only in memory, and an  *)
(* uncommitted session is abandoned.                                       *)
AppDies ==
    /\ app # "RECOVER" /\ app' = "RECOVER" /\ window' = FALSE
    /\ sessions' = [i \in SessionIds |-> IF sessions[i].state = "STAGED"
                                         THEN [sessions[i] EXCEPT !.state = "OVER"] ELSE sessions[i]]
    /\ UNCHANGED <<reqVars, serverVars, statuses, installed, ever, pending, receipts,
                   rejected, occupied>>

-----------------------------------------------------------------------------
(* PackageInstaller works on a committed session: it asks the user, or     *)
(* ends it.  It refuses a version below the installed one.                 *)
InstallerAsks(i) ==
    /\ sessions[i].state = "COMMITTED"
    /\ sessions' = [sessions EXCEPT ![i].state = "ASKED"]
    /\ statuses' = statuses \cup {<<i, "ASK">>}
    /\ UNCHANGED <<reqVars, serverVars, coordVars, installed, ever, occupied>>

InstallerEnds(i, outcome) ==
    /\ sessions[i].state \in {"COMMITTED", "ASKED"}
    /\ sessions' = [sessions EXCEPT ![i].state = "OVER"]
    /\ statuses' = statuses \cup {<<i, outcome>>}
    /\ IF outcome = "SUCCESS"
       THEN /\ sessions[i].r >= installed
            /\ installed' = sessions[i].r /\ ever' = ever \cup {sessions[i].r}
       ELSE UNCHANGED <<installed, ever>>
    /\ UNCHANGED <<reqVars, serverVars, coordVars, occupied>>

(* A task is claimed, unless claiming is suspended, and ends.              *)
DeviceTaskMoves ==
    /\ IF occupied THEN occupied' = FALSE ELSE ~window /\ occupied' = TRUE
    /\ UNCHANGED <<reqVars, serverVars, installerVars, coordVars>>

ApkNext ==
    \/ \E w \in Workers :
          \/ \E r \in Releases : \/ RegisterApk(w, r) \/ CreateRelease(w, r)
                                 \/ RetireRelease(w, r) \/ AssignRead(w, r)
          \/ AssignCommit(w) \/ ReportVersion(w) \/ DownloadedRead(w) \/ DownloadedCommit(w)
          \/ \E rc \in receipts : ReceiptRead(w, rc)
          \/ ReceiptCommit(w)
    \/ \E r \in Releases : Elect(r)
    \/ Download \/ CommitSession \/ RecordCommit \/ Recover \/ AppDies \/ DeviceTaskMoves
    \/ \E i \in SessionIds :
          \/ OpenSession(i) \/ InstallerAsks(i)
          \/ \E o \in {"SUCCESS", "ABORTED", "FAILURE"} : InstallerEnds(i, o)
    \/ \E e \in statuses : HandleStatus(e)

-----------------------------------------------------------------------------
(* The rollout view never claims more than the device has done: a          *)
(* candidate is INSTALLED only when the device has run that version,       *)
(* whatever sessions were interrupted, finished late or reported for       *)
(* another candidate; and at most one candidate is on offer.               *)
RolloutTruthful ==
    /\ \A r \in Releases : cand[r] = "INSTALLED" => r \in ever
    /\ \A q, r \in Releases : cand[q] = "OFFERED" /\ cand[r] = "OFFERED" => q = r
=============================================================================
