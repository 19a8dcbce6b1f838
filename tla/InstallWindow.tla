---------------------------- MODULE InstallWindow ----------------------------
(***************************************************************************)
(* The supervised update of one phone (install-oneplus-v6.py): under the   *)
(* shared device lock the cloud device is put into maintenance, the APK is *)
(* installed once, the phone is watched, maintenance is left and the phone *)
(* watched again.  The cloud side (oneplus-v6-cloud.py) changes the flag   *)
(* only from the version it expects: 0 here is version 12 of the script.   *)
(* Meanwhile other operators change the flag, devices are leased, tasks    *)
(* created, the lock runs out, and any command may fail before or after it *)
(* took effect.                                                            *)
(***************************************************************************)
EXTENDS ApiRequests

CONSTANTS Beats,         \* heartbeats an observation asks for (three)
          MaxVersion     \* bound: version of the device row

ASSUME WindowAssumption == Beats \in Nat \ {0} /\ MaxVersion \in Nat

VARIABLES winStage,      \* what execute_window() does next
          win,           \* its locals and result
          flag,          \* maintenance, version of the device; who set it last
          cloudDrift,    \* occupancy, counts or identity are not as expected
          flagLeased,    \* the device has an active lease
          handset,       \* installed version, sync service running, a staged install
          phoneLog,      \* log since the watermark: heartbeats, deferrals, outage
          sharedLock,    \* holder of the shared device lock
          robbed         \* history: the window ended somebody else's maintenance

windowVars == <<winStage, win, flag, cloudDrift, flagLeased, handset, phoneLog, sharedLock, robbed>>
cloudVars == <<flag, cloudDrift, flagLeased>>

Nothing == [beats |-> 0, deferrals |-> 0, outage |-> FALSE]

WindowInit ==
    /\ winStage = "CANDIDATE"
    /\ win = [locked |-> FALSE, owned |-> FALSE, finished |-> FALSE, status |-> "RUNNING",
              recovery |-> FALSE, presence |-> FALSE, why |-> "NONE"]
    /\ flag = [maintenance |-> FALSE, version |-> 0, by |-> "OTHER"]
    /\ cloudDrift = FALSE /\ flagLeased = FALSE
    /\ handset = [code |-> 5, sync |-> FALSE, staged |-> FALSE] /\ phoneLog = Nothing
    /\ sharedLock = "FREE" /\ robbed = FALSE

(* The finally block: cleanup if the window owns the maintenance it has    *)
(* not finished, then the lock.                                            *)
(* Mutant: the lock is released without cleanup.                           *)
AfterwardsReleasing(r) == IF r.locked THEN "RELEASE" ELSE "OVER"
Afterwards(r) ==
    IF ~r.locked THEN "OVER" ELSE IF r.owned /\ ~r.finished THEN "CLEANUP" ELSE "RELEASE"

(* A command or a check raises.                                            *)
Raise(r, why) ==
    /\ win' = [r EXCEPT !.status = "FAILED", !.why = IF @ = "NONE" THEN why ELSE @]
    /\ winStage' = Afterwards(r)

(* snapshot() and validate_cloud()                                         *)
CloudGate(on, v) == flag.maintenance = on /\ flag.version = v /\ ~cloudDrift /\ ~flagLeased

(* dumpsys: the sync service runs in the foreground.                       *)
SyncForeground == handset.sync

(* runtime_status() and validate_runtime(), or the baseline of version 5.  *)
RuntimeReady == SyncForeground
BaselineRuntime == ~SyncForeground

(* package_snapshot() and validate_device_identity()                       *)
Installed(code) == handset.code = code

(* assert_no_target_staged_session()                                       *)
NothingStaged == ~handset.staged

CandidatePreflight ==
    /\ winStage = "CANDIDATE"
    /\ winStage' = "LOCK"
    /\ UNCHANGED <<reqVars, win, cloudVars, handset, phoneLog, sharedLock, robbed>>

(* acquire_lock(): a lost answer leaves the lock held by nobody's window.  *)
AcquireLock ==
    /\ winStage = "LOCK" /\ sharedLock = "FREE"
    /\ sharedLock' = "WINDOW"
    /\ \/ win' = [win EXCEPT !.locked = TRUE] /\ winStage' = "PREFLIGHT"
       \/ Raise(win, "LOCK_ANSWER")
    /\ UNCHANGED <<reqVars, cloudVars, handset, phoneLog, robbed>>

(* locked_preflight(): version 5 installed, sync service not running.      *)
LockedPreflight ==
    /\ winStage = "PREFLIGHT"
    /\ Installed(5) /\ BaselineRuntime /\ NothingStaged /\ CloudGate(FALSE, 0)
    /\ winStage' = "PREPARE"
    /\ UNCHANGED <<reqVars, win, cloudVars, handset, phoneLog, sharedLock, robbed>>

(* prepare-cas reads a snapshot, then asks for the change at version 0.    *)
PrepareRead ==
    /\ winStage = "PREPARE" /\ CloudGate(FALSE, 0)
    /\ winStage' = "CAS"
    /\ UNCHANGED <<reqVars, win, cloudVars, handset, phoneLog, sharedLock, robbed>>

(* set_maintenance() of the API                                            *)
SetFlag(on, who) == flag' = [maintenance |-> on, version |-> flag.version + 1, by |-> who]

PrepareCas ==
    /\ winStage = "CAS" /\ ~flagLeased /\ flag.version = 0
    /\ SetFlag(TRUE, "WINDOW")
    /\ \/ win' = [win EXCEPT !.owned = TRUE] /\ winStage' = "CONFIRM"
       \/ Raise(win, "CAS_ANSWER")
    /\ UNCHANGED <<reqVars, cloudDrift, flagLeased, handset, phoneLog, sharedLock, robbed>>

ConfirmPrepared ==
    /\ winStage = "CONFIRM" /\ CloudGate(TRUE, 1)
    /\ winStage' = "INSTALL"
    /\ UNCHANGED <<reqVars, win, cloudVars, handset, phoneLog, sharedLock, robbed>>

(* install_once(): adb may report a failure for an APK it installed.       *)
InstallOnce ==
    /\ winStage = "INSTALL"
    /\ phoneLog' = Nothing
    /\ handset' = [handset EXCEPT !.code = 6]
    /\ \/ winStage' = "WATCH" /\ UNCHANGED win
       \/ Raise(win, "INSTALL")
    /\ UNCHANGED <<reqVars, cloudVars, sharedLock, robbed>>

(* observe() samples the runtime until the log says enough or time is up.  *)
SamplesHealthy == ~phoneLog.outage

(* validate_observation()                                                  *)
Observed(deferrals, on, v) ==
    /\ phoneLog.beats >= Beats /\ SamplesHealthy /\ CloudGate(on, v)
    /\ deferrals => phoneLog.deferrals >= Beats - 1

(* observe_maintenance(): the runtime must come up by itself first.        *)
ObserveMaintenance ==
    /\ winStage = "WATCH" /\ Installed(6) /\ RuntimeReady
    /\ win' = [win EXCEPT !.recovery = Observed(TRUE, TRUE, 1)]
    /\ winStage' = "FINISH"
    /\ UNCHANGED <<reqVars, cloudVars, handset, phoneLog, sharedLock, robbed>>

(* Mutant: finish-owned looks at the flag and not at the version.          *)
OwnedStateAnyVersion == flag.maintenance
OwnedState == flag.maintenance /\ flag.version = 1

(* finish-owned: the change at version 1, or found done at version 2.      *)
EndOwned ==
    \/ /\ OwnedState /\ ~flagLeased
       /\ SetFlag(FALSE, "WINDOW") /\ robbed' = (robbed \/ flag.by # "WINDOW")
    \/ /\ ~flag.maintenance /\ flag.version = 2
       /\ UNCHANGED <<flag, robbed>>

FinishMaintenance ==
    /\ winStage = "FINISH"
    /\ EndOwned
    /\ \/ winStage' = "FINISHED" /\ UNCHANGED win
       \/ Raise(win, "FINISH_ANSWER")
    /\ UNCHANGED <<reqVars, cloudDrift, flagLeased, handset, phoneLog, sharedLock>>

(* finish_maintenance(): only a cloud that is as expected counts.          *)
VerifyFinished ==
    /\ winStage = "FINISHED" /\ CloudGate(FALSE, 2)
    /\ win' = [win EXCEPT !.owned = FALSE, !.finished = TRUE]
    /\ phoneLog' = Nothing /\ winStage' = "WATCH_AGAIN"
    /\ UNCHANGED <<reqVars, cloudVars, handset, sharedLock, robbed>>

ObservePostMaintenance ==
    /\ winStage = "WATCH_AGAIN"
    /\ win' = [win EXCEPT !.presence = Observed(FALSE, FALSE, 2)]
    /\ winStage' = "FINAL"
    /\ UNCHANGED <<reqVars, cloudVars, handset, phoneLog, sharedLock, robbed>>

FinalVerify ==
    /\ winStage = "FINAL" /\ Installed(6) /\ RuntimeReady /\ CloudGate(FALSE, 2)
    /\ win' = [win EXCEPT !.status = IF win.recovery /\ win.presence THEN "PROVEN" ELSE "NOT_PROVEN"]
    /\ winStage' = "RELEASE"
    /\ UNCHANGED <<reqVars, cloudVars, handset, phoneLog, sharedLock, robbed>>

(* Any command fails before it took effect, or its check refuses.          *)
CommandFails ==
    /\ winStage \notin {"CLEANUP", "RELEASE", "OVER"}
    /\ Raise(win, winStage)
    /\ UNCHANGED <<reqVars, cloudVars, handset, phoneLog, sharedLock, robbed>>

CleanupMaintenance ==
    /\ winStage = "CLEANUP"
    /\ \/ EndOwned /\ win' = [win EXCEPT !.owned = FALSE]
       \/ (EndOwned \/ UNCHANGED <<flag, robbed>>)
          /\ win' = [win EXCEPT !.status = "FAILED", !.why = "CLEANUP"]
    /\ winStage' = "RELEASE"
    /\ UNCHANGED <<reqVars, cloudDrift, flagLeased, handset, phoneLog, sharedLock>>

(* release_lock(): the fencing must still be the window's.                 *)
ReleaseLock ==
    /\ winStage = "RELEASE"
    /\ \/ sharedLock = "WINDOW" /\ sharedLock' = "FREE" /\ UNCHANGED win
       \/ win' = [win EXCEPT !.status = "FAILED"] /\ UNCHANGED sharedLock
    /\ winStage' = "OVER"
    /\ UNCHANGED <<reqVars, cloudVars, handset, phoneLog, robbed>>

-----------------------------------------------------------------------------
(* The rest of the world.                                                  *)
OtherSets(w, on) ==
    /\ AtOnce(w) /\ ~flagLeased /\ flag.version < MaxVersion
    /\ SetFlag(on, "OTHER")
    /\ UNCHANGED <<winStage, win, cloudDrift, flagLeased, handset, phoneLog, sharedLock, robbed>>

OthersWork(w) ==
    /\ AtOnce(w)
    /\ \/ ~cloudDrift /\ cloudDrift' = TRUE /\ UNCHANGED <<flagLeased, handset>>
       \/ flagLeased' = ~flagLeased /\ UNCHANGED <<cloudDrift, handset>>
       \/ /\ winStage = "PREFLIGHT" /\ handset' = [handset EXCEPT !.staged = TRUE]
          /\ UNCHANGED <<cloudDrift, flagLeased>>
    /\ UNCHANGED <<winStage, win, flag, phoneLog, sharedLock, robbed>>

(* The lock's lifetime is over and another window breaks and takes it.     *)
LockTaken(w) ==
    /\ AtOnce(w) /\ sharedLock = "WINDOW" /\ sharedLock' = "OTHER"
    /\ UNCHANGED <<winStage, win, cloudVars, handset, phoneLog, robbed>>

(* The sync service of version 6 starts, may stop, and talks to the cloud. *)
PhoneMoves ==
    /\ handset.code = 6
    /\ \/ /\ handset' = [handset EXCEPT !.sync = ~@]
          /\ phoneLog' = [phoneLog EXCEPT !.outage = @ \/ handset.sync]
       \/ /\ handset.sync /\ phoneLog.beats < Beats /\ UNCHANGED handset
          /\ phoneLog' = [phoneLog EXCEPT !.beats = @ + 1,
                                  !.deferrals = IF flag.maintenance THEN @ + 1 ELSE @]
    /\ UNCHANGED <<reqVars, winStage, win, cloudVars, sharedLock, robbed>>

WindowNext ==
    \/ CandidatePreflight \/ AcquireLock \/ LockedPreflight \/ PrepareRead \/ PrepareCas
    \/ ConfirmPrepared \/ InstallOnce \/ ObserveMaintenance \/ FinishMaintenance
    \/ VerifyFinished \/ ObservePostMaintenance \/ FinalVerify
    \/ CommandFails \/ CleanupMaintenance \/ ReleaseLock
    \/ \E w \in Workers :
          (\E on \in BOOLEAN : OtherSets(w, on)) \/ OthersWork(w) \/ LockTaken(w)
    \/ PhoneMoves

-----------------------------------------------------------------------------
(* Whatever fails in whatever place: the window never ends a maintenance   *)
(* that is not its own; when it is over and its own maintenance is still   *)
(* on, it says FAILED, and the reason is a lost answer of the very change  *)
(* or a refused cleanup; PROVEN means installed, watched in maintenance    *)
(* and out of it, and the lock given back.                                 *)
WindowAccountable ==
    /\ ~robbed
    /\ winStage = "OVER" /\ flag.maintenance /\ flag.by = "WINDOW" =>
          win.status = "FAILED" /\ win.why \in {"CAS_ANSWER", "CLEANUP"}
    /\ win.status = "PROVEN" =>
          /\ win.recovery /\ win.presence /\ win.finished /\ handset.code = 6
          /\ ~(flag.maintenance /\ flag.by = "WINDOW")
          /\ winStage = "OVER" => sharedLock # "WINDOW"
=============================================================================
