----------------------------- MODULE LamdaDriver -----------------------------
(***************************************************************************)
(* One device session of the Edge gateway: LamdaSession takes the device's *)
(* API lock through a sidecar process, an operation thread runs a command  *)
(* step by step behind the fencing guard, a second thread refreshes the    *)
(* lock, and both share one JSON-line transport.  The sidecar may die, an  *)
(* answer may be lost after its effect, the fence may move, the lock may   *)
(* lapse behind a long call and be taken by another client, the cached APK *)
(* may change on disk, and the gateway itself may die.                     *)
(***************************************************************************)
EXTENDS Integers, Sequences

CONSTANTS MaxDriverSessions,   \* bound: sessions one after another
          MaxFence,            \* bound: fencing tokens of the device
          LockTtl              \* lifetime of the API lock in refresh periods (three)

ASSUME DriverAssumption ==
    MaxDriverSessions \in Nat /\ MaxFence \in Nat /\ LockTtl \in Nat \ {0}

VARIABLES driver,        \* the session: LamdaSession and the command it runs
          refresher,     \* the refresh thread
          lockLost,      \* its _refresh_error
          pipe,          \* the transport: whose call, which operation, how far
          sidecar,       \* the sidecar process
          fence,         \* the current fencing token in the spool
          apiLock,       \* holder of the device's lock (0: nobody) and its lifetime
          cached,        \* the bytes of the APK in the artifact cache
          phoneApk,      \* the install session on the device
          late,          \* history: effects of a session whose fence has moved
          unreturned,    \* history: the session's release was not acknowledged
          swapped        \* history: the file changed between its check and its delivery

driverVars == <<driver, refresher, lockLost, pipe, sidecar, fence, apiLock, cached,
                phoneApk, late, unreturned, swapped>>

Stranger == -1
Silent == [by |-> "NONE", op |-> "NONE", phase |-> "NONE"]
NoApk == [bytes |-> "NONE", committed |-> FALSE, outcome |-> "NONE"]

(* install(), and tap() with its two capability checks and its selector    *)
Script(kind) ==
    IF kind = "INSTALL" THEN <<"create", "write", "commit", "state", "info">>
    ELSE <<"capabilities", "capabilities", "select", "tap">>
NextOp == Script(driver.kind)[driver.at]

DriverInit ==
    /\ driver = [n |-> 0, state |-> "OVER", kind |-> "UI", token |-> 0, at |-> 1,
                 ready |-> FALSE, result |-> "NONE"]
    /\ refresher = "OFF" /\ lockLost = FALSE /\ pipe = Silent /\ sidecar = "NONE"
    /\ fence = 1 /\ apiLock = [holder |-> 0, ttl |-> 0]
    /\ cached = "GOOD" /\ phoneApk = NoApk /\ late = 0 /\ unreturned = FALSE
    /\ swapped = FALSE

(* __enter__() of a command whose APK is fetched and whose fence is current*)
Enter(kind) ==
    /\ driver.state = "OVER" /\ driver.n < MaxDriverSessions
    /\ driver' = [n |-> driver.n + 1, state |-> "CONNECT", kind |-> kind, token |-> fence,
                  at |-> 1, ready |-> FALSE, result |-> "NONE"]
    /\ late' = 0 /\ lockLost' = FALSE /\ phoneApk' = NoApk /\ cached' = "GOOD"
    /\ unreturned' = FALSE /\ swapped' = FALSE
    /\ UNCHANGED <<refresher, pipe, sidecar, fence, apiLock>>

(* connect(): hello and connect, or the process is terminated again.       *)
Connect ==
    /\ driver.state = "CONNECT"
    /\ \/ sidecar' = "UP" /\ driver' = [driver EXCEPT !.state = "ACQUIRE"]
       \/ driver' = [driver EXCEPT !.state = "OVER", !.result = "FAILED"] /\ UNCHANGED sidecar
    /\ UNCHANGED <<refresher, lockLost, pipe, fence, apiLock, cached, phoneApk, late, unreturned, swapped>>

(* _JsonLineTransport.call(): one call at a time; a dead process answers   *)
(* at once.                                                                *)
Submit(by, op) ==
    /\ pipe.by = "NONE"
    /\ pipe' = [by |-> by, op |-> op, phase |-> IF sidecar = "UP" THEN "SENT" ELSE "ERR"]

UnguardedOp ==
    CASE driver.state = "ACQUIRE" -> "acquire"
      [] driver.state = "IDENTITY" -> "identity"
      [] driver.state = "RELEASE" -> "release"
      [] driver.state = "CLOSE" -> "close"

SendUnguarded ==
    /\ driver.state \in {"ACQUIRE", "IDENTITY", "RELEASE", "CLOSE"}
    /\ Submit("OP", UnguardedOp)
    /\ UNCHANGED <<driver, refresher, lockLost, sidecar, fence, apiLock, cached, phoneApk, late, unreturned, swapped>>

(* _operation_guard(), before every operation but installed_app().         *)
GuardPasses == ~lockLost /\ driver.token = fence

Guard ==
    /\ driver.state = "OPEN" /\ ~driver.ready /\ NextOp # "info" /\ pipe.by # "OP"
    /\ driver' = IF GuardPasses THEN [driver EXCEPT !.ready = TRUE]
                 ELSE [driver EXCEPT !.state = "STOP", !.result = "FAILED"]
    /\ UNCHANGED <<refresher, lockLost, pipe, sidecar, fence, apiLock, cached, phoneApk, late, unreturned, swapped>>

SendOp ==
    /\ driver.state = "OPEN" /\ (driver.ready \/ NextOp = "info")
    /\ Submit("OP", NextOp)
    /\ driver' = [driver EXCEPT !.ready = FALSE]
    /\ UNCHANGED <<refresher, lockLost, sidecar, fence, apiLock, cached, phoneApk, late, unreturned, swapped>>

-----------------------------------------------------------------------------
(* The sidecar: run_server(), dispatch(), the device.                      *)
Mine == apiLock.holder = driver.n
Admitted == apiLock.holder \in {0, driver.n}

(* acquire, refresh and release of the device's lock                       *)
LockServed ==
    CASE pipe.op = "acquire" -> apiLock.holder = 0
      [] OTHER -> Mine
LockAfter ==
    IF pipe.op = "release" THEN [holder |-> 0, ttl |-> 0] ELSE [holder |-> driver.n, ttl |-> LockTtl]

(* Operations that change the phone, and what they leave there.            *)
Touches == {"create", "write", "commit", "tap"}
Touched ==
    CASE pipe.op = "create" -> NoApk
      [] pipe.op = "write" -> [phoneApk EXCEPT !.bytes = cached]
      [] pipe.op = "commit" -> [phoneApk EXCEPT !.committed = TRUE]
      [] OTHER -> phoneApk

(* install_session_state() and installed_app() as install() reads them     *)
ReadServed ==
    CASE pipe.op \in {"state", "info"} -> Admitted /\ phoneApk.outcome = "INSTALLED"
      [] OTHER -> Admitted

Answer(phase) == pipe' = [pipe EXCEPT !.phase = phase]

ServeLock ==
    /\ pipe.phase = "SENT" /\ pipe.op \in {"acquire", "refresh", "release"} /\ LockServed
    /\ apiLock' = LockAfter
    /\ \E phase \in {"OK", "ERR"} : Answer(phase)
    /\ UNCHANGED <<driver, refresher, lockLost, sidecar, fence, cached, phoneApk, late, unreturned, swapped>>

(* _artifact(): path, size and digest of the cached file.                  *)
VerifyArtifact ==
    /\ pipe.phase = "SENT" /\ pipe.op = "write" /\ cached = "GOOD" /\ Answer("CHECKED")
    /\ UNCHANGED <<driver, refresher, lockLost, sidecar, fence, apiLock, cached, phoneApk, late, unreturned, swapped>>

(* The backend's call.  The file is opened again to deliver the part, and  *)
(* write_install_part() does not look at the digest it is given.           *)
ServeEffect ==
    /\ pipe.op \in Touches /\ Admitted
    /\ pipe.phase = IF pipe.op = "write" THEN "CHECKED" ELSE "SENT"
    /\ phoneApk' = Touched
    /\ late' = IF driver.token = fence THEN late ELSE late + 1
    /\ \E phase \in {"OK", "ERR"} : Answer(phase)
    /\ UNCHANGED <<driver, refresher, lockLost, sidecar, fence, apiLock, cached, unreturned, swapped>>

ServeRead ==
    /\ pipe.phase = "SENT" /\ pipe.op \in {"identity", "capabilities", "select", "state", "info"}
    /\ ReadServed /\ Answer("OK")
    /\ UNCHANGED <<driver, refresher, lockLost, sidecar, fence, apiLock, cached, phoneApk, late, unreturned, swapped>>

ServeClose ==
    /\ pipe.phase = "SENT" /\ pipe.op = "close"
    /\ sidecar' = "DEAD" /\ Answer("OK")
    /\ UNCHANGED <<driver, refresher, lockLost, fence, apiLock, cached, phoneApk, late, unreturned, swapped>>

(* map_exception(): the device refuses, times out or is not as expected.   *)
ServeError ==
    /\ pipe.phase \in {"SENT", "CHECKED"} /\ pipe.op # "close" /\ Answer("ERR")
    /\ UNCHANGED <<driver, refresher, lockLost, sidecar, fence, apiLock, cached, phoneApk, late, unreturned, swapped>>

SidecarDies ==
    /\ sidecar = "UP" /\ sidecar' = "DEAD"
    /\ pipe' = IF pipe.phase \in {"SENT", "CHECKED"} THEN [pipe EXCEPT !.phase = "ERR"] ELSE pipe
    /\ UNCHANGED <<driver, refresher, lockLost, fence, apiLock, cached, phoneApk, late, unreturned, swapped>>

-----------------------------------------------------------------------------
(* The answer reaches the operation thread.                                *)
(* Mutant: a session that failed to open is closed without its release.    *)
EnterFailedClosing == "CLOSE"
EnterFailed == "RELEASE"

Continued(ok) ==
    CASE driver.state = "ACQUIRE" -> [driver EXCEPT !.state = IF ok THEN "IDENTITY" ELSE EnterFailed,
                                                    !.result = IF ok THEN @ ELSE "FAILED"]
      [] driver.state = "IDENTITY" -> [driver EXCEPT !.state = IF ok THEN "OPEN" ELSE EnterFailed,
                                                     !.result = IF ok THEN @ ELSE "FAILED"]
      [] driver.state = "OPEN" ->
            IF ~ok THEN [driver EXCEPT !.state = "STOP", !.result = "FAILED"]
            ELSE IF driver.at = Len(Script(driver.kind))
            THEN [driver EXCEPT !.state = "STOP", !.result = "SUCCEEDED"]
            ELSE [driver EXCEPT !.at = @ + 1]
      [] driver.state = "RELEASE" -> [driver EXCEPT !.state = "CLOSE"]
      [] driver.state = "CLOSE" -> [driver EXCEPT !.state = "OVER"]

Receive ==
    /\ pipe.by = "OP" /\ pipe.phase \in {"OK", "ERR"}
    /\ driver' = Continued(pipe.phase = "OK")
    /\ refresher' = IF driver'.state = "OVER" THEN "OFF"
                    ELSE IF driver.state = "IDENTITY" /\ driver'.state = "OPEN" THEN "WAIT" ELSE refresher
    /\ sidecar' = IF driver'.state = "OVER" THEN "NONE" ELSE sidecar
    /\ unreturned' = (unreturned \/ (driver.state = "RELEASE" /\ pipe.phase = "ERR"))
    /\ pipe' = Silent
    /\ UNCHANGED <<lockLost, fence, apiLock, cached, phoneApk, late, swapped>>

(* __exit__(): stop and join the refresh thread, for a limited time.       *)
StopRefresh ==
    /\ driver.state = "STOP"
    /\ driver' = [driver EXCEPT !.state = "RELEASE"]
    /\ refresher' = IF refresher = "WAIT" THEN "OFF" ELSE refresher
    /\ UNCHANGED <<lockLost, pipe, sidecar, fence, apiLock, cached, phoneApk, late, unreturned, swapped>>

-----------------------------------------------------------------------------
(* _refresh_loop()                                                         *)
RefreshVerify ==
    /\ refresher = "DUE"
    /\ IF driver.token = fence THEN refresher' = "READY" /\ UNCHANGED lockLost
       ELSE refresher' = "OFF" /\ lockLost' = TRUE
    /\ UNCHANGED <<driver, pipe, sidecar, fence, apiLock, cached, phoneApk, late, unreturned, swapped>>

RefreshSend ==
    /\ refresher = "READY" /\ Submit("REFRESH", "refresh") /\ refresher' = "SENT"
    /\ UNCHANGED <<driver, lockLost, sidecar, fence, apiLock, cached, phoneApk, late, unreturned, swapped>>

RefreshReceive ==
    /\ pipe.by = "REFRESH" /\ pipe.phase \in {"OK", "ERR"} /\ pipe' = Silent
    /\ refresher' = IF pipe.phase = "OK" /\ driver.state = "OPEN" THEN "WAIT" ELSE "OFF"
    /\ lockLost' = (lockLost \/ pipe.phase = "ERR")
    /\ UNCHANGED <<driver, sidecar, fence, apiLock, cached, phoneApk, late, unreturned, swapped>>

-----------------------------------------------------------------------------
(* Time, the device, other clients and the gateway's own death.            *)
Tick ==
    /\ apiLock.ttl > 0 \/ refresher = "WAIT"
    /\ apiLock' = IF apiLock.ttl <= 1 THEN [holder |-> 0, ttl |-> 0]
                  ELSE [apiLock EXCEPT !.ttl = @ - 1]
    /\ refresher' = IF refresher = "WAIT" THEN "DUE" ELSE refresher
    /\ UNCHANGED <<driver, lockLost, pipe, sidecar, fence, cached, phoneApk, late, unreturned, swapped>>

StrangerLocks ==
    /\ apiLock.holder = 0 /\ apiLock' = [holder |-> Stranger, ttl |-> LockTtl]
    /\ UNCHANGED <<driver, refresher, lockLost, pipe, sidecar, fence, cached, phoneApk, late, unreturned, swapped>>

FenceMoves ==
    /\ fence < MaxFence /\ fence' = fence + 1
    /\ UNCHANGED <<driver, refresher, lockLost, pipe, sidecar, apiLock, cached, phoneApk, late, unreturned, swapped>>

(* The cached file changes on disk before the part is delivered.           *)
CacheChanges ==
    /\ driver.kind = "INSTALL" /\ driver.state = "OPEN" /\ phoneApk.bytes = "NONE"
    /\ cached = "GOOD" /\ cached' = "ALTERED"
    /\ swapped' = (swapped \/ pipe.phase = "CHECKED")
    /\ UNCHANGED <<driver, refresher, lockLost, pipe, sidecar, fence, apiLock, phoneApk, late, unreturned>>

PhoneInstalls ==
    /\ phoneApk.committed /\ phoneApk.outcome = "NONE"
    /\ \E o \in {"INSTALLED", "REFUSED"} : phoneApk' = [phoneApk EXCEPT !.outcome = o]
    /\ UNCHANGED <<driver, refresher, lockLost, pipe, sidecar, fence, apiLock, cached, late, unreturned, swapped>>

(* The sidecar reads the end of its input, closes its backends and exits.  *)
GatewayDies ==
    /\ driver.state # "OVER"
    /\ driver' = [driver EXCEPT !.state = "OVER", !.ready = FALSE]
    /\ refresher' = "OFF" /\ pipe' = Silent /\ sidecar' = "NONE"
    /\ unreturned' = TRUE
    /\ UNCHANGED <<lockLost, fence, apiLock, cached, phoneApk, late, swapped>>

DriverNext ==
    \/ \E kind \in {"INSTALL", "UI"} : Enter(kind)
    \/ Connect \/ SendUnguarded \/ Guard \/ SendOp
    \/ ServeLock \/ VerifyArtifact \/ ServeEffect \/ ServeRead \/ ServeClose \/ ServeError \/ SidecarDies
    \/ Receive \/ StopRefresh
    \/ RefreshVerify \/ RefreshSend \/ RefreshReceive
    \/ Tick \/ StrangerLocks \/ FenceMoves \/ CacheChanges \/ PhoneInstalls \/ GatewayDies

-----------------------------------------------------------------------------
(* Whatever dies, lapses or is lost: once the fence has moved a session    *)
(* touches the phone at most once more (the call already past its guard);  *)
(* a session that is over keeps no process, and keeps the device's lock    *)
(* only if its release was never acknowledged; altered bytes reach the     *)
(* phone only if the file changed after the sidecar had checked it, and    *)
(* but for that SUCCEEDED means the phone installed the approved ones.     *)
DriverAccountable ==
    /\ late <= 1
    /\ driver.state = "OVER" =>
          sidecar = "NONE" /\ (apiLock.holder = driver.n /\ driver.n > 0 => unreturned)
    /\ phoneApk.bytes = "ALTERED" => swapped
    /\ driver.kind = "INSTALL" /\ driver.result = "SUCCEEDED" =>
          phoneApk.bytes # "NONE" /\ phoneApk.committed /\ phoneApk.outcome = "INSTALLED"
=============================================================================
