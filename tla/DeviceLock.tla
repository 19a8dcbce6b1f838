----------------------------- MODULE DeviceLock -----------------------------
(***************************************************************************)
(* scripts/device_lock.py: the lock table of acceptance sessions, a SQLite *)
(* file every worktree shares.  A command takes its time of day first,     *)
(* then opens the file (creating it if it is the first) and then runs one  *)
(* BEGIN IMMEDIATE transaction, for which it may wait: what it decides on  *)
(* is the time it started at.  A worker here is a session at a shell.      *)
(***************************************************************************)
EXTENDS ApiRequests

CONSTANTS Ttls,          \* lifetimes asked for (validate_ttl), ticks
          MaxTime        \* bound: the clock

ASSUME LockAssumption == Ttls \subseteq Nat \ {0} /\ MaxTime \in Nat

VARIABLES store,         \* the database file: ABSENT, EMPTY (no schema), READY
          lock,          \* row of locks, or NoLock
          counter,       \* next_fencing
          audit,         \* rows of audit that changed the lock
          holding,       \* holding[w]: what the session was told, or NoLock
          clock

lockVars == <<store, lock, counter, audit, holding, clock>>

NoLock == [fencing |-> 0, expires |-> 0]

LockInit ==
    /\ store = "ABSENT" /\ lock = NoLock /\ counter = 1 /\ audit = {}
    /\ holding = [w \in Workers |-> NoLock] /\ clock = 0

(* _describe(): a row is HELD or STALE at a moment, no row is FREE.        *)
Describe(at) ==
    IF lock = NoLock THEN "FREE" ELSE IF lock.expires > at THEN "HELD" ELSE "STALE"

(* main(): the command and the time it starts at.                          *)
StartCommand(w, c, ttl, f) ==
    /\ Begin(w, [op |-> c, at |-> clock, ttl |-> ttl, fencing |-> f,
                 opened |-> FALSE, fresh |-> store = "ABSENT"])
    /\ UNCHANGED lockVars

Opening(w) == req[w] # Idle /\ ~req[w].opened
Running(w, c) == req[w] # Idle /\ req[w].opened /\ req[w].op = c

(* _connect_writer(): the file is made if absent, the schema is made or    *)
(* checked in a transaction of its own.                                    *)
OpenStore(w) ==
    /\ Opening(w)
    /\ store' = "READY"
    /\ req' = [req EXCEPT ![w].opened = TRUE]
    /\ UNCHANGED <<left, lock, counter, audit, holding, clock>>

(* Another command is creating the file: the attempt is repeated if the    *)
(* file was absent when it began, else the command fails with exit 5.      *)
OpenContended(w) ==
    /\ Opening(w) /\ store # "READY" /\ \E v \in Workers \ {w} : Opening(v)
    /\ store' = "EMPTY"
    /\ IF req[w].fresh
       THEN req' = [req EXCEPT ![w].fresh = FALSE] /\ UNCHANGED left
       ELSE End(w)
    /\ UNCHANGED <<lock, counter, audit, holding, clock>>

(* acquire(): only a FREE device; a STALE lock is not taken over.          *)
Acquire(w) ==
    LET granted == [fencing |-> counter, expires |-> req[w].at + req[w].ttl] IN
    /\ Running(w, "ACQUIRE")
    /\ IF Describe(req[w].at) # "FREE"
       THEN UNCHANGED <<lock, counter, audit, holding>>
       ELSE /\ lock' = granted /\ counter' = counter + 1
            /\ audit' = audit \cup {<<"acquire", counter>>}
            /\ holding' = [holding EXCEPT ![w] = granted]
    /\ End(w)
    /\ UNCHANGED <<store, clock>>

(* _require_owner(): the fencing given and the token kept since acquire()  *)
(* (one token per fencing) are both those of the row.                      *)
(* Mutant: the token is compared only when the fencing is not.             *)
OwnerByEither(w) == lock # NoLock /\ lock.fencing \in {req[w].fencing, holding[w].fencing}
Owner(w) == lock # NoLock /\ lock.fencing = req[w].fencing /\ lock.fencing = holding[w].fencing

(* renew(): a HELD lock of the session.                                    *)
Renew(w) ==
    LET until == req[w].at + req[w].ttl IN
    /\ Running(w, "RENEW")
    /\ IF Owner(w) /\ Describe(req[w].at) = "HELD"
       THEN /\ lock' = [lock EXCEPT !.expires = until]
            /\ holding' = [holding EXCEPT ![w] = [fencing |-> req[w].fencing, expires |-> until]]
            /\ audit' = audit \cup {<<"renew", req[w].fencing>>}
       ELSE UNCHANGED <<lock, holding, audit>>
    /\ End(w)
    /\ UNCHANGED <<store, counter, clock>>

(* release(): HELD or STALE.  The session forgets the lock either way.     *)
Release(w) ==
    /\ Running(w, "RELEASE")
    /\ IF Owner(w)
       THEN lock' = NoLock /\ audit' = audit \cup {<<"release", req[w].fencing>>}
       ELSE UNCHANGED <<lock, audit>>
    /\ holding' = [holding EXCEPT ![w] = NoLock]
    /\ End(w)
    /\ UNCHANGED <<store, counter, clock>>

(* What break_stale() demands of the row.                                  *)
(* Mutant: a lock about to expire may be broken too.                       *)
BreakableSoon(at, f) == lock.fencing = f /\ lock.expires <= at + 1
Breakable(at, f) == lock.fencing = f /\ Describe(at) = "STALE"

(* break_stale(): any operator, naming the fencing seen in status().       *)
BreakStale(w) ==
    /\ Running(w, "BREAK")
    /\ IF lock # NoLock /\ Breakable(req[w].at, req[w].fencing)
       THEN lock' = NoLock /\ audit' = audit \cup {<<"break_stale", req[w].fencing>>}
       ELSE UNCHANGED <<lock, audit>>
    /\ End(w)
    /\ UNCHANGED <<store, counter, holding, clock>>

(* The session is killed: an open transaction is rolled back and the owner *)
(* token is lost with it.                                                  *)
SessionDies(w) ==
    /\ req[w] # Idle \/ holding[w] # NoLock
    /\ End(w)
    /\ holding' = [holding EXCEPT ![w] = NoLock]
    /\ UNCHANGED <<store, lock, counter, audit, clock>>

LockTick == clock < MaxTime /\ clock' = clock + 1
            /\ UNCHANGED <<reqVars, store, lock, counter, audit, holding>>

LockNext ==
    \/ \E w \in Workers :
          \/ \E ttl \in Ttls : StartCommand(w, "ACQUIRE", ttl, 0)
          \/ \E ttl \in Ttls, f \in 1..(counter - 1) : StartCommand(w, "RENEW", ttl, f)
          \/ \E c \in {"RELEASE", "BREAK"}, f \in 1..(counter - 1) : StartCommand(w, c, 0, f)
          \/ OpenStore(w) \/ OpenContended(w)
          \/ Acquire(w) \/ Renew(w) \/ Release(w) \/ BreakStale(w)
          \/ SessionDies(w)
    \/ LockTick

-----------------------------------------------------------------------------
(* As long as the time a session was told has not passed, the lock is that *)
(* session's: however commands wait for one another, no other session gets *)
(* the device.  A fencing number that was released or broken is never used *)
(* again, so the audit tells which one holds the device.                   *)
LockExclusive ==
    /\ \A w \in Workers :
          holding[w].expires > clock => lock = holding[w]
    /\ LET of(act) == {f \in 1..counter : <<act, f>> \in audit} IN
       of("acquire") \ (of("release") \cup of("break_stale")) =
          IF lock = NoLock THEN {} ELSE {lock.fencing}
=============================================================================
