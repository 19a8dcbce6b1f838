------------------------------- MODULE ImInbox -------------------------------
(***************************************************************************)
(* The operator inbox of one buyer thread: pushed notifications, their     *)
(* classification by rule, model and operator, and replies sent through    *)
(* the device (im_service.py, im_classification.py, im_observer.py).       *)
(* Messages are numbered by the time they occurred.                        *)
(***************************************************************************)
EXTENDS ApiRequests, FiniteSets, FiniteSetsExt, Sequences, SequencesExt

CONSTANTS Msgs,          \* inbound messages, numbers
          RuleMsgs,      \* messages notification_rule() recognises
          LegacyMsgs,    \* messages stored before classification existed
          QueueCap,      \* capacity of the observer queue
          MaxReclass     \* bound: model generations of one message

ASSUME InboxAssumption ==
    /\ Msgs \subseteq Nat /\ IsFiniteSet(Msgs)
    /\ RuleMsgs \subseteq Msgs /\ LegacyMsgs \subseteq Msgs
    /\ QueueCap \in Nat \ {0} /\ MaxReclass \in Nat \ {0}

VARIABLES inbox,         \* inbound messages stored in the thread
          unread,        \* the thread's unread_count
          unseen,        \* history: messages stored since the last mark_read()
          cls,           \* cls[m]: the im_classification row
          obsq,          \* the observer's queue of <<message, generation>>
          observer,      \* what its worker classifies: an observation, or <<>>
          lost,          \* history: messages whose observation was lost
          replies,       \* reply tasks: status by idempotency key
          outbox,        \* outbound messages: delivery state by reply key
          cooling,       \* a reply was stored less than REPLY_COOLDOWN ago
          holder         \* worker that holds the thread row lock, or {}

imVars == <<inbox, unread, unseen, cls, obsq, observer, lost,
            replies, outbox, cooling, holder>>
intakeVars == <<inbox, unread, unseen>>
modelVars == <<cls, obsq, observer, lost>>
replyVars == <<replies, outbox, cooling, holder>>

(* A reply is named by the last inbound message and by how many replies    *)
(* the thread has.                                                         *)
ReplyKeys == Msgs \X (0..MaxRequests)
ReplyFinal == {"DELIVERED", "FAILED"}

NoClass == [ver |-> 0, gen |-> 0, manual |-> FALSE, src |-> "UNCLASSIFIED",
            by |-> 0, model |-> "DISABLED"]
(* new_classification(), with an observer configured                       *)
NewClass(m) == [NoClass EXCEPT !.ver = 1, !.gen = 1, !.model = "PENDING",
                               !.src = IF m \in RuleMsgs THEN "RULE" ELSE @]

ImInit ==
    /\ inbox = LegacyMsgs /\ unread = 0 /\ unseen = {}
    /\ cls = [m \in Msgs |-> NoClass]
    /\ obsq = <<>> /\ observer = <<>> /\ lost = {}
    /\ replies = [k \in ReplyKeys |-> "NONE"]
    /\ outbox = [k \in ReplyKeys |-> "NONE"]
    /\ cooling = FALSE /\ holder = {}

-----------------------------------------------------------------------------
(* ingest(): the dedupe key is read before the thread row is locked.       *)
IngestRead(w, m) ==
    /\ m \notin inbox
    /\ Begin(w, [op |-> "INGEST", m |-> m])
    /\ UNCHANGED imVars

(* Mutant: nothing refuses a key that was stored since it was read.        *)
KeyFreeUnchecked(m) == TRUE
(* The unique dedupe_key constraint of im_message.                         *)
KeyFree(m) == m \notin inbox

IngestCommit(w) ==
    /\ req[w].op = "INGEST" /\ holder = {}
    /\ IF KeyFree(req[w].m)
       THEN /\ inbox' = inbox \cup {req[w].m}
            /\ unread' = unread + 1
            /\ unseen' = unseen \cup {req[w].m}
            /\ cls' = [cls EXCEPT ![req[w].m] = NewClass(req[w].m)]
            /\ req' = [req EXCEPT ![w] = [op |-> "SUBMIT", m |-> req[w].m, gen |-> 1]]
            /\ UNCHANGED left
       ELSE End(w) /\ UNCHANGED <<intakeVars, cls>>
    /\ UNCHANGED <<obsq, observer, lost, replyVars>>

(* mark_read() takes the lock reply() and ingest() take.                   *)
MarkRead(w) ==
    /\ AtOnce(w) /\ holder = {}
    /\ unread' = 0 /\ unseen' = {}
    /\ UNCHANGED <<inbox, modelVars, replyVars>>

-----------------------------------------------------------------------------
(* persist_assessment() drops the result of an obsolete generation; a rule *)
(* outranks the model, and no answer leaves the message unclassified.      *)
(* Mutant: the result of any generation is written.                        *)
CurrentAny(o) == TRUE
Current(o) == cls[o[1]].gen = o[2]

Persisted(o, answered, status) ==
    LET c == cls[o[1]] IN
    IF ~Current(o) THEN cls
    ELSE [cls EXCEPT ![o[1]] =
            [c EXCEPT !.ver = @ + 1, !.model = status,
                      !.src = IF o[1] \in RuleMsgs THEN @
                              ELSE IF answered THEN "MODEL" ELSE "UNCLASSIFIED",
                      !.by = IF answered THEN o[2] ELSE @]]

(* submit(): a full queue or a refusal is persisted as the model's status. *)
(* Mutant: it is only logged.                                              *)
RefusedSilently(o) == cls
Refused(o) == Persisted(o, FALSE, "QUEUE_FULL")

SubmitObservation(w) ==
    LET o == <<req[w].m, req[w].gen>> IN
    /\ req[w].op = "SUBMIT"
    /\ IF Len(obsq) < QueueCap
       THEN obsq' = Append(obsq, o) /\ UNCHANGED cls
       ELSE cls' = Refused(o) /\ UNCHANGED obsq
    /\ End(w)
    /\ UNCHANGED <<intakeVars, observer, lost, replyVars>>

(* _run(): take one, ask the model over HTTP, persist what it said.        *)
ObserverTakes ==
    /\ observer = <<>> /\ obsq # <<>>
    /\ observer' = Head(obsq) /\ obsq' = Tail(obsq)
    /\ UNCHANGED <<reqVars, intakeVars, cls, lost, replyVars>>

ObserverSettles ==
    /\ observer # <<>>
    /\ \/ cls' = Persisted(observer, TRUE, "CLASSIFIED")
       \/ cls' = Persisted(observer, FALSE, "TIMEOUT")
    /\ observer' = <<>>
    /\ UNCHANGED <<reqVars, intakeVars, obsq, lost, replyVars>>

(* close(): the observation in work and the queued ones are persisted as   *)
(* SHUTDOWN, one at a time.                                                *)
ObserverCloses ==
    \/ /\ observer # <<>>
       /\ cls' = Persisted(observer, FALSE, "SHUTDOWN") /\ observer' = <<>>
       /\ UNCHANGED <<reqVars, intakeVars, obsq, lost, replyVars>>
    \/ /\ observer = <<>> /\ obsq # <<>>
       /\ cls' = Persisted(Head(obsq), FALSE, "SHUTDOWN") /\ obsq' = Tail(obsq)
       /\ UNCHANGED <<reqVars, intakeVars, observer, lost, replyVars>>

(* The write of a result fails (PERSISTENCE_ERROR is only logged), or the  *)
(* process dies with everything it holds in memory.                        *)
ObservationsLost ==
    /\ \/ observer # <<>> /\ lost' = lost \cup {observer[1]} /\ UNCHANGED obsq
       \/ /\ observer # <<>> \/ obsq # <<>>
          /\ lost' = lost \cup {o[1] : o \in ({observer} \ {<<>>}) \cup ToSet(obsq)}
          /\ obsq' = <<>>
    /\ observer' = <<>>
    /\ UNCHANGED <<reqVars, intakeVars, cls, replyVars>>

-----------------------------------------------------------------------------
(* An operator's request carries the version he saw; the row is locked     *)
(* through its message and a changed version is refused.                   *)
ReviewRead(w, m, what) ==
    /\ m \in inbox /\ cls[m].gen < MaxReclass
    /\ Begin(w, [op |-> what, m |-> m, saw |-> cls[m].ver])
    /\ UNCHANGED imVars

Reviewed(m) ==
    IF cls[m].ver = 0 THEN [NoClass EXCEPT !.ver = 1, !.gen = 1]
                      ELSE [cls[m] EXCEPT !.ver = @ + 1]

(* correct_classification()                                                *)
Correct(w) ==
    /\ req[w].op = "CORRECT"
    /\ cls' = IF req[w].saw = cls[req[w].m].ver
              THEN [cls EXCEPT ![req[w].m] = [Reviewed(req[w].m) EXCEPT !.manual = TRUE]]
              ELSE cls
    /\ End(w)
    /\ UNCHANGED <<intakeVars, obsq, observer, lost, replyVars>>

(* reclassify(): a new generation, judged by the rule until the model      *)
(* answers.                                                                *)
Reclassify(w) ==
    LET m == req[w].m IN
    /\ req[w].op = "RECLASSIFY"
    /\ IF req[w].saw = cls[m].ver
       THEN /\ cls' = [cls EXCEPT ![m] =
                  [Reviewed(m) EXCEPT !.gen = @ + 1, !.model = "PENDING",
                       !.src = IF m \in RuleMsgs THEN "RULE" ELSE "UNCLASSIFIED"]]
            /\ req' = [req EXCEPT ![w] = [op |-> "SUBMIT", m |-> m,
                                          gen |-> Reviewed(m).gen + 1]]
            /\ UNCHANGED left
       ELSE End(w) /\ UNCHANGED cls
    /\ UNCHANGED <<intakeVars, obsq, observer, lost, replyVars>>

-----------------------------------------------------------------------------
(* reply() holds the thread row lock from here to its end, and is refused  *)
(* while a reply is recent or the device is busy.                          *)
ReplyCount == Cardinality({k \in ReplyKeys : outbox[k] # "NONE"})

ReplyRead(w) ==
    /\ holder = {} /\ ~cooling /\ inbox # {}
    /\ \A k \in ReplyKeys : replies[k] # "RUNNING"
    /\ Begin(w, [op |-> "REPLY", k |-> <<Max(inbox), ReplyCount>>])
    /\ holder' = {w}
    /\ UNCHANGED <<intakeVars, modelVars, replies, outbox, cooling>>

(* create_task() commits in a transaction of its own; a key that exists    *)
(* ends the request.                                                       *)
ReplyCreateTask(w) ==
    /\ req[w].op = "REPLY"
    /\ IF replies[req[w].k] = "NONE"
       THEN /\ replies' = [replies EXCEPT ![req[w].k] = "QUEUED"]
            /\ req' = [req EXCEPT ![w] = [op |-> "REPLIED", k |-> req[w].k]]
            /\ UNCHANGED <<left, holder>>
       ELSE End(w) /\ holder' = {} /\ UNCHANGED replies
    /\ UNCHANGED <<intakeVars, modelVars, outbox, cooling>>

ReplyCommit(w) ==
    /\ req[w].op = "REPLIED"
    /\ outbox' = [outbox EXCEPT ![req[w].k] = "PENDING"]
    /\ cooling' = TRUE /\ holder' = {}
    /\ End(w)
    /\ UNCHANGED <<intakeVars, modelVars, replies>>

Cooled ==
    /\ cooling /\ cooling' = FALSE
    /\ UNCHANGED <<reqVars, intakeVars, modelVars, replies, outbox, holder>>

(* The device runs the reply task; whoever writes its terminal state       *)
(* settles the outbound message with it, if there is one.                  *)
(* Mutant: a later failure overwrites DELIVERED.                           *)
DeliveredMayFail(k, s) == outbox[k] # "NONE"
Settleable(k, s) == outbox[k] \notin {"NONE", "DELIVERED"}

DeviceReplies(k) ==
    /\ \/ /\ replies[k] = "QUEUED"
          /\ replies' = [replies EXCEPT ![k] = "RUNNING"] /\ UNCHANGED outbox
       \/ /\ replies[k] \in {"QUEUED", "RUNNING"}
          /\ \E s \in ReplyFinal :
                /\ replies' = [replies EXCEPT ![k] = s]
                /\ outbox' = IF Settleable(k, s) THEN [outbox EXCEPT ![k] = s] ELSE outbox
    /\ UNCHANGED <<reqVars, intakeVars, modelVars, cooling, holder>>

(* The worker dies: its open transaction and its row lock are gone.        *)
ImCrash(w) ==
    /\ req[w].op \in {"INGEST", "SUBMIT", "CORRECT", "RECLASSIFY", "REPLY", "REPLIED"}
    /\ lost' = IF req[w].op = "SUBMIT" THEN lost \cup {req[w].m} ELSE lost
    /\ holder' = holder \ {w}
    /\ End(w)
    /\ UNCHANGED <<intakeVars, cls, obsq, observer, replies, outbox, cooling>>

ImNext ==
    \/ \E w \in Workers :
          \/ \E m \in Msgs : \/ IngestRead(w, m)
                             \/ \E what \in {"CORRECT", "RECLASSIFY"} : ReviewRead(w, m, what)
          \/ IngestCommit(w) \/ MarkRead(w) \/ SubmitObservation(w)
          \/ Correct(w) \/ Reclassify(w)
          \/ ReplyRead(w) \/ ReplyCreateTask(w) \/ ReplyCommit(w) \/ ImCrash(w)
    \/ ObserverTakes \/ ObserverSettles \/ ObserverCloses \/ ObservationsLost
    \/ Cooled \/ \E k \in ReplyKeys : DeviceReplies(k)

-----------------------------------------------------------------------------
(* The unread badge counts exactly the messages stored since the thread    *)
(* was last marked read, however pushes of the same notification overlap.  *)
UnreadCounts == unread = Cardinality(unseen)

OnItsWay(m) ==
    \/ \E w \in Workers : req[w].op = "SUBMIT" /\ req[w].m = m /\ req[w].gen = cls[m].gen
    \/ <<m, cls[m].gen>> \in {observer} \cup ToSet(obsq)

(* What the inbox shows as the model's opinion was formed for the present  *)
(* generation of the message, and a message that waits for the model is    *)
(* really waiting: its observation is queued, unless a crash or a failed   *)
(* write lost it.                                                          *)
AssessmentCurrent ==
    \A m \in Msgs :
       /\ cls[m].src = "MODEL" => cls[m].by = cls[m].gen
       /\ cls[m].model = "PENDING" => OnItsWay(m) \/ m \in lost

(* The inbox is true to the messages: the badge and the assessments.       *)
InboxTrue == UnreadCounts /\ AssessmentCurrent
=============================================================================
