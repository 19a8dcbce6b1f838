----------------------------- MODULE FleetProofs -----------------------------
(***************************************************************************)
(* Invariants of the fleet services, for any number of workers, rows and   *)
(* requests.  A behaviour of FleetServices stays with one service, so the  *)
(* inductive invariant of a service is only claimed while it is the one    *)
(* that runs; the others cannot reach its rows.                            *)
(***************************************************************************)
EXTENDS FleetServices, FiniteSetTheorems, TLAPS

-----------------------------------------------------------------------------
(* The WeChat publisher                                                    *)

PubRows == [status : PubStates, tries : {0, 1}, id : BOOLEAN]
OfficialRows == [calls : Nat, state : OfficialStates]
WechatOps == {"IDLE", "ADD", "TOKEN", "CALL", "SETTLE", "POLL", "POLLED"}

(* The worker holds the single attempt of the draft.                       *)
Submitting(w, d) == req[w].op \in {"CALL", "SETTLE"} /\ req[w].d = d

WechatType ==
    /\ DOMAIN req = Workers
    /\ pub \in [Drafts -> PubRows]
    /\ official \in [Drafts -> OfficialRows]
    /\ \A w \in Workers : req[w].op \in WechatOps /\ (req[w].op # "IDLE" => req[w].d \in Drafts)

(* An attempt that was not spent called nothing, and nobody is about to.   *)
Unspent(d) ==
    /\ pub[d].status \in {"NONE", "INTENT"} => pub[d].tries = 0
    /\ pub[d].tries = 0 =>
          official[d].calls = 0 /\ official[d].state = "NONE" /\ \A w \in Workers : ~Submitting(w, d)

(* What the holder of the attempt knows is still so.                       *)
Attempt(w) ==
    /\ req[w].op \in {"CALL", "SETTLE"} => pub[req[w].d].status = "SUBMITTING"
    /\ req[w].op = "CALL" => official[req[w].d].calls = 0 /\ official[req[w].d].state = "NONE"
    /\ req[w].op = "SETTLE" =>
          /\ req[w].status \in {"SUBMITTED", "UNKNOWN", "FAILED"}
          /\ req[w].status = "FAILED" => official[req[w].d].state = "NONE"

(* What a poll saw of a final state is still the platform's state.         *)
PollTrue(w) ==
    req[w].op = "POLLED" =>
        /\ req[w].saw = "PUBLISHED" => official[req[w].d].state \in {"PUBLISHED", "REMOVED"}
        /\ req[w].saw \in {"REJECTED", "REMOVED"} => official[req[w].d].state = req[w].saw

OneAttempt ==
    \A v, w \in Workers, d \in Drafts : Submitting(v, d) /\ Submitting(w, d) => v = w

WechatInv ==
    /\ WechatType /\ SubmittedOnce /\ OneAttempt
    /\ \A d \in Drafts : Unspent(d)
    /\ \A w \in Workers : Attempt(w) /\ PollTrue(w)

LEMMA WechatStarts ==
  ASSUME WechatInit, req = [w \in Workers |-> Idle]
  PROVE  WechatInv
BY DEF WechatInit, Idle, WechatInv, WechatType, SubmittedOnce, OneAttempt, Unspent, Attempt, PollTrue,
       Submitting, PubRows, OfficialRows, WechatOps, PubStates, OfficialStates

\* The request of one worker is replaced by one that holds no attempt.
LEMMA WechatRequest ==
  ASSUME WechatInv, NEW w \in Workers, NEW r, req' = [req EXCEPT ![w] = r],
         r.op \in WechatOps \ {"CALL", "SETTLE"}, r.op # "IDLE" => r.d \in Drafts,
         r.op = "POLLED" => r.saw = official[r.d].state,
         UNCHANGED <<pub, official>>
  PROVE  WechatInv'
<1>1. req'[w] = r /\ DOMAIN req' = Workers /\ \A v \in Workers \ {w} : req'[v] = req[v]
  BY DEF WechatInv, WechatType
<1>2. WechatType'
  BY <1>1 DEF WechatInv, WechatType
<1>3. SubmittedOnce' /\ OneAttempt'
  BY <1>1 DEF WechatInv, SubmittedOnce, OneAttempt, Submitting
<1>4. ASSUME NEW d \in Drafts PROVE Unspent(d)'
  BY <1>1 DEF WechatInv, Unspent, Submitting
<1>5. ASSUME NEW v \in Workers PROVE (Attempt(v) /\ PollTrue(v))'
  <2>1. CASE v = w
    BY <1>1, <2>1 DEF Attempt, PollTrue, WechatInv, WechatType, OfficialRows, OfficialStates
  <2>2. CASE v # w
    BY <1>1, <2>2 DEF WechatInv, Attempt, PollTrue
  <2> QED BY <2>1, <2>2
<1> QED BY <1>2, <1>3, <1>4, <1>5 DEF WechatInv

\* The row of a draft nobody is submitting gets another status, and the
\* request that did it ends (or was one step).
LEMMA WechatRow ==
  ASSUME WechatInv, NEW d \in Drafts, NEW s \in PubStates, SetPub(d, s), UNCHANGED official,
         pub[d].status # "SUBMITTING", s \in {"NONE", "INTENT"} => pub[d].tries = 0,
         s = "PUBLISHED" => official[d].state \in {"PUBLISHED", "REMOVED"},
         s = "FAILED" => official[d].state \notin {"ACCEPTED", "PUBLISHED"},
         UNCHANGED req \/ \E w \in Workers : req' = [req EXCEPT ![w] = Idle]
  PROVE  WechatInv'
<1>1. /\ DOMAIN req' = Workers
      /\ \A v \in Workers : req'[v] = req[v] \/ req'[v].op = "IDLE"
  BY DEF WechatInv, WechatType, Idle
<1>2. /\ pub' \in [Drafts -> PubRows] /\ pub'[d].status = s /\ pub'[d].tries = pub[d].tries
      /\ \A e \in Drafts \ {d} : pub'[e] = pub[e]
  BY DEF WechatInv, WechatType, SetPub, PubRows
<1>3. WechatType'
  BY <1>1, <1>2 DEF WechatInv, WechatType, WechatOps
<1>4. SubmittedOnce'
  BY <1>2 DEF WechatInv, SubmittedOnce
<1>5. OneAttempt'
  BY <1>1 DEF WechatInv, OneAttempt, Submitting
<1>6. ASSUME NEW e \in Drafts PROVE Unspent(e)'
  BY <1>1, <1>2 DEF WechatInv, Unspent, Submitting
<1>7. ASSUME NEW v \in Workers PROVE (Attempt(v) /\ PollTrue(v))'
  <2>1. CASE req'[v].op = "IDLE"
    BY <2>1 DEF Attempt, PollTrue
  <2>2. CASE req'[v] = req[v]
    BY <1>2, <2>2 DEF WechatInv, WechatType, Attempt, PollTrue
  <2> QED BY <1>1, <2>1, <2>2
<1> QED BY <1>3, <1>4, <1>5, <1>6, <1>7 DEF WechatInv

LEMMA SpendInv ==
  ASSUME WechatInv, NEW w \in Workers, req[w].op = "TOKEN", NEW d, d = req[w].d, AwaitingSubmit(d),
         pub' = [pub EXCEPT ![d].tries = 1, ![d].status = "SUBMITTING"],
         req' = [req EXCEPT ![w] = [op |-> "CALL", d |-> d]], UNCHANGED official
  PROVE  WechatInv'
<1>1. d \in Drafts /\ pub[d].tries = 0 /\ \A v \in Workers : ~Submitting(v, d)
  BY DEF WechatInv, WechatType, AwaitingSubmit, Unspent
<1>2. /\ req'[w].op = "CALL" /\ req'[w].d = d /\ DOMAIN req' = Workers
      /\ \A v \in Workers \ {w} : req'[v] = req[v]
  BY DEF WechatInv, WechatType
<1>3. /\ pub' \in [Drafts -> PubRows] /\ pub'[d].status = "SUBMITTING" /\ pub'[d].tries = 1
      /\ \A e \in Drafts \ {d} : pub'[e] = pub[e]
  BY <1>1 DEF WechatInv, WechatType, PubRows, PubStates
<1>4. WechatType'
  BY <1>1, <1>2, <1>3 DEF WechatInv, WechatType, WechatOps
<1>5. SubmittedOnce'
  BY <1>3 DEF WechatInv, SubmittedOnce
<1>6. OneAttempt'
  BY <1>1, <1>2 DEF WechatInv, OneAttempt, Submitting
<1>7. ASSUME NEW e \in Drafts PROVE Unspent(e)'
  BY <1>2, <1>3 DEF WechatInv, Unspent, Submitting
<1>8. ASSUME NEW v \in Workers PROVE (Attempt(v) /\ PollTrue(v))'
  <2>1. CASE v = w
    BY <1>1, <1>2, <1>3, <2>1 DEF WechatInv, Unspent, Attempt, PollTrue
  <2>2. CASE v # w
    BY <1>1, <1>2, <1>3, <2>2 DEF WechatInv, WechatType, Attempt, PollTrue, Submitting
  <2> QED BY <2>1, <2>2
<1> QED BY <1>4, <1>5, <1>6, <1>7, <1>8 DEF WechatInv

LEMMA CallSubmitInv ==
  ASSUME WechatInv, NEW w \in Workers, CallSubmit(w)
  PROVE  WechatInv'
<1>1. PICK d \in Drafts : d = req[w].d
  BY DEF CallSubmit, WechatInv, WechatType
<1>2. /\ official[d].calls = 0 /\ official[d].state = "NONE" /\ pub[d].status = "SUBMITTING"
      /\ req[w].op = "CALL" /\ pub' = pub
  BY <1>1 DEF WechatInv, CallSubmit, Attempt
<1>3. PICK took \in BOOLEAN, heard \in BOOLEAN :
         /\ official' = [official EXCEPT ![d].calls = @ + 1,
                                         ![d].state = IF took /\ @ = "NONE" THEN "ACCEPTED" ELSE @]
         /\ req' = [req EXCEPT ![w] = [op |-> "SETTLE", d |-> d,
               status |-> IF ~heard THEN "UNKNOWN" ELSE IF took THEN "SUBMITTED" ELSE "FAILED"]]
  BY <1>1 DEF CallSubmit
<1>4. /\ req'[w].op = "SETTLE" /\ req'[w].d = d /\ DOMAIN req' = Workers
      /\ req'[w].status \in {"SUBMITTED", "UNKNOWN", "FAILED"}
      /\ req'[w].status = "FAILED" => ~took
      /\ \A v \in Workers \ {w} : req'[v] = req[v]
  BY <1>3 DEF WechatInv, WechatType
<1>5. /\ official' \in [Drafts -> OfficialRows] /\ official'[d].calls = 1
      /\ official'[d].state = IF took THEN "ACCEPTED" ELSE "NONE"
      /\ \A e \in Drafts \ {d} : official'[e] = official[e]
  <2>1. PICK st \in OfficialStates : st = IF took THEN "ACCEPTED" ELSE "NONE"
    BY DEF OfficialStates
  <2>2. official' = [official EXCEPT ![d].calls = 1, ![d].state = st]
    BY <1>2, <1>3, <2>1 DEF WechatInv, WechatType, OfficialRows
  <2> QED BY <2>1, <2>2 DEF WechatInv, WechatType, OfficialRows
<1>6. WechatType'
  BY <1>2, <1>4, <1>5 DEF WechatInv, WechatType, WechatOps
<1>7. SubmittedOnce'
  BY <1>2, <1>5 DEF WechatInv, SubmittedOnce
<1>8. Submitting(w, d)
  BY <1>1, <1>2 DEF Submitting
<1>9. \A v \in Workers \ {w} : ~Submitting(v, d)
  BY <1>8 DEF WechatInv, OneAttempt
<1>10. OneAttempt'
  BY <1>4, <1>9 DEF WechatInv, OneAttempt, Submitting
<1>11. ASSUME NEW e \in Drafts PROVE Unspent(e)'
  BY <1>2, <1>4, <1>5, <1>8 DEF WechatInv, Unspent, Submitting
<1>12. ASSUME NEW v \in Workers PROVE (Attempt(v) /\ PollTrue(v))'
  <2>1. CASE v = w
    BY <1>2, <1>4, <1>5, <2>1 DEF Attempt, PollTrue
  <2>2. CASE v # w
    <3>1. Attempt(v) /\ PollTrue(v) /\ (req[v].op # "IDLE" => req[v].d \in Drafts) /\ req'[v] = req[v]
      BY <1>4, <2>2 DEF WechatInv, WechatType
    <3>2. Attempt(v)'
      BY <1>2, <1>5, <1>9, <2>2, <3>1 DEF Attempt, Submitting
    <3>3. PollTrue(v)'
      BY <1>2, <1>5, <3>1 DEF PollTrue
    <3> QED BY <3>2, <3>3
  <2> QED BY <2>1, <2>2
<1> QED BY <1>6, <1>7, <1>10, <1>11, <1>12 DEF WechatInv

LEMMA SettleSubmitInv ==
  ASSUME WechatInv, NEW w \in Workers, SettleSubmit(w)
  PROVE  WechatInv'
<1>1. PICK d \in Drafts : d = req[w].d
  BY DEF SettleSubmit, WechatInv, WechatType
<1>2. PICK s : s = req[w].status
  OBVIOUS
<1>3. /\ s \in {"SUBMITTED", "UNKNOWN", "FAILED"} /\ (s = "FAILED" => official[d].state = "NONE")
      /\ req[w].op = "SETTLE" /\ official' = official /\ pub[d].status = "SUBMITTING"
  BY <1>1, <1>2 DEF WechatInv, SettleSubmit, Attempt
<1>4. /\ req'[w].op = "IDLE" /\ DOMAIN req' = Workers
      /\ \A v \in Workers \ {w} : req'[v] = req[v]
  BY DEF WechatInv, WechatType, SettleSubmit, End, Idle
<1>5. /\ pub' \in [Drafts -> PubRows] /\ pub'[d].status = s /\ pub'[d].tries = pub[d].tries
      /\ \A e \in Drafts \ {d} : pub'[e] = pub[e]
  <2>1. PICK i \in BOOLEAN : i = (pub[d].id \/ s = "SUBMITTED")
    BY DEF WechatInv, WechatType, PubRows
  <2>2. pub' = [pub EXCEPT ![d].status = s, ![d].id = i]
    BY <1>1, <1>2, <2>1 DEF SettleSubmit, WechatInv, WechatType, PubRows
  <2> QED BY <1>3, <2>2 DEF WechatInv, WechatType, PubRows, PubStates
<1>6. Submitting(w, d)
  BY <1>1, <1>3 DEF Submitting
<1>7. \A v \in Workers \ {w} : ~Submitting(v, d)
  BY <1>6 DEF WechatInv, OneAttempt
<1>8. WechatType'
  BY <1>3, <1>4, <1>5 DEF WechatInv, WechatType, WechatOps
<1>9. SubmittedOnce'
  BY <1>3, <1>5 DEF WechatInv, SubmittedOnce
<1>10. OneAttempt'
  BY <1>4 DEF WechatInv, OneAttempt, Submitting
<1>11. ASSUME NEW e \in Drafts PROVE Unspent(e)'
  BY <1>3, <1>4, <1>5 DEF WechatInv, Unspent, Submitting
<1>12. ASSUME NEW v \in Workers PROVE (Attempt(v) /\ PollTrue(v))'
  <2>1. CASE v = w
    BY <1>4, <2>1 DEF Attempt, PollTrue
  <2>2. CASE v # w
    BY <1>3, <1>4, <1>5, <1>7, <2>2 DEF WechatInv, WechatType, Attempt, PollTrue, Submitting
  <2> QED BY <2>1, <2>2
<1> QED BY <1>8, <1>9, <1>10, <1>11, <1>12 DEF WechatInv

LEMMA OfficialMovesInv ==
  ASSUME WechatInv, NEW d \in Drafts, OfficialMoves(d)
  PROVE  WechatInv'
<1>1. PICK s \in OfficialStates :
        /\ <<official[d].state, s>> \in
              {<<"ACCEPTED", "PUBLISHED">>, <<"ACCEPTED", "REJECTED">>, <<"PUBLISHED", "REMOVED">>}
        /\ official' = [official EXCEPT ![d].state = s]
  BY DEF OfficialMoves
<1>2. req' = req /\ pub' = pub
  BY DEF OfficialMoves, reqVars
<1>3. /\ official' \in [Drafts -> OfficialRows] /\ official'[d].state = s
      /\ official'[d].calls = official[d].calls
      /\ \A e \in Drafts \ {d} : official'[e] = official[e]
  BY <1>1 DEF WechatInv, WechatType, OfficialRows
<1>4. \/ official[d].state = "ACCEPTED" /\ s \in {"PUBLISHED", "REJECTED"}
      \/ official[d].state = "PUBLISHED" /\ s = "REMOVED"
  BY <1>1
<1>5. WechatType' /\ OneAttempt'
  BY <1>2, <1>3 DEF WechatInv, WechatType, OneAttempt, Submitting
<1>6. SubmittedOnce'
  BY <1>2, <1>3, <1>4 DEF WechatInv, SubmittedOnce
<1>7. ASSUME NEW e \in Drafts PROVE Unspent(e)'
  BY <1>2, <1>3, <1>4 DEF WechatInv, Unspent, Submitting
<1>8. ASSUME NEW v \in Workers PROVE (Attempt(v) /\ PollTrue(v))'
  BY <1>2, <1>3, <1>4 DEF WechatInv, WechatType, Attempt, PollTrue
<1> QED BY <1>5, <1>6, <1>7, <1>8 DEF WechatInv

LEMMA PollCommitInv ==
  ASSUME WechatInv, NEW w \in Workers, PollCommit(w)
  PROVE  WechatInv'
<1>0. PICK saw : saw = req[w].saw
  OBVIOUS
<1>1. PICK d \in Drafts : d = req[w].d
  BY DEF PollCommit, WechatInv, WechatType
<1>2. PICK s : s = PollVerdict(d, saw)
  OBVIOUS
<1>3. SetPub(d, s) /\ req' = [req EXCEPT ![w] = Idle] /\ UNCHANGED official
  BY <1>0, <1>1, <1>2 DEF PollCommit, End
<1>4. /\ saw = "PUBLISHED" => official[d].state \in {"PUBLISHED", "REMOVED"}
      /\ saw \in {"REJECTED", "REMOVED"} => official[d].state = saw
      /\ pub[d].status \in PubStates
  BY <1>0, <1>1 DEF WechatInv, WechatType, PollTrue, PollCommit, PubRows
<1>5. CASE pub[d].status \in {"SUBMITTED", "UNKNOWN"}
  <2>1. \/ s = "PUBLISHED" /\ saw = "PUBLISHED"
        \/ s = "FAILED" /\ saw \in {"REJECTED", "REMOVED"}
        \/ s = pub[d].status
    BY <1>2, <1>5 DEF PollVerdict
  <2>2. /\ s \in PubStates /\ (s \in {"NONE", "INTENT"} => pub[d].tries = 0)
        /\ s = "PUBLISHED" => official[d].state \in {"PUBLISHED", "REMOVED"}
        /\ s = "FAILED" => official[d].state \notin {"ACCEPTED", "PUBLISHED"}
    BY <1>4, <1>5, <2>1 DEF PubStates
  <2> QED BY <1>3, <1>5, <2>2, WechatRow
<1>6. CASE pub[d].status \notin {"SUBMITTED", "UNKNOWN"}
  <2>1. s = pub[d].status
    BY <1>2, <1>6 DEF PollVerdict
  <2>2. pub' = pub
    BY <1>3, <2>1 DEF SetPub, WechatInv, WechatType, PubRows
  <2> QED BY <1>3, <2>2, WechatRequest DEF Idle, WechatOps
<1> QED BY <1>5, <1>6

LEMMA WechatStep ==
  ASSUME WechatInv, WechatNext
  PROVE  WechatInv'
<1>1. ASSUME NEW w \in Workers, NEW d \in Drafts, CreateDraft(w, d) PROVE WechatInv'
  BY <1>1, WechatRequest DEF CreateDraft, Begin, WechatOps
<1>2. ASSUME NEW w \in Workers, NEW d \in Drafts, Authorize(w, d) PROVE WechatInv'
  <2>1. pub[d].tries = 0
    BY <1>2 DEF Authorize, WechatInv, Unspent
  <2> QED BY <1>2, <2>1, WechatRow DEF Authorize, AtOnce, PubStates
<1>3. ASSUME NEW w \in Workers, NEW d \in Drafts, SubmitCheck(w, d) \/ PollCheck(w, d) PROVE WechatInv'
  BY <1>3, WechatRequest DEF SubmitCheck, PollCheck, Begin, WechatOps, wechatVars
<1>4. ASSUME NEW w \in Workers, FinishDraft(w) \/ WechatAbandon(w) PROVE WechatInv'
  BY <1>4, WechatRequest DEF FinishDraft, WechatAbandon, End, Idle, WechatOps, wechatVars
<1>5. ASSUME NEW w \in Workers, TokenRejected(w) PROVE WechatInv'
  <2>1. PICK d \in Drafts : d = req[w].d
    BY <1>5 DEF TokenRejected, WechatInv, WechatType
  <2>2. CASE AwaitingSubmit(d)
    <3>1. official[d].state = "NONE" /\ pub[d].status = "INTENT"
      BY <2>2 DEF AwaitingSubmit, WechatInv, Unspent
    <3> QED BY <1>5, <2>1, <2>2, <3>1, WechatRow DEF TokenRejected, End, PubStates
  <2>3. CASE ~AwaitingSubmit(d)
    BY <1>5, <2>1, <2>3, WechatRequest DEF TokenRejected, End, Idle, WechatOps
  <2> QED BY <2>2, <2>3
<1>6. ASSUME NEW w \in Workers, Spend(w) PROVE WechatInv'
  <2>1. CASE AwaitingSubmit(req[w].d)
    BY <1>6, <2>1, SpendInv DEF Spend
  <2>2. CASE ~AwaitingSubmit(req[w].d)
    BY <1>6, <2>2, WechatRequest DEF Spend, End, Idle, WechatOps
  <2> QED BY <2>1, <2>2
<1>7. ASSUME NEW w \in Workers, PollRead(w) PROVE WechatInv'
  <2>1. req[w].d \in Drafts
    BY <1>7 DEF PollRead, WechatInv, WechatType
  <2> QED BY <1>7, <2>1, WechatRequest DEF PollRead, WechatOps, wechatVars
<1> QED
  BY <1>1, <1>2, <1>3, <1>4, <1>5, <1>6, <1>7, CallSubmitInv, SettleSubmitInv, PollCommitInv,
     OfficialMovesInv DEF WechatNext

FleetWechat == SubmittedOnce /\ (service = "wechat" => WechatInv)

\* freepublish/submit is called at most once for a draft, and PUBLISHED or
\* FAILED in wechat_publish is true of the platform: for every number of
\* workers, drafts and requests, with lost answers and deaths at any call.
THEOREM SubmittedOnceCorrect == Spec => []SubmittedOnce
<1>1. Init => FleetWechat
  BY WechatStarts DEF Init, FleetWechat, WechatInit, SubmittedOnce
<1>2. FleetWechat /\ [Next]_vars => FleetWechat'
  <2> SUFFICES ASSUME FleetWechat, [Next]_vars PROVE FleetWechat'
    OBVIOUS
  <2>1. CASE service = "wechat" /\ Next
    BY <2>1, WechatStep DEF FleetWechat, Next, WechatInv
  <2>2. CASE service # "wechat" /\ Next
    BY <2>2 DEF FleetWechat, Next, wechatVars, SubmittedOnce
  <2>3. CASE UNCHANGED vars
    BY <2>3 DEF vars, rows, reqVars, wechatVars, FleetWechat, SubmittedOnce, WechatInv, WechatType,
                OneAttempt, Unspent, Attempt, PollTrue, Submitting
  <2> QED BY <2>1, <2>2, <2>3
<1>3. FleetWechat => SubmittedOnce
  BY DEF FleetWechat
<1> QED BY <1>1, <1>2, <1>3, PTL DEF Spec

-----------------------------------------------------------------------------
(* The lock table of acceptance sessions                                   *)

LockRows == [fencing : Nat, expires : Nat]
LockOps == {"ACQUIRE", "RENEW", "RELEASE", "BREAK"}
LockFields == {"op", "at", "ttl", "fencing", "opened", "fresh"}
Retired(f) == <<"release", f>> \in audit \/ <<"break_stale", f>> \in audit

(* A command decides on the time it began at, which has passed.            *)
Command(r) ==
    \/ r = Idle
    \/ /\ DOMAIN r = LockFields /\ r.op \in LockOps
       /\ r.at \in Nat /\ r.at <= clock /\ r.ttl \in Nat

(* What a session was told was granted, to it alone.                       *)
Granted ==
    /\ \A w \in Workers : holding[w].fencing < counter
    /\ \A v, w \in Workers : holding[v].fencing = holding[w].fencing /\ v # w => holding[v].fencing = 0
    /\ \A w \in Workers : holding[w].fencing = 0 => holding[w].expires = 0

(* Every fencing number handed out has ended, but for the row's.           *)
Accounted ==
    /\ lock.fencing < counter /\ (lock.fencing = 0 => lock = NoLock)
    /\ \A a, f : <<a, f>> \in audit => f \in 1..(counter - 1)
    /\ \A f \in 1..(counter - 1) : <<"acquire", f>> \in audit /\ (Retired(f) <=> lock.fencing # f)

Told == \A w \in Workers : holding[w].expires > clock => lock = holding[w]

LockInv ==
    /\ DOMAIN req = Workers /\ clock \in Nat /\ counter \in Nat \ {0}
    /\ lock \in LockRows /\ holding \in [Workers -> LockRows]
    /\ \A w \in Workers : Command(req[w])
    /\ Granted /\ Accounted /\ Told

LEMMA LockSound == LockInv => LockExclusive
<1> SUFFICES ASSUME LockInv PROVE LockExclusive
  OBVIOUS
<1> DEFINE of(act) == {f \in 1..counter : <<act, f>> \in audit}
<1>1. ASSUME NEW f
      PROVE  f \in of("acquire") \ (of("release") \cup of("break_stale")) <=> f \in 1..(counter - 1) /\ lock.fencing = f
  BY DEF LockInv, Accounted, Retired
<1>2. lock = NoLock => lock.fencing = 0
  BY DEF NoLock
<1>3. of("acquire") \ (of("release") \cup of("break_stale")) = IF lock = NoLock THEN {} ELSE {lock.fencing}
  <2>1. CASE lock = NoLock
    BY <1>1, <1>2, <2>1
  <2>2. CASE lock # NoLock
    <3>1. lock.fencing \in 1..(counter - 1)
      BY <2>2 DEF LockInv, Accounted, LockRows
    <3> QED BY <1>1, <2>2, <3>1
  <2> QED BY <2>1, <2>2
<1> QED BY <1>3 DEF LockInv, Told, LockExclusive

LEMMA LockStarts ==
  ASSUME LockInit, req = [w \in Workers |-> Idle]
  PROVE  LockInv
BY DEF LockInit, NoLock, LockInv, LockRows, Command, Granted, Accounted, Told, Retired

\* Only the command of a worker changes.
LEMMA LockCommand ==
  ASSUME LockInv, NEW w \in Workers, NEW r, req' = [req EXCEPT ![w] = r], Command(r),
         UNCHANGED <<lock, counter, audit, holding, clock>>
  PROVE  LockInv'
<1>1. DOMAIN req' = Workers /\ req'[w] = r /\ \A v \in Workers \ {w} : req'[v] = req[v]
  BY DEF LockInv
<1>2. \A v \in Workers : Command(req[v])'
  BY <1>1 DEF LockInv, Command
<1> QED BY <1>1, <1>2 DEF LockInv, Granted, Accounted, Told, Retired

\* The command of a worker ends with a change of rows.
LEMMA LockCommandEnds ==
  ASSUME LockInv, NEW w \in Workers, End(w), UNCHANGED clock
  PROVE  DOMAIN req' = Workers /\ \A v \in Workers : Command(req[v])'
<1>1. DOMAIN req' = Workers /\ req'[w] = Idle /\ \A v \in Workers \ {w} : req'[v] = req[v]
  BY DEF LockInv, End
<1> QED BY <1>1 DEF LockInv, Command

LEMMA LockAcquired ==
  ASSUME LockInv, NEW w \in Workers, Acquire(w)
  PROVE  LockInv'
<1>1. CASE Describe(req[w].at) # "FREE"
  BY <1>1, LockCommand DEF Acquire, End, Command
<1>2. CASE Describe(req[w].at) = "FREE"
  <2>1. PICK g \in LockRows : g = [fencing |-> counter, expires |-> req[w].at + req[w].ttl]
    <3>1. req[w].at \in Nat /\ req[w].ttl \in Nat /\ counter \in Nat
      BY DEF Acquire, Running, LockInv, Command
    <3>2. req[w].at + req[w].ttl \in Nat
      BY <3>1
    <3> QED BY <3>1, <3>2 DEF LockRows
  <2>2. /\ lock = NoLock /\ lock' = g /\ counter' = counter + 1 /\ clock' = clock /\ End(w)
        /\ audit' = audit \cup {<<"acquire", counter>>} /\ holding' = [holding EXCEPT ![w] = g]
    BY <1>2, <2>1 DEF Acquire, Describe
  <2>3. /\ g.fencing = counter /\ counter \in Nat \ {0}
        /\ holding' \in [Workers -> LockRows] /\ holding'[w] = g
        /\ \A v \in Workers \ {w} : holding'[v] = holding[v]
    BY <2>1, <2>2 DEF LockInv
  <2>4. Granted'
    BY <2>2, <2>3 DEF LockInv, Granted, LockRows
  <2>5. Accounted'
    <3>1. lock'.fencing = counter /\ lock'.fencing < counter' /\ lock'.fencing # 0
      BY <2>2, <2>3
    <3>2. \A a, f : <<a, f>> \in audit' => f \in 1..(counter' - 1)
      BY <2>2, <2>3 DEF LockInv, Accounted
    <3>3. ASSUME NEW f \in 1..(counter' - 1)
          PROVE  <<"acquire", f>> \in audit' /\ (Retired(f)' <=> lock'.fencing # f)
      <4>1. Retired(f)' <=> Retired(f)
        BY <2>2 DEF Retired
      <4>2. CASE f = counter
        <5>1. ~Retired(f)
          BY <2>3, <4>2 DEF LockInv, Accounted, Retired
        <5> QED BY <2>2, <3>1, <4>1, <4>2, <5>1
      <4>3. CASE f # counter
        <5>1. f \in 1..(counter - 1)
          BY <2>2, <2>3, <4>3
        <5>2. <<"acquire", f>> \in audit /\ (Retired(f) <=> lock.fencing # f) /\ lock.fencing = 0
          BY <2>2, <5>1 DEF LockInv, Accounted, NoLock
        <5> QED BY <2>2, <3>1, <4>1, <4>3, <5>1, <5>2
      <4> QED BY <4>2, <4>3
    <3> QED BY <3>1, <3>2, <3>3 DEF Accounted
  <2>6. Told'
    BY <2>2, <2>3 DEF LockInv, Told, NoLock, LockRows
  <2> QED BY <2>1, <2>2, <2>3, <2>4, <2>5, <2>6, LockCommandEnds DEF LockInv
<1> QED BY <1>1, <1>2

LEMMA LockRenewed ==
  ASSUME LockInv, NEW w \in Workers, Renew(w)
  PROVE  LockInv'
<1>1. CASE ~(Owner(w) /\ Describe(req[w].at) = "HELD")
  BY <1>1, LockCommand DEF Renew, End, Command
<1>2. CASE Owner(w) /\ Describe(req[w].at) = "HELD"
  <2>1. PICK u \in Nat : u = req[w].at + req[w].ttl
    BY DEF Renew, Running, LockInv, Command
  <2>2. PICK n : n = lock.fencing
    OBVIOUS
  <2>3. /\ lock' = [lock EXCEPT !.expires = u] /\ clock' = clock /\ counter' = counter /\ End(w)
        /\ holding' = [holding EXCEPT ![w] = [fencing |-> n, expires |-> u]]
        /\ audit' = audit \cup {<<"renew", n>>} /\ n = holding[w].fencing /\ lock # NoLock
    BY <1>2, <2>1, <2>2 DEF Renew, Owner
  <2>4. n \in Nat /\ n < counter /\ n # 0
    BY <2>2, <2>3 DEF LockInv, LockRows, Accounted
  <2>5. /\ lock' \in LockRows /\ lock'.fencing = n
        /\ holding' \in [Workers -> LockRows] /\ holding'[w] = lock' /\ holding'[w].fencing = n
        /\ \A v \in Workers \ {w} : holding'[v] = holding[v]
    BY <2>1, <2>2, <2>3, <2>4 DEF LockInv, LockRows
  <2>6. Granted'
    BY <2>3, <2>4, <2>5 DEF LockInv, Granted
  <2>7. Accounted'
    <3>1. n \in 1..(counter - 1) /\ counter \in Nat
      BY <2>4 DEF LockInv
    <3>2. \A a, f : <<a, f>> \in audit' => f \in 1..(counter' - 1)
      BY <2>3, <3>1 DEF LockInv, Accounted
    <3>3. ASSUME NEW f \in 1..(counter' - 1)
          PROVE  <<"acquire", f>> \in audit' /\ (Retired(f)' <=> lock'.fencing # f)
      BY <2>2, <2>3, <2>5 DEF LockInv, Accounted, Retired
    <3> QED BY <2>3, <2>4, <2>5, <3>2, <3>3 DEF Accounted
  <2>8. Told'
    <3>1. ASSUME NEW v \in Workers, holding'[v].expires > clock' PROVE lock' = holding'[v]
      <4>1. CASE v = w
        BY <2>5, <4>1
      <4>2. CASE v # w
        <5>1. lock = holding[v]
          BY <2>3, <2>5, <3>1, <4>2 DEF LockInv, Told
        <5> QED BY <2>2, <2>3, <2>4, <4>2, <5>1 DEF LockInv, Granted
      <4> QED BY <4>1, <4>2
    <3> QED BY <3>1 DEF Told
  <2> QED BY <2>3, <2>5, <2>6, <2>7, <2>8, LockCommandEnds DEF LockInv
<1> QED BY <1>1, <1>2

\* The row is deleted: by its owner, or because its time was over.
LEMMA LockDeleted ==
  ASSUME LockInv, NEW w \in Workers, NEW a \in {"release", "break_stale"}, lock # NoLock, lock' = NoLock,
         audit' = audit \cup {<<a, lock.fencing>>}, End(w), UNCHANGED <<counter, clock>>,
         \/ holding' = holding /\ lock.expires <= clock
         \/ holding' = [holding EXCEPT ![w] = NoLock] /\ holding[w].fencing = lock.fencing
  PROVE  LockInv'
<1>1. PICK n \in Nat : n = lock.fencing
  BY DEF LockInv, LockRows
<1>2. n # 0 /\ n < counter /\ n \in 1..(counter - 1) /\ counter \in Nat
  BY <1>1 DEF LockInv, Accounted
<1>3. NoLock \in LockRows /\ NoLock.fencing = 0 /\ NoLock.expires = 0
  BY DEF NoLock, LockRows
<1>4. /\ holding' \in [Workers -> LockRows]
      /\ \A v \in Workers : holding'[v] = holding[v] \/ holding'[v] = NoLock
  BY <1>3 DEF LockInv
<1>5. Granted'
  BY <1>2, <1>3, <1>4 DEF LockInv, Granted
<1>6. Accounted'
  <2>1. \A b, f : <<b, f>> \in audit' => f \in 1..(counter' - 1)
    BY <1>1, <1>2 DEF LockInv, Accounted
  <2>2. ASSUME NEW f \in 1..(counter' - 1)
        PROVE  <<"acquire", f>> \in audit' /\ (Retired(f)' <=> lock'.fencing # f)
    <3>1. <<"acquire", f>> \in audit /\ (Retired(f) <=> lock.fencing # f)
      BY DEF LockInv, Accounted
    <3>2. Retired(f)'
      BY <1>1, <3>1 DEF Retired
    <3> QED BY <1>3, <3>1, <3>2
  <2> QED BY <1>2, <1>3, <2>1, <2>2 DEF Accounted
<1>7. Told'
  <2>1. ASSUME NEW v \in Workers, holding'[v].expires > clock' PROVE FALSE
    <3>1. holding'[v] = holding[v] /\ lock = holding[v]
      BY <1>3, <1>4, <2>1 DEF LockInv, Told
    <3>2. lock.expires > clock /\ lock \in LockRows /\ clock \in Nat
      BY <2>1, <3>1 DEF LockInv
    <3>3. holding' = [holding EXCEPT ![w] = NoLock] /\ holding[w].fencing = lock.fencing
      BY <3>2 DEF LockRows
    <3>4. v = w
      BY <1>1, <1>2, <3>1, <3>3 DEF LockInv, Granted
    <3> QED BY <1>3, <2>1, <3>2, <3>3, <3>4 DEF LockInv
  <2> QED BY <2>1 DEF Told
<1> QED BY <1>3, <1>4, <1>5, <1>6, <1>7, LockCommandEnds DEF LockInv

\* A session forgets what it was told, and its command ends.
LEMMA LockForgotten ==
  ASSUME LockInv, NEW w \in Workers, End(w), holding' = [holding EXCEPT ![w] = NoLock],
         UNCHANGED <<lock, counter, audit, clock>>
  PROVE  LockInv'
<1>1. NoLock \in LockRows /\ NoLock.fencing = 0 /\ NoLock.expires = 0
  BY DEF NoLock, LockRows
<1>2. /\ holding' \in [Workers -> LockRows]
      /\ \A v \in Workers : holding'[v] = holding[v] \/ holding'[v] = NoLock
  BY <1>1 DEF LockInv
<1>3. Granted'
  BY <1>1, <1>2 DEF LockInv, Granted
<1>4. Told'
  BY <1>1, <1>2 DEF LockInv, Told
<1>5. Accounted'
  BY DEF LockInv, Accounted, Retired
<1> QED BY <1>2, <1>3, <1>4, <1>5, LockCommandEnds DEF LockInv

LEMMA LockStep ==
  ASSUME LockInv, LockNext
  PROVE  LockInv'
<1>1. ASSUME NEW w \in Workers, NEW c \in LockOps, NEW ttl \in Nat, NEW f, StartCommand(w, c, ttl, f)
      PROVE  LockInv'
  <2> DEFINE r == [op |-> c, at |-> clock, ttl |-> ttl, fencing |-> f,
                   opened |-> FALSE, fresh |-> store = "ABSENT"]
  <2>1. Command(r)
    BY DEF Command, LockFields, LockInv
  <2> QED BY <1>1, <2>1, LockCommand DEF StartCommand, Begin, lockVars
<1>2. ASSUME NEW w \in Workers, OpenStore(w) \/ OpenContended(w) PROVE LockInv'
  <2>1. Command(req[w]) /\ req[w] # Idle
    BY <1>2 DEF OpenStore, OpenContended, Opening, LockInv
  <2>2. Command([req[w] EXCEPT !.opened = TRUE]) /\ Command([req[w] EXCEPT !.fresh = FALSE])
    BY <2>1 DEF Command, LockFields
  <2>3. Command(Idle)
    BY DEF Command
  <2>4. CASE OpenStore(w)
    BY <2>2, <2>4, LockCommand DEF OpenStore
  <2>5. CASE OpenContended(w)
    BY <2>2, <2>3, <2>5, LockCommand DEF OpenContended, End
  <2> QED BY <1>2, <2>4, <2>5
<1>3. ASSUME NEW w \in Workers, Release(w) PROVE LockInv'
  <2>1. CASE Owner(w)
    BY <1>3, <2>1, LockDeleted DEF Release, Owner
  <2>2. CASE ~Owner(w)
    BY <1>3, <2>2, LockForgotten DEF Release
  <2> QED BY <2>1, <2>2
<1>4. ASSUME NEW w \in Workers, BreakStale(w) PROVE LockInv'
  <2>1. CASE lock # NoLock /\ Breakable(req[w].at, req[w].fencing)
    <3>1. /\ lock.fencing = req[w].fencing /\ ~(lock.expires > req[w].at)
          /\ req[w].at \in Nat /\ req[w].at <= clock /\ clock \in Nat /\ lock.expires \in Nat
      BY <1>4, <2>1 DEF BreakStale, Breakable, Describe, Running, LockInv, Command, LockRows
    <3>2. lock.expires <= clock
      BY <3>1
    <3> QED BY <1>4, <2>1, <3>1, <3>2, LockDeleted DEF BreakStale
  <2>2. CASE ~(lock # NoLock /\ Breakable(req[w].at, req[w].fencing))
    BY <1>4, <2>2, LockCommand DEF BreakStale, End, Command
  <2> QED BY <2>1, <2>2
<1>5. ASSUME NEW w \in Workers, SessionDies(w) PROVE LockInv'
  BY <1>5, LockForgotten DEF SessionDies
<1>6. CASE LockTick
  <2>1. clock' = clock + 1 /\ clock \in Nat /\ UNCHANGED <<req, lock, counter, audit, holding>>
    BY <1>6 DEF LockTick, reqVars, LockInv
  <2>2. \A v \in Workers : Command(req[v])'
    BY <2>1 DEF LockInv, Command
  <2>3. Told'
    BY <2>1 DEF LockInv, Told, LockRows
  <2>4. Granted' /\ Accounted'
    BY <2>1 DEF LockInv, Granted, Accounted, Retired
  <2> QED BY <2>1, <2>2, <2>3, <2>4 DEF LockInv
<1>7. Ttls \subseteq Nat
  BY LockAssumption
<1> QED
  BY <1>1, <1>2, <1>3, <1>4, <1>5, <1>6, <1>7, LockAcquired, LockRenewed DEF LockNext, LockOps

FleetLock == LockExclusive /\ (service = "lock" => LockInv)

\* As long as the time a session was told has not passed the device is its
\* own, and the audit names the fencing number that holds it: for every
\* number of sessions, lifetimes and moments, however commands wait for one
\* another and whichever session dies.
THEOREM LockExclusiveCorrect == Spec => []LockExclusive
<1>1. Init => FleetLock
  <2>1. LockInit => LockExclusive
    BY DEF LockInit, LockExclusive, NoLock
  <2> QED BY <2>1, LockStarts DEF Init, FleetLock
<1>2. FleetLock /\ [Next]_vars => FleetLock'
  <2> SUFFICES ASSUME FleetLock, [Next]_vars PROVE FleetLock'
    OBVIOUS
  <2>1. LockInv' => LockExclusive'
    BY LockSound, PTL
  <2>2. CASE service = "lock" /\ Next
    BY <2>1, <2>2, LockStep DEF FleetLock, Next
  <2>3. CASE service # "lock" /\ Next
    BY <2>3 DEF FleetLock, Next, lockVars, LockExclusive
  <2>4. CASE UNCHANGED vars
    BY <2>4 DEF vars, rows, reqVars, lockVars, FleetLock, LockExclusive, LockInv, Command, Granted,
                Accounted, Told, Retired
  <2> QED BY <2>2, <2>3, <2>4
<1>3. FleetLock => LockExclusive
  BY DEF FleetLock
<1> QED BY <1>1, <1>2, <1>3, PTL DEF Spec

-----------------------------------------------------------------------------
(* Accounts and bindings                                                   *)

BindingRows == [status : {"NONE", "BOUND", "UNBOUND"}, version : Nat]

(* The version of a binding is the number of times it became bound.        *)
Counted ==
    /\ binding \in [Accts -> [Devs -> BindingRows]]
    /\ bindings \in [Accts -> [Devs -> Nat]]
    /\ \A a \in Accts, d \in Devs : binding[a][d].version = bindings[a][d]

(* A task froze the version of its account's binding.                      *)
Frozen(t) ==
    /\ t.a \in Accts /\ t.d \in Devs /\ t.version = t.created /\ t.ran \subseteq {t.created}
    /\ DOMAIN t = {"id", "a", "d", "status", "version", "created", "ran"}

OneBound == \A d \in Devs : \A a, b \in Accts : Bound(a, d) /\ Bound(b, d) => a = b

AccountsInv == Counted /\ OneBound /\ \A t \in tasks : Frozen(t)

LEMMA AccountsSound == AccountsInv => BindingHonoured
<1> SUFFICES ASSUME AccountsInv PROVE BindingHonoured
  OBVIOUS
<1>1. ASSUME NEW d \in Devs PROVE Cardinality({a \in Accts : Bound(a, d)}) <= 1
  <2>1. CASE {a \in Accts : Bound(a, d)} = {}
    BY <2>1, FS_EmptySet
  <2>2. CASE {a \in Accts : Bound(a, d)} # {}
    <3>1. PICK b : {a \in Accts : Bound(a, d)} = {b}
      BY <2>2 DEF AccountsInv, OneBound
    <3>2. Cardinality({b}) = 1
      BY FS_Singleton
    <3> QED BY <3>1, <3>2
  <2> QED BY <2>1, <2>2
<1> QED BY <1>1 DEF AccountsInv, Frozen, BindingHonoured

LEMMA AccountsStart == AccountsInit => AccountsInv
BY DEF AccountsInit, Unbound, AccountsInv, Counted, OneBound, Bound, BindingRows

LEMMA RowUnbound ==
  ASSUME NEW x \in BindingRows, NEW y, y = [x EXCEPT !.status = "UNBOUND"]
  PROVE  y \in BindingRows /\ y.status = "UNBOUND" /\ y.version = x.version
BY DEF BindingRows

\* Another status, or another run under its own binding, leaves a task frozen.
LEMMA FrozenTask ==
  ASSUME NEW t, Frozen(t), NEW st, NEW u,
         \/ u = [t EXCEPT !.status = st]
         \/ u = [t EXCEPT !.status = st, !.ran = @ \cup {t.created}]
  PROVE  Frozen(u)
BY DEF Frozen

LEMMA StaleFrozen ==
  ASSUME AccountsInv, NEW as, NEW d, NEW t \in BlockStale(as, d)
  PROVE  Frozen(t)
<1>1. PICK u \in tasks : t = u \/ t = [u EXCEPT !.status = "FAILED"]
  BY DEF BlockStale
<1>2. Frozen(u)
  BY DEF AccountsInv
<1> QED BY <1>1, <1>2, FrozenTask

LEMMA BindInv ==
  ASSUME AccountsInv, NEW w, NEW a \in Accts, NEW d \in Devs, BindAccount(w, a, d)
  PROVE  AccountsInv'
<1>1. PICK n \in Nat : n = NextVersion(a, d)
  BY DEF NextVersion, AccountsInv, Counted
<1>2. PICK row : row = [status |-> "BOUND", version |-> n]
  OBVIOUS
<1>3. ASSUME NEW b \in Accts, NEW e \in Devs
      PROVE  binding'[b][e] = IF b = a /\ e = d THEN row
                              ELSE IF e = d /\ b \in Displaced(a, d) THEN [binding[b][e] EXCEPT !.status = "UNBOUND"]
                              ELSE binding[b][e]
  <2>1. binding[b] \in [Devs -> BindingRows]
    BY DEF AccountsInv, Counted
  <2>2. CASE b = a
    BY <1>1, <1>2, <2>1, <2>2 DEF BindAccount, Displaced
  <2>3. CASE b # a /\ b \in Displaced(a, d)
    <3>1. binding'[b] = [binding[b] EXCEPT ![d].status = "UNBOUND"]
      BY <2>3 DEF BindAccount
    <3> QED BY <2>1, <2>3, <3>1
  <2>4. CASE b # a /\ b \notin Displaced(a, d)
    BY <2>4 DEF BindAccount
  <2> QED BY <2>2, <2>3, <2>4
<1>R. /\ row \in BindingRows /\ row.status = "BOUND" /\ row.version = n
      /\ \A b \in Accts, e \in Devs : binding[b][e] \in BindingRows
  BY <1>1, <1>2 DEF BindingRows, AccountsInv, Counted
<1>4. binding' \in [Accts -> [Devs -> BindingRows]]
  <2>1. ASSUME NEW b \in Accts, NEW e \in Devs PROVE binding'[b][e] \in BindingRows
    BY <1>3, <1>R, RowUnbound
  <2>2. ASSUME NEW b \in Accts PROVE binding'[b] \in [Devs -> BindingRows]
    <3>1. DOMAIN binding'[b] = Devs /\ binding'[b] = [e \in Devs |-> binding'[b][e]]
      BY DEF BindAccount, AccountsInv, Counted
    <3> QED BY <2>1, <3>1
  <2>3. binding' = [b \in Accts |-> binding'[b]]
    BY DEF BindAccount
  <2> QED BY <2>2, <2>3
<1>5. /\ bindings' \in [Accts -> [Devs -> Nat]]
      /\ \A b \in Accts, e \in Devs :
            bindings'[b][e] = IF b = a /\ e = d THEN n ELSE bindings[b][e]
  <2>1. CASE Bound(a, d)
    BY <1>1, <2>1 DEF BindAccount, NextVersion, AccountsInv, Counted
  <2>2. CASE ~Bound(a, d)
    <3>1. bindings' = [bindings EXCEPT ![a][d] = n]
      BY <1>1, <2>2 DEF BindAccount, NextVersion, AccountsInv, Counted
    <3> QED BY <3>1 DEF AccountsInv, Counted
  <2> QED BY <2>1, <2>2
<1>6. Counted'
  <2>1. ASSUME NEW b \in Accts, NEW e \in Devs PROVE binding'[b][e].version = bindings'[b][e]
    <3>1. binding[b][e] \in BindingRows /\ binding[b][e].version = bindings[b][e]
      BY DEF AccountsInv, Counted
    <3>2. CASE b = a /\ e = d
      BY <1>3, <1>5, <1>R, <3>2
    <3>3. CASE ~(b = a /\ e = d) /\ e = d /\ b \in Displaced(a, d)
      BY <1>3, <1>5, <3>1, <3>3, RowUnbound
    <3>4. CASE ~(b = a /\ e = d) /\ ~(e = d /\ b \in Displaced(a, d))
      BY <1>3, <1>5, <3>1, <3>4
    <3> QED BY <3>2, <3>3, <3>4
  <2> QED BY <1>4, <1>5, <2>1 DEF Counted
<1>7. OneBound'
  <2>1. ASSUME NEW b \in Accts, NEW e \in Devs, Bound(b, e)' PROVE (e # d /\ Bound(b, e)) \/ (e = d /\ b = a)
    <3>1. binding[b][e] \in BindingRows
      BY DEF AccountsInv, Counted
    <3>2. binding'[b][e].status = "BOUND"
      BY <2>1 DEF Bound
    <3>3. CASE e # d
      BY <1>3, <3>2, <3>3 DEF Bound
    <3>4. CASE e = d /\ b # a
      <4>1. CASE b \in Displaced(a, d)
        BY <1>3, <3>1, <3>2, <3>4, <4>1, RowUnbound
      <4>2. CASE b \notin Displaced(a, d)
        BY <1>3, <3>2, <3>4, <4>2 DEF Displaced, Bound
      <4> QED BY <4>1, <4>2
    <3> QED BY <3>3, <3>4
  <2> QED BY <2>1 DEF AccountsInv, OneBound
<1>8. \A t \in tasks' : Frozen(t)
  BY StaleFrozen DEF BindAccount
<1> QED BY <1>6, <1>7, <1>8 DEF AccountsInv

\* Bindings are only taken away, and their versions stay.
LEMMA Unbinding ==
  ASSUME AccountsInv, UNCHANGED bindings,
         \A t \in tasks' : Frozen(t),
         binding' \in [Accts -> [Devs -> BindingRows]],
         \A b \in Accts, e \in Devs :
            /\ binding'[b][e].version = binding[b][e].version
            /\ binding'[b][e].status = "BOUND" => binding[b][e].status = "BOUND"
  PROVE  AccountsInv'
<1>1. Counted'
  BY DEF AccountsInv, Counted
<1>2. OneBound'
  BY DEF AccountsInv, OneBound, Bound
<1> QED BY <1>1, <1>2 DEF AccountsInv

LEMMA UnbindInv ==
  ASSUME AccountsInv, NEW w, NEW a \in Accts, NEW d \in Devs, UnbindAccount(w, a, d)
  PROVE  AccountsInv'
<1>1. /\ binding' = [binding EXCEPT ![a][d].status = "UNBOUND"] /\ bindings' = bindings
      /\ tasks' = BlockStale({a}, d)
  BY DEF UnbindAccount
<1>2. binding \in [Accts -> [Devs -> BindingRows]]
  BY DEF AccountsInv, Counted
<1>3. PICK y : y = [binding[a][d] EXCEPT !.status = "UNBOUND"]
  OBVIOUS
<1>4. y \in BindingRows /\ y.status = "UNBOUND" /\ y.version = binding[a][d].version
  BY <1>2, <1>3, RowUnbound
<1>5. binding' = [binding EXCEPT ![a] = [binding[a] EXCEPT ![d] = y]]
  BY <1>1, <1>2, <1>3
<1>6. binding' \in [Accts -> [Devs -> BindingRows]]
  BY <1>2, <1>4, <1>5
<1>7. ASSUME NEW b \in Accts, NEW e \in Devs
      PROVE  /\ binding'[b][e].version = binding[b][e].version
             /\ binding'[b][e].status = "BOUND" => binding[b][e].status = "BOUND"
  BY <1>2, <1>4, <1>5
<1> QED BY <1>1, <1>6, <1>7, StaleFrozen, Unbinding

LEMMA StatusInv ==
  ASSUME AccountsInv, NEW w, NEW a \in Accts, NEW st, UpdateStatus(w, a, st)
  PROVE  AccountsInv'
<1>1. CASE st = "AUTHORIZED"
  BY <1>1 DEF UpdateStatus, AccountsInv, Counted, OneBound, Bound
<1>2. CASE st # "AUTHORIZED"
  <2>1. binding \in [Accts -> [Devs -> BindingRows]] /\ bindings' = bindings
    BY DEF UpdateStatus, AccountsInv, Counted
  <2>2. PICK rows_ : rows_ = [d \in Devs |-> IF Bound(a, d) THEN [binding[a][d] EXCEPT !.status = "UNBOUND"]
                                             ELSE binding[a][d]]
    OBVIOUS
  <2>3. binding' = [binding EXCEPT ![a] = rows_]
    BY <1>2, <2>1, <2>2 DEF UpdateStatus
  <2>4. ASSUME NEW e \in Devs
        PROVE  /\ rows_[e] \in BindingRows /\ rows_[e].version = binding[a][e].version
               /\ rows_[e].status = "BOUND" => binding[a][e].status = "BOUND"
    BY <2>1, <2>2, RowUnbound
  <2>5. rows_ \in [Devs -> BindingRows]
    BY <2>2, <2>4
  <2>6. binding' \in [Accts -> [Devs -> BindingRows]]
    BY <2>1, <2>3, <2>5
  <2>7. ASSUME NEW b \in Accts, NEW e \in Devs
        PROVE  /\ binding'[b][e].version = binding[b][e].version
               /\ binding'[b][e].status = "BOUND" => binding[b][e].status = "BOUND"
    BY <2>1, <2>3, <2>4
  <2>8. ASSUME NEW t \in tasks' PROVE Frozen(t)
    <3>1. PICK u \in tasks : t = u \/ t = [u EXCEPT !.status = "FAILED"]
      BY <1>2 DEF UpdateStatus
    <3>2. Frozen(u)
      BY DEF AccountsInv
    <3> QED BY <3>1, <3>2, FrozenTask
  <2> QED BY <2>1, <2>6, <2>7, <2>8, Unbinding
<1> QED BY <1>1, <1>2

\* Tasks come, run and end; bindings stay.
LEMMA TasksOnly ==
  ASSUME AccountsInv, UNCHANGED <<binding, bindings>>, \A t \in tasks' : Frozen(t)
  PROVE  AccountsInv'
BY DEF AccountsInv, Counted, OneBound, Bound

LEMMA AccountsStep ==
  ASSUME AccountsInv, AccountsNext
  PROVE  AccountsInv'
<1>1. ASSUME NEW w \in Workers, NEW a \in Accts, NEW d \in Devs, CreateTask(w, a, d) PROVE AccountsInv'
  <2>1. PICK n : n = [id |-> Cardinality(tasks) + 1, a |-> a, d |-> d, status |-> "QUEUED",
                      version |-> binding[a][d].version, created |-> bindings[a][d], ran |-> {}]
    OBVIOUS
  <2>2. Frozen(n)
    BY <2>1 DEF Frozen, AccountsInv, Counted
  <2>3. tasks' = tasks \cup {n} /\ UNCHANGED <<binding, bindings>>
    BY <1>1, <2>1 DEF CreateTask
  <2> QED BY <2>2, <2>3, TasksOnly DEF AccountsInv
<1>2. ASSUME NEW t \in tasks, ClaimTask(t) PROVE AccountsInv'
  <2>1. Frozen(t)
    BY DEF AccountsInv
  <2>2. BindingMatches(t) => bindings[t.a][t.d] = t.created
    BY <2>1 DEF BindingMatches, AccountsInv, Counted, Frozen
  <2>3. PICK n : /\ tasks' = (tasks \ {t}) \cup {n}
                 /\ \/ n = [t EXCEPT !.status = "CLAIMED", !.ran = @ \cup {t.created}]
                    \/ n = [t EXCEPT !.status = "FAILED"]
    BY <1>2, <2>2 DEF ClaimTask
  <2>4. Frozen(n)
    BY <2>1, <2>3, FrozenTask
  <2> QED BY <1>2, <2>3, <2>4, TasksOnly DEF AccountsInv, ClaimTask
<1>3. ASSUME NEW t \in tasks, BoundTaskMoves(t) PROVE AccountsInv'
  <2>1. PICK n : tasks' = (tasks \ {t}) \cup {n} /\ \E st : n = [t EXCEPT !.status = st]
    BY <1>3 DEF BoundTaskMoves
  <2>2. Frozen(n)
    BY <2>1, FrozenTask DEF AccountsInv
  <2> QED BY <1>3, <2>1, <2>2, TasksOnly DEF AccountsInv, BoundTaskMoves
<1>4. CASE UNCHANGED <<binding, bindings, tasks>>
  BY <1>4, TasksOnly DEF AccountsInv
<1> QED
  BY <1>1, <1>2, <1>3, <1>4, BindInv, UnbindInv, StatusInv
     DEF AccountsNext, CreateEdge, CreateDevice, CreateAccountCommit, CreateAccountRead, EnableSchedule,
         AccountExpires, accountVars

FleetAccounts == BindingHonoured /\ (service = "accounts" => AccountsInv)

\* A task runs only under the binding it was created for, and a device has
\* one bound account of the platform: for every number of accounts, devices
\* and tasks, whatever is bound again, displaced, revoked or queued again.
THEOREM BindingHonouredCorrect == Spec => []BindingHonoured
<1>1. Init => FleetAccounts
  BY AccountsStart, AccountsSound DEF Init, FleetAccounts
<1>2. FleetAccounts /\ [Next]_vars => FleetAccounts'
  <2> SUFFICES ASSUME FleetAccounts, [Next]_vars PROVE FleetAccounts'
    OBVIOUS
  <2>1. AccountsInv' => BindingHonoured'
    BY AccountsSound, PTL
  <2>2. CASE service = "accounts" /\ Next
    BY <2>1, <2>2, AccountsStep DEF FleetAccounts, Next
  <2>3. CASE service # "accounts" /\ Next
    BY <2>3 DEF FleetAccounts, Next, accountVars, BindingHonoured, Bound
  <2>4. CASE UNCHANGED vars
    <3>1. UNCHANGED <<service, binding, bindings, tasks>>
      BY <2>4 DEF vars, rows, accountVars
    <3> QED BY <3>1 DEF FleetAccounts, BindingHonoured, Bound, AccountsInv, Counted, OneBound
  <2> QED BY <2>2, <2>3, <2>4
<1>3. FleetAccounts => BindingHonoured
  BY DEF FleetAccounts
<1> QED BY <1>1, <1>2, <1>3, PTL DEF Spec

LEMMA BeginFacts ==
  ASSUME DOMAIN req = Workers, NEW w \in Workers, NEW r, Begin(w, r)
  PROVE  /\ DOMAIN req' = Workers /\ req'[w] = r /\ req[w].op = "IDLE"
         /\ \A v \in Workers \ {w} : req'[v] = req[v]
BY DEF Begin, Idle

LEMMA EndFacts ==
  ASSUME DOMAIN req = Workers, NEW w \in Workers, End(w)
  PROVE  /\ DOMAIN req' = Workers /\ req'[w].op = "IDLE" /\ req'[w] = Idle
         /\ \A v \in Workers \ {w} : req'[v] = req[v]
BY DEF End, Idle

-----------------------------------------------------------------------------
(* Listings                                                                *)

Listed == [hash : Hashes \cup {"none"}, count : Nat]

ListingsType ==
    /\ DOMAIN req = Workers
    /\ listing \in [Items -> Listed] /\ snapshots \in [Items -> Seq(Hashes)]
    /\ \A w \in Workers : req[w].op \in {"IDLE", "PUSH"} /\ (req[w].op = "PUSH" => req[w].rows \in ScreenRows)

(* What a push has read is still so as long as no screen was stored since, *)
(* and never counts a snapshot that is not there.                          *)
PushFits(w) ==
    req[w].op = "PUSH" =>
        /\ req[w].had \subseteq stored
        /\ stored \subseteq req[w].had => req[w].saw = listing
        /\ \A i \in Items : req[w].saw[i] \in Listed /\ req[w].saw[i].count <= Len(snapshots[i])

ListingsInv == ListingsType /\ ListingHistory /\ \A w \in Workers : PushFits(w)

LEMMA ListingsStart ==
  ASSUME ListingsInit
  PROVE  /\ ListingHistory /\ (req = [w \in Workers |-> Idle] => ListingsInv)
<1>1. /\ \A i \in Items : snapshots[i] = <<>> /\ listing[i].count = 0
      /\ listing \in [Items -> Listed] /\ snapshots \in [Items -> Seq(Hashes)]
  BY DEF ListingsInit, NoListing, Listed
<1>2. ListingHistory
  BY <1>1 DEF ListingHistory
<1> QED BY <1>1, <1>2 DEF ListingsInv, ListingsType, PushFits, Idle

\* One listing's history, a changed content behind it.
LEMMA HistoryGrows ==
  ASSUME NEW s \in Seq(Hashes), NEW h \in Hashes, s # <<>> => s[Len(s)] # h,
         \A j \in 1 .. (Len(s) - 1) : s[j] # s[j + 1], NEW e, e = Append(s, h)
  PROVE  /\ e \in Seq(Hashes) /\ e # <<>> /\ Len(e) = Len(s) + 1 /\ e[Len(e)] = h /\ Len(s) \in Nat
         /\ \A j \in 1 .. (Len(e) - 1) : e[j] # e[j + 1]
<1>1. /\ e \in Seq(Hashes) /\ Len(e) = Len(s) + 1 /\ e[Len(e)] = h /\ Len(s) \in Nat /\ e # <<>>
      /\ \A j \in 1 .. Len(s) : e[j] = s[j]
  OBVIOUS
<1>2. ASSUME NEW j \in 1 .. (Len(e) - 1) PROVE e[j] # e[j + 1]
  <2>1. CASE j = Len(s)
    BY <1>1, <2>1
  <2>2. CASE j < Len(s)
    BY <1>1, <2>2
  <2> QED BY <1>1, <2>1, <2>2
<1> QED BY <1>1, <1>2

LEMMA PushInv ==
  ASSUME ListingsInv, NEW w \in Workers, PushCommit(w)
  PROVE  ListingsInv'
<1>1. PICK r : r = req[w]
  OBVIOUS
<1>2. /\ r.op = "PUSH" /\ r.n \notin stored /\ stored' = stored \cup {r.n}
      /\ listing' = [i \in Items |-> IF i \in Differing(r)
                        THEN [hash |-> r.rows[i], count |-> r.saw[i].count + 1] ELSE listing[i]]
      /\ snapshots' = [i \in Items |-> IF i \in Differing(r) THEN Append(snapshots[i], r.rows[i])
                                                             ELSE snapshots[i]]
      /\ raced' = IF stored \subseteq r.had \cup {r.n} THEN raced
                  ELSE raced \cup {i \in Differing(r) : r.saw[i] # listing[i]}
  BY <1>1 DEF PushCommit, ScreenFree
<1>3. /\ DOMAIN req' = Workers /\ req'[w].op = "IDLE"
      /\ \A v \in Workers \ {w} : req'[v] = req[v]
  BY EndFacts DEF PushCommit, ListingsInv, ListingsType
<1>4. /\ r.rows \in ScreenRows
      /\ stored \subseteq r.had => r.saw = listing
      /\ \A i \in Items : r.saw[i] \in Listed /\ r.saw[i].count <= Len(snapshots[i])
  BY <1>1, <1>2 DEF ListingsInv, ListingsType, PushFits
<1>5. ASSUME NEW i \in Differing(r) PROVE i \in Items /\ r.rows[i] \in Hashes /\ r.saw[i].hash # r.rows[i]
  <2>1. PICK shown \in SUBSET Items : r.rows \in [shown -> Hashes]
    BY <1>4 DEF ScreenRows
  <2> QED BY <2>1 DEF Differing
<1>6. ASSUME NEW i \in Items
      PROVE  /\ listing'[i] \in Listed /\ snapshots'[i] \in Seq(Hashes) /\ Len(snapshots[i]) <= Len(snapshots'[i])
             /\ snapshots'[i] # <<>> => listing'[i].hash = snapshots'[i][Len(snapshots'[i])]
             /\ listing'[i].count <= Len(snapshots'[i])
             /\ i \notin raced' =>
                   /\ listing'[i].count = Len(snapshots'[i])
                   /\ \A j \in 1 .. (Len(snapshots'[i]) - 1) : snapshots'[i][j] # snapshots'[i][j + 1]
  <2>1. /\ listing[i] \in Listed /\ snapshots[i] \in Seq(Hashes) /\ Len(snapshots[i]) \in Nat
        /\ snapshots[i] # <<>> => listing[i].hash = snapshots[i][Len(snapshots[i])]
        /\ listing[i].count <= Len(snapshots[i])
        /\ i \notin raced =>
              /\ listing[i].count = Len(snapshots[i])
              /\ \A j \in 1 .. (Len(snapshots[i]) - 1) : snapshots[i][j] # snapshots[i][j + 1]
    BY DEF ListingsInv, ListingsType, ListingHistory
  <2>2. i \notin raced' => i \notin raced
    BY <1>2
  <2>3. CASE i \notin Differing(r)
    <3>1. listing'[i] = listing[i] /\ snapshots'[i] = snapshots[i]
      BY <1>2, <2>3
    <3> QED BY <2>1, <2>2, <3>1
  <2>4. CASE i \in Differing(r)
    <3>1. PICK h \in Hashes : h = r.rows[i]
      BY <1>5, <2>4
    <3>2. PICK s \in Seq(Hashes), c \in Nat : s = snapshots[i] /\ c = r.saw[i].count
      <4>1. r.saw[i].count \in Nat
        BY <1>4 DEF Listed
      <4> QED BY <2>1, <4>1
    <3>3. PICK e : e = Append(s, h)
      OBVIOUS
    <3>4. listing'[i] = [hash |-> h, count |-> c + 1] /\ snapshots'[i] = e
      BY <1>2, <2>4, <3>1, <3>2, <3>3
    <3>5. e \in Seq(Hashes) /\ e # <<>> /\ Len(e) = Len(s) + 1 /\ e[Len(e)] = h /\ Len(s) \in Nat
      BY <3>3
    <3>6. c <= Len(s) /\ listing'[i].hash = h /\ listing'[i].count = c + 1 /\ listing'[i] \in Listed
      BY <1>4, <3>2, <3>4 DEF Listed
    <3>7. ASSUME i \notin raced' PROVE c = Len(s) /\ \A j \in 1 .. (Len(e) - 1) : e[j] # e[j + 1]
      <4>1. r.saw[i] = listing[i]
        <5>1. CASE stored \subseteq r.had \cup {r.n}
          <6>1. stored \subseteq r.had
            BY <1>2, <5>1
          <6> QED BY <1>4, <6>1
        <5>2. CASE ~(stored \subseteq r.had \cup {r.n})
          BY <1>2, <2>4, <3>7, <5>2
        <5> QED BY <5>1, <5>2
      <4>2. s # <<>> => s[Len(s)] # h
        BY <1>5, <2>1, <2>4, <3>1, <3>2, <4>1
      <4>3. c = Len(s) /\ \A j \in 1 .. (Len(s) - 1) : s[j] # s[j + 1]
        BY <2>1, <2>2, <3>2, <3>7, <4>1
      <4> QED BY <3>3, <4>2, <4>3, HistoryGrows
    <3>8. Len(s) <= Len(e) /\ c + 1 <= Len(e)
      BY <3>5, <3>6
    <3>9. i \notin raced' => c + 1 = Len(e) /\ \A j \in 1 .. (Len(e) - 1) : e[j] # e[j + 1]
      BY <3>5, <3>7
    <3> QED BY <3>2, <3>4, <3>5, <3>6, <3>8, <3>9
  <2> QED BY <2>3, <2>4
<1>7. ListingHistory'
  BY <1>6 DEF ListingHistory
<1>8. ListingsType'
  <2>1. listing' \in [Items -> Listed] /\ snapshots' \in [Items -> Seq(Hashes)]
    BY <1>2, <1>6
  <2> QED BY <1>3, <2>1 DEF ListingsInv, ListingsType
<1>9. ASSUME NEW v \in Workers, req'[v].op = "PUSH" PROVE PushFits(v)'
  <2>1. req'[v] = req[v] /\ req[v].op = "PUSH"
    BY <1>3, <1>9
  <2>2. /\ req[v].had \subseteq stored
        /\ \A i \in Items : req[v].saw[i] \in Listed /\ req[v].saw[i].count <= Len(snapshots[i])
    BY <2>1 DEF ListingsInv, PushFits
  <2>3. req[v].had \subseteq stored' /\ ~(stored' \subseteq req[v].had)
    BY <1>2, <2>2
  <2>4. ASSUME NEW i \in Items PROVE req[v].saw[i].count <= Len(snapshots'[i])
    <3>1. PICK c \in Nat, m \in Nat, k \in Nat : c = req[v].saw[i].count /\ m = Len(snapshots[i]) /\ k = Len(snapshots'[i])
      <4>1. req[v].saw[i].count \in Nat
        BY <2>2 DEF Listed
      <4>2. snapshots[i] \in Seq(Hashes) /\ snapshots'[i] \in Seq(Hashes)
        BY <1>6 DEF ListingsInv, ListingsType
      <4>3. Len(snapshots[i]) \in Nat /\ Len(snapshots'[i]) \in Nat
        BY <4>2
      <4> QED BY <4>1, <4>3
    <3> QED BY <1>6, <2>2, <3>1
  <2> QED BY <2>1, <2>2, <2>3, <2>4 DEF PushFits
<1>10. \A v \in Workers : PushFits(v)'
  BY <1>9 DEF PushFits
<1> QED BY <1>7, <1>8, <1>10 DEF ListingsInv

LEMMA ListingsStep ==
  ASSUME ListingsInv, ListingsNext
  PROVE  ListingsInv'
<1>0. DOMAIN req = Workers
  BY DEF ListingsInv, ListingsType
<1>1. ASSUME NEW w \in Workers, NEW n \in ListingScreens, NEW shows \in ScreenRows, PushRead(w, n, shows)
      PROVE  ListingsInv'
  <2>1. PICK r : r = [op |-> "PUSH", n |-> n, rows |-> shows, saw |-> listing, had |-> stored]
    OBVIOUS
  <2>2. DOMAIN req' = Workers /\ req'[w] = r /\ \A v \in Workers \ {w} : req'[v] = req[v]
    BY <1>0, <1>1, <2>1, BeginFacts DEF PushRead
  <2>3. UNCHANGED <<stored, listing, snapshots, raced>>
    BY <1>1 DEF PushRead, listingVars
  <2>4. r.op = "PUSH" /\ r.rows \in ScreenRows /\ r.saw = listing /\ r.had = stored
    BY <2>1
  <2>5. ListingsType' /\ ListingHistory'
    BY <2>2, <2>3, <2>4 DEF ListingsInv, ListingsType, ListingHistory
  <2>6. ASSUME NEW v \in Workers PROVE PushFits(v)'
    <3>1. CASE v = w
      <4>1. \A i \in Items : listing[i] \in Listed /\ listing[i].count <= Len(snapshots[i])
        BY DEF ListingsInv, ListingsType, ListingHistory
      <4> QED BY <2>2, <2>3, <2>4, <3>1, <4>1 DEF PushFits
    <3>2. CASE v # w
      BY <2>2, <2>3, <3>2 DEF PushFits, ListingsInv
    <3> QED BY <3>1, <3>2
  <2> QED BY <2>5, <2>6 DEF ListingsInv
<1>2. ASSUME NEW w \in Workers, PushFails(w) PROVE ListingsInv'
  <2>1. /\ DOMAIN req' = Workers /\ req'[w].op = "IDLE" /\ \A v \in Workers \ {w} : req'[v] = req[v]
        /\ UNCHANGED <<stored, listing, snapshots, raced>>
    BY <1>0, <1>2, EndFacts DEF PushFails, listingVars
  <2> QED BY <2>1 DEF ListingsInv, ListingsType, ListingHistory, PushFits
<1> QED BY <1>1, <1>2, PushInv DEF ListingsNext

FleetListings == IF service = "listings" THEN ListingsInv ELSE ListingsInit

\* The row of a listing is its last snapshot, and its history is its changes and
\* only those unless two different screens overlapped on it: for every number of
\* workers, listings and screens, in whatever order pushes and copies arrive.
THEOREM ListingHistoryCorrect == Spec => []ListingHistory
<1>1. Init => FleetListings
  BY ListingsStart DEF Init, FleetListings
<1>2. ASSUME FleetListings, [Next]_vars PROVE FleetListings'
  <2>1. CASE service = "listings" /\ Next
    BY <1>2, <2>1, ListingsStep DEF FleetListings, Next
  <2>2. CASE service # "listings" /\ Next
    BY <1>2, <2>2 DEF FleetListings, Next, listingVars, ListingsInit
  <2>3. CASE UNCHANGED vars
    <3>1. UNCHANGED <<service, req, stored, listing, snapshots, raced>>
      BY <2>3 DEF vars, rows, reqVars, listingVars
    <3> QED BY <1>2, <3>1 DEF FleetListings, ListingsInv, ListingsType, ListingHistory, PushFits, ListingsInit
  <2> QED BY <1>2, <2>1, <2>2, <2>3
<1>3. FleetListings => ListingHistory
  BY ListingsStart DEF FleetListings, ListingsInv
<1> QED BY <1>1, <1>2, <1>3, PTL DEF Spec

-----------------------------------------------------------------------------
(* Orders                                                                  *)

OrderRows == [exists : BOOLEAN, status : Statuses \cup {None}, src : (OrderTasks \X Screens) \cup {NoSource}]

OrdersType ==
    /\ order \in [OrderKeys -> OrderRows]
    /\ receipt \in [OrderTasks -> [Screens -> [stored : BOOLEAN, rows : Payloads \cup {<<>>}]]]
    /\ sealed \in [OrderTasks -> Nat] /\ oldPages \in [Runs -> SUBSET Screens]
    /\ checkpoint.last \in Nat

(* A row a delivery wrote exists, so the first ingest leaves it alone.     *)
SourceExists == \A k \in OrderKeys : order[k].src # NoSource => order[k].exists

(* The checkpoint names the last screen of its run.                        *)
CheckpointTrue ==
    /\ \A r \in Runs : \E n \in 0 .. MaxScreen : oldPages[r] = 1 .. n
    /\ checkpoint.run \in Runs => oldPages[checkpoint.run] = 1 .. checkpoint.last

SealedWhole ==
    \A t \in OrderTasks : /\ \E n \in 0 .. MaxScreen : Received(t) = 1 .. n
                          /\ sealed[t] > 0 => Received(t) = 1 .. sealed[t]

OrdersInv == OrdersType /\ SourceExists /\ NewestObservation /\ CheckpointTrue /\ SealedWhole

LEMMA OrdersStart == OrdersInit => OrdersInv
<1> SUFFICES ASSUME OrdersInit PROVE OrdersInv
  OBVIOUS
<1>1. OrdersType
  BY DEF OrdersInit, OrdersType, OrderRows, NoPayload, NoSource
<1>2. SourceExists
  BY DEF OrdersInit, SourceExists
<1>3. NewestObservation
  BY DEF OrdersInit, NewestObservation, Observations, NoPayload
<1>4. 0 \in 0 .. MaxScreen /\ {} = 1 .. 0
  BY OrdersAssumption
<1>5. CheckpointTrue
  BY <1>4 DEF OrdersInit, CheckpointTrue
<1>6. SealedWhole
  <2>1. \A u \in OrderTasks : Received(u) = {} /\ sealed[u] = 0
    BY DEF OrdersInit, Received, NoPayload
  <2> QED BY <1>4, <2>1 DEF SealedWhole
<1> QED BY <1>1, <1>2, <1>3, <1>5, <1>6 DEF OrdersInv

LEMMA RunCount ==
  ASSUME NEW S, NEW n \in Nat, S = 1 .. n
  PROVE  Cardinality(S) = n
BY FS_Interval

LEMMA OrdersSound == OrdersInv => OrdersTrue
<1> SUFFICES ASSUME OrdersInv PROVE OrdersTrue
  OBVIOUS
<1>1. ASSUME NEW S, NEW n \in 0 .. MaxScreen, S = 1 .. n PROVE S = 1 .. Cardinality(S)
  BY <1>1, RunCount, OrdersAssumption
<1>2. PagesContiguous
  BY <1>1 DEF OrdersInv, CheckpointTrue, SealedWhole, PagesContiguous
<1> QED BY <1>2 DEF OrdersInv, OrdersTrue

LEMMA LaterOrder ==
  ASSUME NEW a \in Nat \X Nat, NEW b \in Nat \X Nat, NEW c \in Nat \X Nat
  PROVE  /\ ~Later(a, b) /\ ~Later(b, c) => ~Later(a, c)
         /\ Later(a, b) => ~Later(b, a)
         /\ ~Later(a, a)
BY DEF Later

\* Where the row of an order was seen.
LEMMA SourceFacts ==
  ASSUME OrdersInv, NEW k \in OrderKeys
  PROVE  /\ order[k] \in OrderRows /\ order[k].src \in Nat \X Nat
         /\ Observations(k) \subseteq OrderTasks \X Screens
         /\ \A o \in OrderTasks \X Screens : o \in Nat \X Nat /\ o # NoSource /\ o[1] > 0
         /\ order[k].src = NoSource <=> Observations(k) = {}
<1>1. order[k] \in OrderRows
  BY DEF OrdersInv, OrdersType
<1>2. Observations(k) \subseteq OrderTasks \X Screens
  BY DEF Observations
<1>3. ASSUME NEW o \in OrderTasks \X Screens PROVE o \in Nat \X Nat /\ o # NoSource /\ o[1] > 0
  <2>1. o[1] \in Nat \ {0} /\ o[2] \in Nat /\ o = <<o[1], o[2]>>
    <3>1. o[1] \in OrderTasks /\ o[2] \in Screens /\ o = <<o[1], o[2]>>
      OBVIOUS
    <3>2. OrderTasks \subseteq Nat \ {0} /\ Screens \subseteq Nat
      BY OrdersAssumption DEF Screens
    <3> QED BY <3>1, <3>2
  <2> QED BY <2>1 DEF NoSource
<1>4. order[k].src \in Nat \X Nat
  BY <1>1, <1>3 DEF OrderRows, NoSource
<1>5. order[k].src = NoSource <=> Observations(k) = {}
  BY <1>2, <1>3, SMTT(30) DEF OrdersInv, NewestObservation
<1> QED BY <1>1, <1>2, <1>3, <1>4, <1>5

\* The order whose receipts and row stay, or whose row only changes where no
\* delivery wrote it, still shows its newest collection.
LEMMA NewestKept ==
  ASSUME OrdersInv, UNCHANGED receipt, order' \in [OrderKeys -> OrderRows],
         \A k \in OrderKeys : \/ order'[k] = order[k]
                              \/ order[k].src = NoSource /\ order'[k].src = NoSource
  PROVE  NewestObservation' /\ SourceExists'
<1>1. ASSUME NEW k \in OrderKeys
      PROVE  /\ IF Observations(k)' = {} THEN order'[k].src = NoSource
                ELSE /\ order'[k].src \in Observations(k)'
                     /\ \A o \in Observations(k)' : ~Later(o, order'[k].src)
                     /\ LET st == receipt'[order'[k].src[1]][order'[k].src[2]].rows[k]
                        IN  st # None => order'[k].status = st
             /\ order'[k].src # NoSource => order'[k].exists
  <2>1. Observations(k)' = Observations(k)
    BY SMTT(30) DEF Observations
  <2>2. CASE order'[k] = order[k]
    BY <2>1, <2>2 DEF OrdersInv, NewestObservation, SourceExists
  <2>3. CASE order[k].src = NoSource /\ order'[k].src = NoSource
    BY <2>1, <2>3, SourceFacts
  <2> QED BY <2>2, <2>3
<1> QED BY <1>1, SMTT(30) DEF NewestObservation, SourceExists

LEMMA UpsertedRow ==
  ASSUME NEW o \in OrderRows, NEW st \in Statuses \cup {None}
  PROVE  /\ Upserted(o, st) \in OrderRows /\ Upserted(o, st).src = o.src /\ Upserted(o, st).exists
         /\ st # None => Upserted(o, st).status = st
BY DEF Upserted, OrderRows

LEMMA PayloadRow ==
  ASSUME NEW rows_ \in Payloads, NEW k \in DOMAIN rows_
  PROVE  rows_[k] \in Statuses \cup {None}
BY DEF Payloads

LEMMA ReceiptFacts ==
  ASSUME OrdersInv, NEW t \in OrderTasks, NEW s \in Screens, NEW rows_ \in Payloads,
         receipt' = [receipt EXCEPT ![t][s] = [stored |-> TRUE, rows |-> rows_]]
  PROVE  /\ receipt' \in [OrderTasks -> [Screens -> [stored : BOOLEAN, rows : Payloads \cup {<<>>}]]]
         /\ receipt'[t][s] = [stored |-> TRUE, rows |-> rows_]
         /\ \A u \in OrderTasks, v \in Screens : u # t \/ v # s => receipt'[u][v] = receipt[u][v]
         /\ Received(t)' = Received(t) \cup {s}
         /\ \A u \in OrderTasks \ {t} : Received(u)' = Received(u)
<1>1. receipt \in [OrderTasks -> [Screens -> [stored : BOOLEAN, rows : Payloads \cup {<<>>}]]]
  BY DEF OrdersInv, OrdersType
<1>2. /\ receipt' \in [OrderTasks -> [Screens -> [stored : BOOLEAN, rows : Payloads \cup {<<>>}]]]
      /\ receipt'[t][s] = [stored |-> TRUE, rows |-> rows_]
      /\ \A u \in OrderTasks, v \in Screens : u # t \/ v # s => receipt'[u][v] = receipt[u][v]
  BY <1>1
<1> QED BY <1>2 DEF Received

LEMMA DeliverScreenInv ==
  ASSUME OrdersInv, NEW w, NEW t \in OrderTasks, NEW s \in Screens, NEW rows_ \in Payloads, DeliverScreen(w, t, s, rows_)
  PROVE  OrdersInv'
<1>1. /\ receipt' \in [OrderTasks -> [Screens -> [stored : BOOLEAN, rows : Payloads \cup {<<>>}]]]
      /\ receipt'[t][s] = [stored |-> TRUE, rows |-> rows_]
      /\ \A u \in OrderTasks, v \in Screens : u # t \/ v # s => receipt'[u][v] = receipt[u][v]
      /\ Received(t)' = Received(t) \cup {s}
      /\ \A u \in OrderTasks \ {t} : Received(u)' = Received(u)
  BY ReceiptFacts DEF DeliverScreen
<1>2. /\ order' = [k \in OrderKeys |-> IF k \in DOMAIN rows_ /\ ~Stale(k, t, s)
                                      THEN [Upserted(order[k], rows_[k]) EXCEPT !.src = <<t, s>>] ELSE order[k]]
      /\ ~receipt[t][s].stored /\ sealed[t] = 0 /\ Received(t) = 1 .. (s - 1)
      /\ UNCHANGED <<sealed, oldPages, checkpoint>>
  BY DEF DeliverScreen
<1>3. ASSUME NEW k \in OrderKeys
      PROVE  /\ order'[k] \in OrderRows
             /\ IF Observations(k)' = {} THEN order'[k].src = NoSource
                ELSE /\ order'[k].src \in Observations(k)'
                     /\ \A o \in Observations(k)' : ~Later(o, order'[k].src)
                     /\ LET st == receipt'[order'[k].src[1]][order'[k].src[2]].rows[k]
                        IN  st # None => order'[k].status = st
             /\ order'[k].src # NoSource => order'[k].exists
  <2>1. /\ order[k] \in OrderRows /\ order[k].src \in Nat \X Nat
        /\ Observations(k) \subseteq OrderTasks \X Screens
        /\ \A o \in OrderTasks \X Screens : o \in Nat \X Nat /\ o # NoSource /\ o[1] > 0
        /\ order[k].src = NoSource <=> Observations(k) = {}
    BY SourceFacts
  <2>2. <<t, s>> \in OrderTasks \X Screens /\ <<t, s>> \in Nat \X Nat /\ <<t, s>> # NoSource /\ <<t, s>>[1] > 0
    BY <2>1
  <2>3. /\ k \in DOMAIN rows_ => Observations(k)' = Observations(k) \cup {<<t, s>>}
        /\ k \notin DOMAIN rows_ => Observations(k)' = Observations(k)
        /\ <<t, s>> \notin Observations(k)
    <3>1. ASSUME NEW o \in OrderTasks \X Screens, o # <<t, s>>
          PROVE  o \in Observations(k)' <=> o \in Observations(k)
      <4>1. o[1] \in OrderTasks /\ o[2] \in Screens /\ (o[1] # t \/ o[2] # s)
        BY <3>1
      <4>2. receipt'[o[1]][o[2]] = receipt[o[1]][o[2]]
        BY <1>1, <4>1
      <4> QED BY <4>2 DEF Observations
    <3>2. <<t, s>> \in Observations(k)' <=> k \in DOMAIN rows_
      BY <1>1, <2>2 DEF Observations
    <3>3. <<t, s>> \notin Observations(k)
      BY <1>2 DEF Observations
    <3>4. Observations(k)' \subseteq OrderTasks \X Screens
      BY SMTT(30) DEF Observations
    <3> QED BY <2>1, <2>2, <3>1, <3>2, <3>3, <3>4, SMTT(30)
  <2>4. Observations(k) # {} =>
           /\ order[k].src \in Observations(k)
           /\ \A o \in Observations(k) : ~Later(o, order[k].src)
           /\ LET st == receipt[order[k].src[1]][order[k].src[2]].rows[k] IN st # None => order[k].status = st
    BY DEF OrdersInv, NewestObservation
  <2>5. order[k].src \in Observations(k) =>
           receipt'[order[k].src[1]][order[k].src[2]] = receipt[order[k].src[1]][order[k].src[2]]
    <3> SUFFICES ASSUME order[k].src \in Observations(k)
                 PROVE  receipt'[order[k].src[1]][order[k].src[2]] = receipt[order[k].src[1]][order[k].src[2]]
      OBVIOUS
    <3>1. order[k].src \in OrderTasks \X Screens /\ order[k].src # <<t, s>>
      BY <2>1, <2>3
    <3>2. order[k].src[1] # t \/ order[k].src[2] # s
      BY <3>1
    <3> QED BY <1>1, <3>1, <3>2
  <2>6. order[k].src # NoSource => order[k].exists
    BY SMTT(30) DEF OrdersInv, SourceExists
  <2>7. CASE k \notin DOMAIN rows_
    <3>1. order'[k] = order[k]
      BY <1>2, <2>7, SMTT(30)
    <3> QED BY <2>1, <2>3, <2>4, <2>5, <2>6, <2>7, <3>1
  <2>8. CASE k \in DOMAIN rows_ /\ Stale(k, t, s)
    <3>1. order'[k] = order[k] /\ Later(order[k].src, <<t, s>>)
      BY <1>2, <2>8 DEF Stale
    <3>2. ~Later(<<t, s>>, order[k].src)
      BY <2>1, <2>2, <3>1, LaterOrder
    <3>3. order[k].src # NoSource
      BY <2>2, <3>1 DEF Later, NoSource
    <3> QED BY <2>1, <2>3, <2>4, <2>5, <2>6, <2>8, <3>1, <3>2, <3>3
  <2>9. CASE k \in DOMAIN rows_ /\ ~Stale(k, t, s)
    <3>1. order'[k] = [Upserted(order[k], rows_[k]) EXCEPT !.src = <<t, s>>]
      BY <1>2, <2>9
    <3>2. /\ Upserted(order[k], rows_[k]) \in OrderRows /\ Upserted(order[k], rows_[k]).exists
          /\ rows_[k] # None => Upserted(order[k], rows_[k]).status = rows_[k]
      BY <2>1, <2>9, PayloadRow, UpsertedRow
    <3>3. /\ order'[k] \in OrderRows /\ order'[k].src = <<t, s>> /\ order'[k].exists
          /\ rows_[k] # None => order'[k].status = rows_[k]
      BY <2>2, <3>1, <3>2 DEF OrderRows
    <3>4. receipt'[order'[k].src[1]][order'[k].src[2]].rows[k] = rows_[k]
      BY <1>1, <3>3
    <3>5. ASSUME NEW o \in Observations(k)' PROVE ~Later(o, <<t, s>>)
      <4>1. CASE o = <<t, s>>
        BY <2>2, <4>1, LaterOrder
      <4>2. CASE o \in Observations(k)
        <5>1. ~Later(o, order[k].src) /\ ~Later(order[k].src, <<t, s>>) /\ o \in Nat \X Nat
          BY <2>1, <2>4, <2>9, <4>2, SMTT(30) DEF Stale
        <5> QED BY <2>1, <2>2, <5>1, LaterOrder
      <4> QED BY <2>3, <2>9, <4>1, <4>2
    <3> QED BY <2>3, <2>9, <3>3, <3>4, <3>5
  <2> QED BY <2>7, <2>8, <2>9, Zenon
<1>4. NewestObservation' /\ SourceExists'
  BY <1>3, SMTT(30) DEF NewestObservation, SourceExists
<1>5. order' \in [OrderKeys -> OrderRows]
  BY <1>2, <1>3
<1>6. OrdersType'
  BY <1>1, <1>2, <1>5 DEF OrdersInv, OrdersType
<1>7. CheckpointTrue'
  BY <1>2 DEF OrdersInv, CheckpointTrue
<1>8. SealedWhole'
  <2>1. Received(t)' = 1 .. s /\ s \in 0 .. MaxScreen
    BY <1>1, <1>2, OrdersAssumption DEF Screens
  <2> QED BY <1>1, <1>2, <2>1 DEF OrdersInv, SealedWhole
<1> QED BY <1>4, <1>6, <1>7, <1>8 DEF OrdersInv

LEMMA PushScreenInv ==
  ASSUME OrdersInv, NEW w, NEW r \in Runs, NEW s \in Screens, NEW rows_ \in Payloads, PushScreen(w, r, s, rows_)
  PROVE  OrdersInv'
<1>1. /\ s \notin oldPages[r] /\ \A k \in DOMAIN rows_ : order[k].src = NoSource
      /\ order' = [k \in OrderKeys |-> IF k \in DOMAIN rows_ THEN Upserted(order[k], rows_[k]) ELSE order[k]]
      /\ oldPages' = [oldPages EXCEPT ![r] = @ \cup {s}] /\ UNCHANGED <<receipt, sealed>>
      /\ GuardCheckpoint(r, s)
      /\ checkpoint' = [run |-> r, last |-> IF checkpoint.run = r /\ checkpoint.last > s THEN checkpoint.last ELSE s]
  BY DEF PushScreen
<1>2. ASSUME NEW k \in OrderKeys
      PROVE  /\ order'[k] \in OrderRows
             /\ order'[k] = order[k] \/ (order[k].src = NoSource /\ order'[k].src = NoSource)
  <2>1. order[k] \in OrderRows
    BY DEF OrdersInv, OrdersType
  <2> QED BY <1>1, <2>1, PayloadRow, UpsertedRow
<1>3. order' \in [OrderKeys -> OrderRows]
  BY <1>1, <1>2
<1>4. NewestObservation' /\ SourceExists'
  BY <1>1, <1>2, <1>3, NewestKept
<1>5. /\ checkpoint.last \in Nat /\ s \in Nat /\ s > 0 /\ s <= MaxScreen /\ MaxScreen \in Nat
      /\ oldPages \in [Runs -> SUBSET Screens]
  BY OrdersAssumption DEF OrdersInv, OrdersType, Screens
<1>6. oldPages'[r] = 1 .. s /\ checkpoint'.last = s /\ checkpoint'.run = r
  <2>1. CASE checkpoint.run = r
    <3>1. oldPages[r] = 1 .. checkpoint.last /\ s <= checkpoint.last + 1
      BY <1>1, <2>1 DEF OrdersInv, CheckpointTrue, GuardCheckpoint
    <3>2. s = checkpoint.last + 1
      BY <1>1, <1>5, <3>1
    <3>3. oldPages'[r] = oldPages[r] \cup {s} /\ checkpoint'.last = s /\ checkpoint'.run = r
      BY <1>1, <1>5, <3>2
    <3> QED BY <1>5, <3>1, <3>2, <3>3
  <2>2. CASE checkpoint.run # r
    <3>1. s = 1
      BY <1>1, <2>2 DEF GuardCheckpoint
    <3>2. PICK n \in 0 .. MaxScreen : oldPages[r] = 1 .. n
      BY DEF OrdersInv, CheckpointTrue
    <3>3. n = 0
      BY <1>1, <1>5, <3>1, <3>2
    <3>4. oldPages'[r] = oldPages[r] \cup {s} /\ checkpoint'.last = s /\ checkpoint'.run = r
      BY <1>1, <1>5, <2>2
    <3> QED BY <3>1, <3>2, <3>3, <3>4
  <2> QED BY <2>1, <2>2
<1>7. oldPages' \in [Runs -> SUBSET Screens] /\ \A q \in Runs \ {r} : oldPages'[q] = oldPages[q]
  BY <1>1, <1>5
<1>8. CheckpointTrue'
  BY <1>5, <1>6, <1>7 DEF OrdersInv, CheckpointTrue
<1>9. OrdersType'
  BY <1>1, <1>3, <1>5, <1>6, <1>7 DEF OrdersInv, OrdersType
<1>10. SealedWhole'
  BY <1>1 DEF OrdersInv, SealedWhole, Received
<1> QED BY <1>4, <1>8, <1>9, <1>10 DEF OrdersInv

LEMMA IngestInv ==
  ASSUME OrdersInv, NEW w, NEW k \in OrderKeys, NEW st \in Statuses \cup {None}, IngestOrder(w, k, st)
  PROVE  OrdersInv'
<1>1. /\ ~order[k].exists /\ order' = [order EXCEPT ![k] = Upserted(order[k], st)]
      /\ UNCHANGED <<receipt, sealed, oldPages, checkpoint>>
  BY DEF IngestOrder
<1>2. order \in [OrderKeys -> OrderRows] /\ order[k].src = NoSource
  BY <1>1 DEF OrdersInv, OrdersType, SourceExists
<1>3. Upserted(order[k], st) \in OrderRows /\ Upserted(order[k], st).src = NoSource
  BY <1>2, UpsertedRow
<1>4. /\ order' \in [OrderKeys -> OrderRows]
      /\ \A j \in OrderKeys : order'[j] = order[j] \/ (order[j].src = NoSource /\ order'[j].src = NoSource)
  BY <1>1, <1>2, <1>3
<1>5. NewestObservation' /\ SourceExists'
  BY <1>1, <1>4, NewestKept
<1> QED BY <1>1, <1>4, <1>5 DEF OrdersInv, OrdersType, CheckpointTrue, SealedWhole, Received

LEMMA OrdersStutter ==
  ASSUME OrdersInv, UNCHANGED <<order, receipt, sealed, oldPages, checkpoint>>
  PROVE  OrdersInv'
<1>1. order' \in [OrderKeys -> OrderRows]
  BY DEF OrdersInv, OrdersType
<1>2. NewestObservation' /\ SourceExists'
  BY <1>1, NewestKept
<1>3. \A u \in OrderTasks : Received(u)' = Received(u)
  BY DEF Received
<1>4. OrdersType' /\ CheckpointTrue' /\ SealedWhole'
  BY <1>3 DEF OrdersInv, OrdersType, CheckpointTrue, SealedWhole
<1> QED BY <1>2, <1>4 DEF OrdersInv

LEMMA CompleteInv ==
  ASSUME OrdersInv, NEW w, NEW t \in OrderTasks, NEW total \in Screens, DeliverComplete(w, t, total)
  PROVE  OrdersInv'
<1>1. CASE UNCHANGED sealed
  BY <1>1, OrdersStutter DEF DeliverComplete
<1>2. CASE ~UNCHANGED sealed
  <2>1. Received(t) = 1 .. total /\ sealed' = [sealed EXCEPT ![t] = total] /\ UNCHANGED <<order, receipt, oldPages, checkpoint>>
    BY <1>2 DEF DeliverComplete
  <2>2. sealed \in [OrderTasks -> Nat] /\ total \in Nat
    BY OrdersAssumption DEF OrdersInv, OrdersType, Screens
  <2>3. sealed' \in [OrderTasks -> Nat] /\ sealed'[t] = total /\ \A u \in OrderTasks \ {t} : sealed'[u] = sealed[u]
    BY <2>1, <2>2
  <2>4. \A u \in OrderTasks : Received(u)' = Received(u)
    BY <2>1 DEF Received
  <2>5. order' \in [OrderKeys -> OrderRows]
    BY <2>1 DEF OrdersInv, OrdersType
  <2>6. NewestObservation' /\ SourceExists'
    BY <2>1, <2>5, NewestKept
  <2>7. SealedWhole'
    BY <2>1, <2>3, <2>4 DEF OrdersInv, SealedWhole
  <2> QED BY <2>1, <2>3, <2>6, <2>7 DEF OrdersInv, OrdersType, CheckpointTrue
<1> QED BY <1>1, <1>2

LEMMA OrdersStep ==
  ASSUME OrdersInv, OrdersNext
  PROVE  OrdersInv'
<1>1. ASSUME NEW w, NEW t, NEW s, NEW rows_, DeliverAgain(w, t, s, rows_) PROVE OrdersInv'
  BY <1>1, OrdersStutter DEF DeliverAgain
<1> QED BY <1>1, DeliverScreenInv, CompleteInv, PushScreenInv, IngestInv DEF OrdersNext

\* Orders show their newest collection and the stored screens have no gap,
\* for every number of tasks, screens and runs, in whatever order, by
\* whichever route and however often the screens arrive.
THEOREM OrdersTrueCorrect == Spec => []OrdersTrue
<1>1. Init => OrdersInv
  BY OrdersStart DEF Init
<1>2. ASSUME OrdersInv, [Next]_vars PROVE OrdersInv'
  <2>1. OrdersNext \/ UNCHANGED <<order, receipt, sealed, oldPages, checkpoint>>
    BY <1>2 DEF Next, vars, rows, orderVars
  <2> QED BY <1>2, <2>1, OrdersStep, OrdersStutter
<1> QED BY <1>1, <1>2, OrdersSound, PTL DEF Spec

-----------------------------------------------------------------------------
(* Maintenance runs                                                        *)

MaintType ==
    /\ DOMAIN req = Workers /\ fanned \in [1 .. RunTargets -> [tasks : {0, 1}, stamped : BOOLEAN]]
    /\ \A w \in Workers : /\ req[w].op \in {"IDLE", "INSERT", "STAMP", "APPROVE"}
                          /\ req[w].op \in {"INSERT", "STAMP"} => req[w].i \in 1 .. RunTargets
                          /\ req[w].op = "STAMP" => req[w] = [op |-> "STAMP", i |-> req[w].i]

(* A request that works on a target has seen a task of all before it.      *)
RunProgress(w) ==
    /\ req[w].op \in {"INSERT", "STAMP"} => \A j \in 1 .. (req[w].i - 1) : fanned[j].tasks = 1
    /\ req[w].op = "STAMP" => fanned[req[w].i].tasks = 1

MaintInv == MaintType /\ RunFannedOut /\ \A w \in Workers : RunProgress(w)

LEMMA MaintStart ==
  ASSUME MaintInit
  PROVE  RunFannedOut /\ (req = [w \in Workers |-> Idle] => MaintInv)
<1>1. fanned \in [1 .. RunTargets -> [tasks : {0, 1}, stamped : BOOLEAN]] /\ ~answered
      /\ \A i \in 1 .. RunTargets : fanned[i].tasks = 0
  BY DEF MaintInit
<1> QED BY <1>1 DEF RunFannedOut, MaintInv, MaintType, RunProgress, Idle

\* The request of one worker is replaced by one that stamps no target and
\* works on one whose predecessors have their task; rows are left alone.
LEMMA MaintRequest ==
  ASSUME MaintInv, NEW w \in Workers, UNCHANGED fanned, DOMAIN req' = Workers,
         \A v \in Workers \ {w} : req'[v] = req[v],
         req'[w].op \in {"IDLE", "INSERT", "APPROVE"},
         req'[w].op = "INSERT" =>
            req'[w].i \in 1 .. RunTargets /\ \A j \in 1 .. (req'[w].i - 1) : fanned[j].tasks = 1,
         answered' => answered \/ \A i \in 1 .. RunTargets : fanned[i].tasks = 1,
         orphaned \subseteq orphaned', req[w].op = "STAMP" => req[w].i \in orphaned'
  PROVE  MaintInv'
<1>1. MaintType'
  BY DEF MaintInv, MaintType
<1>2. ASSUME NEW i \in 1 .. RunTargets, fanned[i].tasks = 1, ~fanned[i].stamped
      PROVE  i \in orphaned' \/ \E v \in Workers : req'[v] = [op |-> "STAMP", i |-> i]
  <2>1. i \in orphaned \/ \E v \in Workers : req[v] = [op |-> "STAMP", i |-> i]
    BY <1>2 DEF MaintInv, RunFannedOut
  <2>2. ASSUME NEW v \in Workers, req[v] = [op |-> "STAMP", i |-> i]
        PROVE  i \in orphaned' \/ req'[v] = [op |-> "STAMP", i |-> i]
    BY <2>2
  <2> QED BY <2>1, <2>2
<1>3. RunFannedOut'
  BY <1>2 DEF MaintInv, RunFannedOut
<1>4. ASSUME NEW v \in Workers PROVE RunProgress(v)'
  BY DEF MaintInv, RunProgress
<1> QED BY <1>1, <1>3, <1>4 DEF MaintInv

\* A target that has its task: the request goes on to the next, or answers.
LEMMA AdvanceFacts ==
  ASSUME MaintInv, NEW w \in Workers, req[w].op \in {"INSERT", "STAMP"}, fanned[req[w].i].tasks = 1, Advance(w, req[w].i)
  PROVE  /\ DOMAIN req' = Workers /\ \A v \in Workers \ {w} : req'[v] = req[v]
         /\ req'[w].op \in {"IDLE", "INSERT"}
         /\ req'[w].op = "INSERT" =>
               req'[w].i \in 1 .. RunTargets /\ \A j \in 1 .. (req'[w].i - 1) : fanned[j].tasks = 1
         /\ answered' => answered \/ \A i \in 1 .. RunTargets : fanned[i].tasks = 1
<1> DEFINE i == req[w].i
<1>1. DOMAIN req = Workers /\ i \in 1 .. RunTargets /\ \A j \in 1 .. i : fanned[j].tasks = 1
  BY DEF MaintInv, MaintType, RunProgress
<1>2. CASE i < RunTargets
  <2>1. /\ req' = [req EXCEPT ![w] = [op |-> "INSERT", i |-> i + 1]] /\ UNCHANGED answered
    BY <1>2 DEF Advance
  <2>2. /\ DOMAIN req' = Workers /\ \A v \in Workers \ {w} : req'[v] = req[v]
        /\ req'[w].op = "INSERT" /\ req'[w].i = i + 1
    BY <1>1, <2>1
  <2> QED BY <1>1, <1>2, <2>1, <2>2, MaintenanceAssumption
<1>3. CASE ~(i < RunTargets)
  <2>1. i = RunTargets /\ End(w)
    BY <1>1, <1>3, MaintenanceAssumption DEF Advance
  <2> QED BY <1>1, <2>1, EndFacts
<1> QED BY <1>2, <1>3

LEMMA RunInsertInv ==
  ASSUME MaintInv, NEW w \in Workers, RunInsert(w)
  PROVE  MaintInv'
<1> DEFINE i == req[w].i
<1>1. DOMAIN req = Workers /\ req[w].op = "INSERT" /\ i \in 1 .. RunTargets /\ UNCHANGED orphaned
      /\ fanned \in [1 .. RunTargets -> [tasks : {0, 1}, stamped : BOOLEAN]]
  BY DEF MaintInv, MaintType, RunInsert
<1>2. CASE fanned[i].tasks > 0
  <2>1. Advance(w, i) /\ UNCHANGED fanned
    BY <1>2 DEF RunInsert, TaskKeyTaken
  <2>2. fanned[i].tasks = 1
    BY <1>1, <1>2
  <2> QED BY <1>1, <2>1, <2>2, AdvanceFacts, MaintRequest
<1>3. CASE ~(fanned[i].tasks > 0)
  <2>1. /\ fanned' = [fanned EXCEPT ![i].tasks = @ + 1] /\ UNCHANGED answered
        /\ req' = [req EXCEPT ![w] = [op |-> "STAMP", i |-> i]]
    BY <1>3 DEF RunInsert, TaskKeyTaken
  <2>2. fanned[i].tasks = 0
    BY <1>1, <1>3
  <2>3. /\ fanned' \in [1 .. RunTargets -> [tasks : {0, 1}, stamped : BOOLEAN]] /\ fanned'[i].tasks = 1
        /\ \A j \in 1 .. RunTargets : fanned[j].tasks = 1 => fanned'[j].tasks = 1
        /\ \A j \in (1 .. RunTargets) \ {i} : fanned'[j] = fanned[j]
    BY <1>1, <2>1, <2>2
  <2>4. DOMAIN req' = Workers /\ req'[w] = [op |-> "STAMP", i |-> i] /\ \A v \in Workers \ {w} : req'[v] = req[v]
    BY <1>1, <2>1
  <2>5. req'[w].op = "STAMP" /\ req'[w].i = i
    BY <2>4
  <2> HIDE DEF i
  <2>6. MaintType'
    BY <1>1, <2>3, <2>4, <2>5 DEF MaintInv, MaintType
  <2>7. RunFannedOut'
    <3>1. ~answered'
      BY <1>1, <2>1, <2>2 DEF MaintInv, RunFannedOut
    <3>2. ASSUME NEW j \in 1 .. RunTargets, fanned'[j].tasks = 1, ~fanned'[j].stamped
          PROVE  j \in orphaned' \/ \E v \in Workers : req'[v] = [op |-> "STAMP", i |-> j]
      <4>1. CASE j = i
        BY <2>4, <4>1
      <4>2. CASE j # i
        <5>1. j \in orphaned \/ \E v \in Workers : req[v] = [op |-> "STAMP", i |-> j]
          BY <2>3, <3>2, <4>2 DEF MaintInv, RunFannedOut
        <5>2. ASSUME NEW v \in Workers, req[v] = [op |-> "STAMP", i |-> j] PROVE req'[v] = [op |-> "STAMP", i |-> j]
          BY <1>1, <2>4, <5>2
        <5> QED BY <1>1, <5>1, <5>2
      <4> QED BY <4>1, <4>2
    <3>3. \A j \in 1 .. RunTargets : fanned'[j].tasks <= 1
      BY <2>3
    <3> QED BY <3>1, <3>2, <3>3 DEF RunFannedOut
  <2>8. ASSUME NEW v \in Workers PROVE RunProgress(v)'
    <3>1. \A j \in 1 .. (i - 1) : fanned'[j].tasks = 1
      BY <1>1, <2>3, MaintenanceAssumption DEF MaintInv, RunProgress, i
    <3>2. CASE v = w
      BY <2>3, <2>5, <3>1, <3>2 DEF RunProgress
    <3>3. CASE v # w
      <4>1. req'[v] = req[v]
        BY <2>4, <3>3
      <4>2. req[v].op \in {"INSERT", "STAMP"} => req[v].i \in 1 .. RunTargets
        BY DEF MaintInv, MaintType
      <4>3. req[v].op \in {"INSERT", "STAMP"} => 1 .. (req[v].i - 1) \subseteq 1 .. RunTargets
        BY <4>2, MaintenanceAssumption
      <4> QED BY <2>3, <4>1, <4>2, <4>3 DEF RunProgress, MaintInv
    <3> QED BY <3>2, <3>3
  <2> QED BY <2>6, <2>7, <2>8 DEF MaintInv
<1> QED BY <1>2, <1>3

LEMMA RunStampInv ==
  ASSUME MaintInv, NEW w \in Workers, RunStamp(w)
  PROVE  MaintInv'
<1> DEFINE i == req[w].i
<1>1. /\ DOMAIN req = Workers /\ req[w].op = "STAMP" /\ i \in 1 .. RunTargets /\ UNCHANGED orphaned
      /\ fanned \in [1 .. RunTargets -> [tasks : {0, 1}, stamped : BOOLEAN]] /\ fanned[i].tasks = 1
      /\ fanned' = [fanned EXCEPT ![i].stamped = TRUE] /\ Advance(w, i)
  BY DEF MaintInv, MaintType, RunStamp, RunProgress
<1>2. /\ fanned' \in [1 .. RunTargets -> [tasks : {0, 1}, stamped : BOOLEAN]] /\ fanned'[i].stamped
      /\ \A j \in 1 .. RunTargets : fanned'[j].tasks = fanned[j].tasks
      /\ \A j \in (1 .. RunTargets) \ {i} : fanned'[j] = fanned[j]
  BY <1>1
<1>3. /\ DOMAIN req' = Workers /\ \A v \in Workers \ {w} : req'[v] = req[v]
      /\ req'[w].op \in {"IDLE", "INSERT"}
      /\ req'[w].op = "INSERT" =>
            req'[w].i \in 1 .. RunTargets /\ \A j \in 1 .. (req'[w].i - 1) : fanned[j].tasks = 1
      /\ answered' => answered \/ \A j \in 1 .. RunTargets : fanned[j].tasks = 1
  BY <1>1, AdvanceFacts
<1>4. \A v \in Workers : req'[v].op \in {"INSERT", "STAMP"} =>
         req'[v].i \in 1 .. RunTargets /\ 1 .. (req'[v].i - 1) \subseteq 1 .. RunTargets
  BY <1>3, MaintenanceAssumption DEF MaintInv, MaintType
<1> HIDE DEF i
<1>5. MaintType'
  BY <1>2, <1>3 DEF MaintInv, MaintType
<1>6. RunFannedOut'
  <2>1. ASSUME NEW j \in 1 .. RunTargets, fanned'[j].tasks = 1, ~fanned'[j].stamped
        PROVE  j \in orphaned' \/ \E v \in Workers : req'[v] = [op |-> "STAMP", i |-> j]
    <3>1. j # i /\ (j \in orphaned \/ \E v \in Workers : req[v] = [op |-> "STAMP", i |-> j])
      BY <1>2, <2>1 DEF MaintInv, RunFannedOut
    <3>2. ASSUME NEW v \in Workers, req[v] = [op |-> "STAMP", i |-> j] PROVE req'[v] = [op |-> "STAMP", i |-> j]
      BY <1>3, <3>1, <3>2 DEF i
    <3> QED BY <1>1, <3>1, <3>2
  <2>2. \A j \in 1 .. RunTargets : fanned'[j].tasks <= 1
    BY <1>2
  <2>3. answered' => \A j \in 1 .. RunTargets : fanned'[j].tasks = 1
    BY <1>2, <1>3 DEF MaintInv, RunFannedOut
  <2> QED BY <2>1, <2>2, <2>3 DEF RunFannedOut
<1>7. ASSUME NEW v \in Workers PROVE RunProgress(v)'
  <2>1. CASE v = w
    BY <1>2, <1>3, <1>4, <2>1 DEF RunProgress
  <2>2. CASE v # w
    BY <1>2, <1>3, <1>4, <2>2 DEF RunProgress, MaintInv
  <2> QED BY <2>1, <2>2
<1> QED BY <1>5, <1>6, <1>7 DEF MaintInv

LEMMA MaintStep ==
  ASSUME MaintInv, MaintNext
  PROVE  MaintInv'
<1>0. DOMAIN req = Workers
  BY DEF MaintInv, MaintType
<1>1. CASE UNCHANGED <<req, runVars>>
  BY <1>1 DEF runVars, MaintInv, MaintType, RunFannedOut, RunProgress
<1>2. ASSUME NEW w \in Workers, RunStart(w) PROVE MaintInv'
  <2>1. /\ DOMAIN req' = Workers /\ req'[w] = [op |-> "INSERT", i |-> 1] /\ req[w].op = "IDLE"
        /\ \A v \in Workers \ {w} : req'[v] = req[v]
    BY <1>0, <1>2, BeginFacts DEF RunStart
  <2>2. req'[w].op = "INSERT" /\ req'[w].i = 1 /\ 1 \in 1 .. RunTargets /\ 1 .. (1 - 1) = {}
    BY <2>1, MaintenanceAssumption
  <2>3. UNCHANGED <<fanned, answered, orphaned>>
    BY <1>2 DEF RunStart, maintVars
  <2> QED BY <2>1, <2>2, <2>3, MaintRequest
<1>3. ASSUME NEW w \in Workers, RunDies(w) PROVE MaintInv'
  <2>1. /\ DOMAIN req' = Workers /\ req'[w].op = "IDLE" /\ \A v \in Workers \ {w} : req'[v] = req[v]
    BY <1>0, <1>3, EndFacts DEF RunDies
  <2>2. UNCHANGED <<fanned, answered>> /\ orphaned \subseteq orphaned' /\ (req[w].op = "STAMP" => req[w].i \in orphaned')
    BY <1>3 DEF RunDies
  <2> QED BY <2>1, <2>2, MaintRequest
<1>4. ASSUME NEW w \in Workers, NEW a, ApproveRead(w, a) PROVE MaintInv'
  <2>1. /\ DOMAIN req' = Workers /\ req'[w] = [op |-> "APPROVE", a |-> a] /\ req[w].op = "IDLE"
        /\ \A v \in Workers \ {w} : req'[v] = req[v]
    BY <1>0, <1>4, BeginFacts DEF ApproveRead
  <2>2. req'[w].op = "APPROVE" /\ UNCHANGED <<fanned, answered, orphaned>>
    BY <1>4, <2>1 DEF ApproveRead, maintVars
  <2> QED BY <2>1, <2>2, MaintRequest
<1>5. ASSUME NEW w \in Workers, ApproveCommit(w) PROVE MaintInv'
  <2>1. /\ DOMAIN req' = Workers /\ req'[w].op = "IDLE" /\ \A v \in Workers \ {w} : req'[v] = req[v]
    BY <1>0, <1>5, EndFacts DEF ApproveCommit
  <2>2. UNCHANGED <<fanned, answered, orphaned>> /\ req[w].op # "STAMP"
    BY <1>5 DEF ApproveCommit, runVars
  <2> QED BY <2>1, <2>2, MaintRequest
<1>6. ASSUME NEW w \in Workers, NEW a, IssueConfirm(w, a) \/ AbortApproval(w, a) \/ ReportResult(w, a) \/ ResolveApproval(w, a)
      PROVE  MaintInv'
  BY <1>1, <1>6 DEF IssueConfirm, AbortApproval, ReportResult, ResolveApproval, AtOnce
<1>7. ASSUME NEW a, StrikeMoves(a) PROVE MaintInv'
  BY <1>1, <1>7 DEF StrikeMoves, reqVars
<1> QED BY <1>2, <1>3, <1>4, <1>5, <1>6, <1>7, RunInsertInv, RunStampInv DEF MaintNext

FleetMaint == IF service = "maintenance" THEN MaintInv ELSE MaintInit

\* A run has one task for each target, all of them once it was answered, and
\* the ones nobody will stamp are those of requests that died: for every
\* number of targets, requests, retries and deaths.
THEOREM RunFannedOutCorrect == Spec => []RunFannedOut
<1>1. Init => FleetMaint
  BY MaintStart DEF Init, FleetMaint
<1>2. ASSUME FleetMaint, [Next]_vars PROVE FleetMaint'
  <2>1. CASE service = "maintenance" /\ Next
    BY <1>2, <2>1, MaintStep DEF FleetMaint, Next
  <2>2. CASE service # "maintenance" /\ Next
    BY <1>2, <2>2 DEF FleetMaint, Next, maintVars, MaintInit
  <2>3. CASE UNCHANGED vars
    <3>1. UNCHANGED <<service, req, fanned, answered, orphaned, approval, strike, verdict>>
      BY <2>3 DEF vars, rows, reqVars, maintVars
    <3> QED BY <1>2, <3>1 DEF FleetMaint, MaintInv, MaintType, RunFannedOut, RunProgress, MaintInit
  <2> QED BY <1>2, <2>1, <2>2, <2>3
<1>3. FleetMaint => RunFannedOut
  BY MaintStart DEF FleetMaint, MaintInv
<1> QED BY <1>1, <1>2, <1>3, PTL DEF Spec

-----------------------------------------------------------------------------
(* The publish queue                                                       *)

TargetRows == [state : TargetStates, claimed : Boundaries, recorded : Boundaries, attempts : Nat, item : BOOLEAN,
               proof : SUBSET EvidenceFlags]

QueueInv ==
    /\ target \in [Positions -> TargetRows]
    /\ \A p, q \in Positions : target[p].state = "NONE" => target[q].state = "NONE"
    /\ \A p \in Positions : target[p].item => target[p].state = "SUCCEEDED_CONFIRMED"
    /\ QueueHonest

LEMMA QueueStarts == QueueInit => QueueInv
BY DEF QueueInit, QueueInv, TargetRows, TargetStates, Boundaries, QueueHonest, SerialOrder, DowngradeOnly, QueueTerminal

\* One row of an issued or eligible target changes.
LEMMA TargetMoves ==
  ASSUME QueueInv, NEW p \in Positions, NEW r \in TargetRows, target' = [target EXCEPT ![p] = r],
         target[p].state \notin QueueTerminal \cup {"NONE"}, r.state \notin {"NONE", "PENDING"},
         \A q \in 1 .. (p - 1) : target[q].state \in QueueTerminal,
         r.item => r.state = "SUCCEEDED_CONFIRMED",
         r.state \in QueueTerminal => r.claimed \subseteq r.recorded,
         r.item => /\ "price" \notin r.recorded => "priceEnteredByMachine" \in r.proof
                   /\ "commit" \notin r.recorded => "commitClickedByMachine" \in r.proof
                   /\ RequiredEvidence(r.recorded) \subseteq r.proof
  PROVE  QueueInv'
<1>1. target' \in [Positions -> TargetRows] /\ target'[p] = r /\ \A q \in Positions \ {p} : target'[q] = target[q]
  BY DEF QueueInv
<1>2. SerialOrder'
  <2> SUFFICES ASSUME NEW a \in Positions, NEW b \in Positions, a < b, target'[b].state \notin {"NONE", "PENDING"}
               PROVE  target'[a].state \in QueueTerminal
    BY DEF SerialOrder
  <2>1. CASE b = p
    <3>1. a \in 1 .. (p - 1) /\ a # p
      BY <2>1, QueueAssumption DEF Positions
    <3> QED BY <1>1, <3>1
  <2>2. CASE b # p
    <3>1. target[a].state \in QueueTerminal
      BY <1>1, <2>2 DEF QueueInv, QueueHonest, SerialOrder
    <3> QED BY <1>1, <3>1
  <2> QED BY <2>1, <2>2
<1>3. DowngradeOnly'
  BY <1>1 DEF QueueInv, QueueHonest, DowngradeOnly
<1>4. \A a, b \in Positions : target'[a].state = "NONE" => target'[b].state = "NONE"
  BY <1>1 DEF QueueInv
<1>5. \A q \in Positions : target'[q].item => target'[q].state = "SUCCEEDED_CONFIRMED"
  BY <1>1 DEF QueueInv
<1> QED BY <1>1, <1>2, <1>3, <1>4, <1>5 DEF QueueInv, QueueHonest

\* What a confirmation proves is what its envelope asks for.
LEMMA EnvelopeFacts ==
  ASSUME NEW claimed \in Boundaries, NEW ev \in SUBSET EvidenceFlags
  PROVE  /\ Envelope(claimed, ev) \in Boundaries /\ claimed \subseteq Envelope(claimed, ev)
         /\ "price" \notin Envelope(claimed, ev) => "priceEnteredByMachine" \in ev
         /\ "commit" \notin Envelope(claimed, ev) => "commitClickedByMachine" \in ev
BY DEF Envelope, EvidenceBoundary, Boundaries, Manual

LEMMA CreateQueueInv ==
  ASSUME QueueInv, NEW w, CreateQueue(w)
  PROVE  QueueInv'
<1>1. PICK c \in [Positions -> Boundaries] :
         target' = [p \in Positions |-> [target[p] EXCEPT !.state = "PENDING", !.claimed = c[p]]]
  BY DEF CreateQueue
<1>2. ASSUME NEW p \in Positions
      PROVE  target'[p] \in TargetRows /\ target'[p].state = "PENDING" /\ ~target'[p].item
  <2>1. target[p] \in TargetRows /\ ~target[p].item /\ c[p] \in Boundaries
    BY DEF CreateQueue, QueueInv
  <2> QED BY <1>1, <2>1 DEF TargetRows, TargetStates, Eligible
<1>3. target' \in [Positions -> TargetRows]
  BY <1>1, <1>2
<1> QED BY <1>2, <1>3 DEF QueueInv, QueueHonest, SerialOrder, DowngradeOnly, QueueTerminal

LEMMA DispatchInv ==
  ASSUME QueueInv, NEW w, NEW p \in Positions, Dispatch(w, p)
  PROVE  QueueInv'
<1> DEFINE r == [target[p] EXCEPT !.state = "IN_FLIGHT", !.attempts = @ + 1]
<1>1. target \in [Positions -> TargetRows] /\ target[p] \in TargetRows /\ target[p].state \in Eligible
  BY DEF QueueInv, Dispatch, FirstEligible
<1>2. target' = [target EXCEPT ![p] = r]
  BY <1>1 DEF Dispatch, TargetRows
<1>3. r \in TargetRows /\ r.state = "IN_FLIGHT" /\ r.item = target[p].item
  <2>1. target[p].attempts + 1 \in Nat
    BY <1>1 DEF TargetRows
  <2>2. r = [target[p] EXCEPT !.state = "IN_FLIGHT", !.attempts = target[p].attempts + 1]
    BY <1>1 DEF TargetRows
  <2> QED BY <1>1, <2>1, <2>2 DEF TargetRows, TargetStates
<1>4. ~target[p].item
  BY <1>1 DEF QueueInv, Eligible
<1>5. ASSUME NEW q \in 1 .. (p - 1) PROVE target[q].state \in QueueTerminal
  <2>1. q \in Positions
    BY QueueAssumption DEF Positions
  <2>2. target[q].state \in TargetStates /\ target[q].state # "NONE"
    BY <1>1, <2>1 DEF QueueInv, TargetRows, Eligible
  <2> QED BY <2>1, <2>2 DEF Dispatch, FirstEligible, TargetStates
<1>6. target[p].state \notin QueueTerminal \cup {"NONE"}
  BY <1>1 DEF Eligible, QueueTerminal
<1> HIDE DEF r
<1> QED BY <1>2, <1>3, <1>4, <1>5, <1>6, TargetMoves DEF QueueTerminal

\* A target that was issued: what it may become.
LEMMA IssuedFacts ==
  ASSUME QueueInv, NEW p \in Positions, target[p].state \in {"IN_FLIGHT", "FAILED_UNCONFIRMED"}
  PROVE  /\ target[p] \in TargetRows /\ target[p].state \notin QueueTerminal \cup {"NONE"} /\ ~target[p].item
         /\ \A q \in 1 .. (p - 1) : target[q].state \in QueueTerminal
<1>1. ASSUME NEW q \in 1 .. (p - 1) PROVE q \in Positions /\ q < p
  BY QueueAssumption DEF Positions
<1> QED BY <1>1 DEF QueueInv, QueueHonest, SerialOrder, QueueTerminal

LEMMA ReportFailureInv ==
  ASSUME QueueInv, NEW w, NEW p \in Positions, ReportFailure(w, p)
  PROVE  QueueInv'
<1> DEFINE r == [target[p] EXCEPT !.state = "FAILED_UNCONFIRMED"]
<1>1. /\ target[p] \in TargetRows /\ target[p].state \notin QueueTerminal \cup {"NONE"} /\ ~target[p].item
      /\ \A q \in 1 .. (p - 1) : target[q].state \in QueueTerminal
  BY IssuedFacts DEF ReportFailure
<1>2. target' = [target EXCEPT ![p] = r]
  BY <1>1 DEF ReportFailure, TargetRows
<1>3. r \in TargetRows /\ r.state = "FAILED_UNCONFIRMED" /\ r.item = target[p].item
  BY <1>1 DEF TargetRows, TargetStates, Eligible
<1> HIDE DEF r
<1> QED BY <1>1, <1>2, <1>3, TargetMoves DEF QueueTerminal

LEMMA ConfirmInv ==
  ASSUME QueueInv, NEW w, NEW p \in Positions, NEW ev \in SUBSET EvidenceFlags,
         ConfirmSucceeded(w, p, ev) \/ ConfirmFailed(w, p, ev)
  PROVE  QueueInv'
<1>1. /\ target[p] \in TargetRows /\ target[p].state \notin QueueTerminal \cup {"NONE"} /\ ~target[p].item
      /\ \A q \in 1 .. (p - 1) : target[q].state \in QueueTerminal
  BY IssuedFacts DEF ConfirmSucceeded, ConfirmFailed
<1> DEFINE b == Envelope(target[p].claimed, ev)
<1>2. /\ b \in Boundaries /\ target[p].claimed \subseteq b
      /\ "price" \notin b => "priceEnteredByMachine" \in ev
      /\ "commit" \notin b => "commitClickedByMachine" \in ev
  BY <1>1, EnvelopeFacts DEF TargetRows
<1>3. CASE ConfirmSucceeded(w, p, ev)
  <2> DEFINE r == [target[p] EXCEPT !.state = "SUCCEEDED_CONFIRMED", !.item = TRUE, !.proof = ev, !.recorded = b]
  <2>1. target' = [target EXCEPT ![p] = r] /\ RequiredEvidence(b) \subseteq ev
    BY <1>3 DEF ConfirmSucceeded, QueueInv
  <2> HIDE DEF b
  <2>2. /\ r \in TargetRows /\ r.state = "SUCCEEDED_CONFIRMED" /\ r.claimed = target[p].claimed
        /\ r.recorded = b /\ r.proof = ev
    BY <1>1, <1>2 DEF TargetRows, TargetStates, QueueTerminal
  <2> HIDE DEF r
  <2> QED BY <1>1, <1>2, <2>1, <2>2, TargetMoves
<1>4. CASE ConfirmFailed(w, p, ev)
  <2> DEFINE r == [target[p] EXCEPT !.state = "FAILED_CONFIRMED", !.recorded = b]
  <2>1. target' = [target EXCEPT ![p] = r]
    BY <1>4 DEF ConfirmFailed, QueueInv
  <2> HIDE DEF b
  <2>2. /\ r \in TargetRows /\ r.state = "FAILED_CONFIRMED" /\ r.claimed = target[p].claimed
        /\ r.recorded = b /\ r.item = target[p].item
    BY <1>1, <1>2 DEF TargetRows, TargetStates, QueueTerminal
  <2> HIDE DEF r
  <2> QED BY <1>1, <1>2, <2>1, <2>2, TargetMoves
<1> QED BY <1>3, <1>4

LEMMA QueueStutter ==
  ASSUME QueueInv, UNCHANGED target
  PROVE  QueueInv'
BY DEF QueueInv, QueueHonest, SerialOrder, DowngradeOnly

LEMMA QueueStep ==
  ASSUME QueueInv, QueueNext
  PROVE  QueueInv'
<1>1. ASSUME NEW p, NEW n, DeviceSettles(p, n) PROVE QueueInv'
  BY <1>1, QueueStutter DEF DeviceSettles
<1> QED BY <1>1, CreateQueueInv, DispatchInv, ReportFailureInv, ConfirmInv DEF QueueNext

\* A publish queue issues its listings one after another, and records each
\* no more favourably than it was claimed and shown: for every length of the
\* queue and every number of attempts, reports and confirmations.
THEOREM QueueHonestCorrect == Spec => []QueueHonest
<1>1. Init => QueueInv
  BY QueueStarts DEF Init
<1>2. ASSUME QueueInv, [Next]_vars PROVE QueueInv'
  <2>1. UNCHANGED target \/ QueueNext
    BY <1>2 DEF Next, vars, rows, queueVars
  <2> QED BY <1>2, <2>1, QueueStep, QueueStutter
<1>3. QueueInv => QueueHonest
  BY DEF QueueInv
<1> QED BY <1>1, <1>2, <1>3, PTL DEF Spec

-----------------------------------------------------------------------------
(* Debug sessions                                                          *)

SessionRows == [status : {"NONE", "PENDING_EXCHANGE", "ACTIVE", "REVOKED", "EXPIRED"}, fencing : Nat, expires : Nat]

(* The row of the lease carries the last fencing given out.  What the edge *)
(* was told follows the status of the session.                             *)
DebugInv ==
    /\ debug \in [Sessions -> SessionRows] /\ fencings \in Nat /\ now \in Nat
    /\ lease.fencing = fencings
    /\ evidence \in [Sessions -> SUBSET Nat] /\ DOMAIN toldEdge = Sessions
    /\ \A s \in Sessions :
          /\ evidence[s] \subseteq {debug[s].fencing}
          /\ debug[s].status = "NONE" => debug[s] = NoSession /\ evidence[s] = {}
          /\ debug[s].status \in {"NONE", "PENDING_EXCHANGE"} => toldEdge[s] = <<>>
          /\ debug[s].status = "ACTIVE" => toldEdge[s] = <<"GRANT">>
          /\ Ended(s) => toldEdge[s] \in {<<"END">>, <<"GRANT", "END">>}

LEMMA DebugStarts == DebugInit => DebugInv
BY DEF DebugInit, DebugInv, SessionRows, NoSession, NoLease, Ended

LEMMA DebugSound == DebugInv => DebugFenced
<1> SUFFICES ASSUME DebugInv, NEW s \in Sessions
             PROVE  /\ evidence[s] \subseteq {debug[s].fencing}
                    /\ Authorized(s) => debug[s].fencing = fencings
                    /\ toldEdge[s] \in {<<>>, <<"GRANT">>, <<"END">>, <<"GRANT", "END">>}
  BY DEF DebugFenced
<1>1. debug[s].status \in {"NONE", "PENDING_EXCHANGE", "ACTIVE", "REVOKED", "EXPIRED"}
  BY DEF DebugInv, SessionRows
<1>2. Authorized(s) => debug[s].fencing = fencings
  BY DEF DebugInv, Authorized, HoldsLease
<1> QED BY <1>1, <1>2 DEF DebugInv, Ended

LEMMA DebugStutter ==
  ASSUME DebugInv, UNCHANGED <<debug, fencings, evidence, toldEdge>>, lease'.fencing = lease.fencing, now' \in Nat
  PROVE  DebugInv'
BY DEF DebugInv, Ended

LEMMA LeaseTaken ==
  ASSUME DebugInv, NEW owner, TakeLease(owner)
  PROVE  fencings' \in Nat /\ lease'.fencing = fencings' /\ fencings' = fencings + 1
BY DEF DebugInv, TakeLease

LEMMA CreateSessionInv ==
  ASSUME DebugInv, NEW w, NEW s \in Sessions, CreateSession(w, s)
  PROVE  DebugInv'
<1>1. /\ fencings' \in Nat /\ lease'.fencing = fencings' /\ fencings' = fencings + 1
      /\ UNCHANGED <<evidence, toldEdge, now>> /\ debug[s].status = "NONE"
  BY LeaseTaken DEF CreateSession, NoSession
<1> DEFINE r == [status |-> "PENDING_EXCHANGE", fencing |-> fencings + 1, expires |-> now + DebugTtl]
<1>2. r \in SessionRows /\ r.status = "PENDING_EXCHANGE"
  BY DebugAssumption DEF DebugInv, SessionRows
<1>3. debug' = [debug EXCEPT ![s] = r]
  BY DEF CreateSession
<1> HIDE DEF r
<1>4. debug' \in [Sessions -> SessionRows] /\ debug'[s] = r /\ \A t \in Sessions \ {s} : debug'[t] = debug[t]
  BY <1>2, <1>3 DEF DebugInv
<1>5. evidence[s] = {} /\ toldEdge[s] = <<>>
  BY <1>1 DEF DebugInv
<1> QED BY <1>1, <1>2, <1>4, <1>5 DEF DebugInv, Ended

LEMMA ExchangeInv ==
  ASSUME DebugInv, NEW w, NEW s \in Sessions, ExchangeCode(w, s)
  PROVE  DebugInv'
<1>1. /\ UNCHANGED <<lease, fencings, evidence, now>> /\ debug[s].status = "PENDING_EXCHANGE" /\ debug[s] \in SessionRows
      /\ debug' = [debug EXCEPT ![s].status = "ACTIVE"] /\ toldEdge' = [toldEdge EXCEPT ![s] = Append(toldEdge[s], "GRANT")]
  BY DEF ExchangeCode, Exchangeable, DebugInv
<1>2. /\ debug' \in [Sessions -> SessionRows] /\ debug'[s].status = "ACTIVE" /\ debug'[s].fencing = debug[s].fencing
      /\ \A t \in Sessions \ {s} : debug'[t] = debug[t]
  BY <1>1 DEF DebugInv, SessionRows
<1>3. toldEdge[s] = <<>>
  BY <1>1 DEF DebugInv
<1>4. toldEdge'[s] = <<"GRANT">> /\ DOMAIN toldEdge' = Sessions /\ \A t \in Sessions \ {s} : toldEdge'[t] = toldEdge[t]
  BY <1>1, <1>3 DEF DebugInv
<1> QED BY <1>1, <1>2, <1>4 DEF DebugInv, Ended

LEMMA EvidenceInv ==
  ASSUME DebugInv, NEW w, NEW s \in Sessions, StoreEvidence(w, s)
  PROVE  DebugInv'
<1>1. /\ UNCHANGED <<debug, lease, fencings, toldEdge, now>> /\ debug[s].status = "ACTIVE"
      /\ lease.fencing = debug[s].fencing /\ lease.fencing \in Nat
      /\ evidence' = [evidence EXCEPT ![s] = evidence[s] \cup {lease.fencing}]
  BY DEF StoreEvidence, Authorized, HoldsLease, DebugInv
<1>2. /\ evidence' \in [Sessions -> SUBSET Nat] /\ evidence'[s] \subseteq {debug[s].fencing}
      /\ \A t \in Sessions \ {s} : evidence'[t] = evidence[t]
  BY <1>1 DEF DebugInv
<1> QED BY <1>1, <1>2 DEF DebugInv, Ended

LEMMA EndSessionInv ==
  ASSUME DebugInv, NEW s \in Sessions, debug[s] # NoSession, ~Ended(s), NEW st \in {"REVOKED", "EXPIRED"},
         EndSession(s, st), lease'.fencing = lease.fencing, UNCHANGED <<fencings, evidence, now>>
  PROVE  DebugInv'
<1>1. debug[s].status \in {"PENDING_EXCHANGE", "ACTIVE"} /\ debug[s] \in SessionRows
  BY DEF DebugInv, SessionRows, Ended
<1>2. /\ debug' \in [Sessions -> SessionRows] /\ debug'[s].status = st /\ debug'[s].fencing = debug[s].fencing
      /\ \A t \in Sessions \ {s} : debug'[t] = debug[t]
  BY <1>1 DEF EndSession, DebugInv, SessionRows
<1>3. toldEdge[s] = <<>> \/ toldEdge[s] = <<"GRANT">>
  BY <1>1 DEF DebugInv
<1>4. Append(<<>>, "END") = <<"END">> /\ Append(<<"GRANT">>, "END") = <<"GRANT", "END">>
  <2>1. Append(<<>>, "END") = <<"END">>
    OBVIOUS
  <2>2. <<"GRANT">> \in Seq({"GRANT", "END"}) /\ Len(<<"GRANT">>) = 1
    <3>1. Len(<<"GRANT">>) = 1
      OBVIOUS
    <3>2. <<"GRANT">> \in Seq({"GRANT", "END"})
      OBVIOUS
    <3> QED BY <3>1, <3>2
  <2>3. Append(<<"GRANT">>, "END") = [i \in 1 .. 2 |-> IF i = 2 THEN "END" ELSE <<"GRANT">>[i]]
    BY <2>2
  <2>4. <<"GRANT", "END">> = [i \in 1 .. 2 |-> IF i = 2 THEN "END" ELSE <<"GRANT">>[i]]
    OBVIOUS
  <2> QED BY <2>1, <2>3, <2>4
<1>5. /\ toldEdge'[s] \in {<<"END">>, <<"GRANT", "END">>} /\ DOMAIN toldEdge' = Sessions
      /\ \A t \in Sessions \ {s} : toldEdge'[t] = toldEdge[t]
  BY <1>3, <1>4 DEF EndSession, DebugInv
<1> QED BY <1>2, <1>5 DEF DebugInv, Ended

LEMMA DebugStep ==
  ASSUME DebugInv, DebugNext
  PROVE  DebugInv'
<1>1. \A s \in Sessions : LeaseAfter(s).fencing = lease.fencing
  BY DEF LeaseAfter, DebugInv
<1>2. ASSUME NEW w, NEW s \in Sessions, Revoke(w, s) \/ GetSession(w, s) PROVE DebugInv'
  BY <1>1, <1>2, EndSessionInv DEF Revoke, GetSession
<1>3. ASSUME NEW w, WorkflowAcquires(w) \/ LiveEstablishes(w) PROVE DebugInv'
  BY <1>3, LeaseTaken DEF WorkflowAcquires, LiveEstablishes, DebugInv, Ended
<1>4. ASSUME NEW w, ReleaseById(w) PROVE DebugInv'
  BY <1>4, DebugStutter DEF ReleaseById, DebugInv
<1>5. ASSUME NEW w, NEW on, SetMaintenance(w, on) PROVE DebugInv'
  BY <1>5, DebugStutter DEF SetMaintenance, DebugInv
<1>6. CASE DebugTick
  BY <1>6, DebugStutter DEF DebugTick, DebugInv
<1> QED BY <1>2, <1>3, <1>4, <1>5, <1>6, CreateSessionInv, ExchangeInv, EvidenceInv DEF DebugNext

\* What a session's relay stored was stored under its own fencing, a relay
\* that is accepted has the newest, and the edge is told one grant and one
\* end: for every number of sessions, whoever takes the lease when.
THEOREM DebugFencedCorrect == Spec => []DebugFenced
<1>1. Init => DebugInv
  BY DebugStarts DEF Init
<1>2. ASSUME DebugInv, [Next]_vars PROVE DebugInv'
  <2>1. DebugNext \/ UNCHANGED <<debug, lease, fencings, evidence, toldEdge, now>>
    BY <1>2 DEF Next, vars, rows, debugVars
  <2>2. CASE UNCHANGED <<debug, lease, fencings, evidence, toldEdge, now>>
    BY <1>2, <2>2, DebugStutter DEF DebugInv
  <2> QED BY <1>2, <2>1, <2>2, DebugStep
<1> QED BY <1>1, <1>2, DebugSound, PTL DEF Spec

-----------------------------------------------------------------------------
(* APK releases                                                            *)

CandidateStates == {"NONE", "OFFERED", "DOWNLOADED", "INSTALLED"}
Pendings == [r : Releases, stage : {"DOWNLOADING", "DOWNLOADED", "REPORTED_DOWNLOADED", "SESSION_STAGED", "SESSION_COMMITTED",
                                    "AWAITING_USER_ACTION"}, sid : Nat, retired : BOOLEAN]

(* A receipt that says INSTALLED is of a version the device has run.       *)
TrueReceipt(rc) == rc[2] = "INSTALLED" => rc[1] \in ever

ApkRequest(w) ==
    /\ req[w].op \in {"IDLE", "ASSIGN", "DOWNLOADED", "RECEIPT"}
    /\ req[w].op \in {"ASSIGN", "DOWNLOADED"} => req[w].r \in Releases
    /\ req[w].op = "RECEIPT" => TrueReceipt(req[w].rc)

ApkInv ==
    /\ DOMAIN req = Workers /\ cand \in [Releases -> CandidateStates]
    /\ pending \in Pendings \cup {NoPending} /\ (app = "INSTALLING" => pending # NoPending)
    /\ installed = 0 \/ installed \in ever
    /\ \A rc \in receipts : TrueReceipt(rc)
    /\ \A w \in Workers : ApkRequest(w)
    /\ RolloutTruthful

LEMMA ApkStart ==
  ASSUME ApkInit
  PROVE  RolloutTruthful /\ (req = [w \in Workers |-> Idle] => ApkInv)
BY DEF ApkInit, RolloutTruthful, ApkInv, ApkRequest, CandidateStates, Idle

\* A step of the device: the server's rows and open requests stay.
LEMMA DeviceKept ==
  ASSUME ApkInv, UNCHANGED <<req, cand>>, pending' \in Pendings \cup {NoPending}, ever \subseteq ever',
         installed' = 0 \/ installed' \in ever', \A rc \in receipts' : TrueReceipt(rc)',
         app' = "INSTALLING" => pending' # NoPending
  PROVE  ApkInv'
BY DEF ApkInv, ApkRequest, TrueReceipt, RolloutTruthful

\* A step of the server: the device only hears the answer.
LEMMA ServerKept ==
  ASSUME ApkInv, UNCHANGED <<ever, installed>>, receipts' \subseteq receipts, pending' \in Pendings \cup {NoPending},
         app' = "INSTALLING" => pending' # NoPending,
         DOMAIN req' = Workers, \A w \in Workers : ApkRequest(w)',
         cand' \in [Releases -> CandidateStates], RolloutTruthful'
  PROVE  ApkInv'
BY DEF ApkInv, TrueReceipt, ApkRequest

LEMMA AssignCommitInv ==
  ASSUME ApkInv, NEW w \in Workers, AssignCommit(w)
  PROVE  ApkInv'
<1>1. /\ DOMAIN req' = Workers /\ req'[w].op = "IDLE" /\ \A v \in Workers \ {w} : req'[v] = req[v]
      /\ UNCHANGED <<ever, installed, receipts, pending, app>> /\ req[w].op = "ASSIGN" /\ req[w].r \in Releases
  BY EndFacts DEF AssignCommit, ApkInv, ApkRequest, installerVars, coordVars
<1>2. \A v \in Workers : ApkRequest(v)'
  BY <1>1 DEF ApkRequest, ApkInv, TrueReceipt
<1>3. CASE UNCHANGED cand
  BY <1>1, <1>2, <1>3, ServerKept DEF ApkInv, ApkRequest, RolloutTruthful
<1>4. CASE ~UNCHANGED cand
  <2>1. cand' = [cand EXCEPT ![req[w].r] = "OFFERED"] /\ \A q \in Releases : cand[q] # "OFFERED"
    BY <1>4 DEF AssignCommit, OfferSlotFree
  <2>2. cand' \in [Releases -> CandidateStates] /\ RolloutTruthful'
    BY <1>1, <2>1 DEF ApkInv, ApkRequest, CandidateStates, RolloutTruthful
  <2> QED BY <1>1, <1>2, <2>2, ServerKept DEF ApkInv, ApkRequest
<1> QED BY <1>3, <1>4

LEMMA DownloadedCommitInv ==
  ASSUME ApkInv, NEW w \in Workers, DownloadedCommit(w)
  PROVE  ApkInv'
<1>1. /\ DOMAIN req' = Workers /\ req'[w].op = "IDLE" /\ \A v \in Workers \ {w} : req'[v] = req[v]
      /\ UNCHANGED <<ever, installed, receipts, app>> /\ req[w].op = "DOWNLOADED" /\ req[w].r \in Releases
  BY EndFacts DEF DownloadedCommit, ApkInv, ApkRequest, installerVars
<1>2. \A v \in Workers : ApkRequest(v)'
  BY <1>1 DEF ApkRequest, ApkInv, TrueReceipt
<1>3. pending' \in Pendings \cup {NoPending} /\ (app' = "INSTALLING" => pending' # NoPending)
  <2>1. CASE UNCHANGED pending
    BY <1>1, <2>1 DEF ApkInv, ApkRequest
  <2>2. CASE app = "IDLE" /\ pending.stage = "DOWNLOADED" /\ pending' = [pending EXCEPT !.stage = "REPORTED_DOWNLOADED"]
    BY <1>1, <2>2 DEF ApkInv, ApkRequest, NoPending, Pendings
  <2> QED BY <2>1, <2>2 DEF DownloadedCommit
<1>4. cand' \in [Releases -> CandidateStates] /\ RolloutTruthful'
  <2>1. cand' = cand \/ cand' = [cand EXCEPT ![req[w].r] = "DOWNLOADED"]
    BY DEF DownloadedCommit
  <2> QED BY <1>1, <2>1 DEF ApkInv, ApkRequest, CandidateStates, RolloutTruthful
<1> QED BY <1>1, <1>2, <1>3, <1>4, ServerKept

LEMMA ReceiptCommitInv ==
  ASSUME ApkInv, NEW w \in Workers, ReceiptCommit(w)
  PROVE  ApkInv'
<1>1. /\ DOMAIN req' = Workers /\ req'[w].op = "IDLE" /\ \A v \in Workers \ {w} : req'[v] = req[v]
      /\ UNCHANGED <<ever, installed, pending, app>> /\ req[w].op = "RECEIPT" /\ receipts' \subseteq receipts
  BY EndFacts DEF ReceiptCommit, ApkInv, ApkRequest, installerVars
<1>2. \A v \in Workers : ApkRequest(v)'
  BY <1>1 DEF ApkRequest, ApkInv, TrueReceipt
<1>3. cand' \in [Releases -> CandidateStates] /\ RolloutTruthful'
  <2>1. CASE UNCHANGED cand
    BY <1>1, <2>1 DEF ApkInv, ApkRequest, RolloutTruthful
  <2>2. CASE ~UNCHANGED cand
    <3>1. cand' = [cand EXCEPT ![req[w].rc[1]] = "INSTALLED"] /\ req[w].rc[1] \in ever
      BY <1>1, <2>2 DEF ReceiptCommit, CountsAsInstalled, ApkInv, ApkRequest, TrueReceipt
    <3> QED BY <1>1, <3>1 DEF ApkInv, ApkRequest, CandidateStates, RolloutTruthful
  <2> QED BY <2>1, <2>2
<1> QED BY <1>1, <1>2, <1>3, ServerKept DEF ApkInv, ApkRequest

LEMMA ApkReadInv ==
  ASSUME ApkInv, NEW w \in Workers,
         \/ \E r \in Releases : AssignRead(w, r)
         \/ DownloadedRead(w) \/ \E rc \in receipts : ReceiptRead(w, rc)
  PROVE  ApkInv'
<1>1. UNCHANGED <<cand, ever, installed, receipts, pending, app>>
  BY DEF AssignRead, DownloadedRead, ReceiptRead, apkVars, serverVars, installerVars, coordVars
<1>2. \A v \in Workers : ApkRequest(v)
  BY DEF ApkInv, ApkRequest
<1>3. ASSUME NEW r, Begin(w, r), r.op \in {"ASSIGN", "DOWNLOADED", "RECEIPT"},
             r.op \in {"ASSIGN", "DOWNLOADED"} => r.r \in Releases, r.op = "RECEIPT" => TrueReceipt(r.rc)
      PROVE  ApkInv'
  <2>1. DOMAIN req' = Workers /\ req'[w] = r /\ \A v \in Workers \ {w} : req'[v] = req[v]
    BY <1>3, BeginFacts DEF ApkInv, ApkRequest
  <2>2. \A v \in Workers : ApkRequest(v)'
    BY <1>1, <1>2, <1>3, <2>1 DEF ApkRequest, TrueReceipt
  <2> QED BY <1>1, <2>1, <2>2, ServerKept DEF ApkInv, ApkRequest, RolloutTruthful
<1>4. ASSUME NEW r \in Releases, AssignRead(w, r) PROVE ApkInv'
  <2> DEFINE q == [op |-> "ASSIGN", r |-> r]
  <2>1. Begin(w, q) /\ q.op = "ASSIGN" /\ q.r = r
    BY <1>4 DEF AssignRead
  <2> HIDE DEF q
  <2> QED BY <1>3, <2>1
<1>5. ASSUME DownloadedRead(w) PROVE ApkInv'
  <2> DEFINE q == [op |-> "DOWNLOADED", r |-> pending.r, saw |-> cand[pending.r]]
  <2>1. Begin(w, q) /\ q.op = "DOWNLOADED" /\ q.r = pending.r
    BY <1>5 DEF DownloadedRead
  <2>2. pending.r \in Releases
    BY <1>5 DEF DownloadedRead, ApkInv, ApkRequest, NoPending, Pendings
  <2> HIDE DEF q
  <2> QED BY <1>3, <2>1, <2>2
<1>6. ASSUME NEW rc \in receipts, ReceiptRead(w, rc) PROVE ApkInv'
  <2> DEFINE q == [op |-> "RECEIPT", rc |-> rc, saw |-> cand[rc[1]]]
  <2>1. Begin(w, q) /\ q.op = "RECEIPT" /\ q.rc = rc
    BY <1>6 DEF ReceiptRead
  <2>2. TrueReceipt(rc)
    BY DEF ApkInv, ApkRequest
  <2> HIDE DEF q
  <2> QED BY <1>3, <2>1, <2>2
<1> QED BY <1>4, <1>5, <1>6

LEMMA TerminalInv ==
  ASSUME ApkInv, UNCHANGED <<req, cand, ever, installed>>, pending # NoPending, app' # "INSTALLING",
         Terminal(Verified) \/ Terminal("USER_DECLINED") \/ Terminal("FAILED")
  PROVE  ApkInv'
<1>1. pending.r \in Releases /\ pending.r # 0
  BY RolloutAssumption DEF ApkInv, ApkRequest, Pendings
<1>2. PICK o : Terminal(o) /\ (o = "INSTALLED" => installed = pending.r)
  BY DEF Verified
<1>3. receipts' = receipts \cup {<<pending.r, o>>} /\ pending' = NoPending
  BY <1>2 DEF Terminal
<1>4. ASSUME NEW rc \in receipts' PROVE TrueReceipt(rc)'
  BY <1>1, <1>2, <1>3 DEF ApkInv, ApkRequest, TrueReceipt
<1> QED BY <1>3, <1>4, DeviceKept DEF ApkInv, ApkRequest

LEMMA ApkStep ==
  ASSUME ApkInv, ApkNext
  PROVE  ApkInv'
<1> USE DEF serverVars, installerVars, coordVars
<1>0. /\ \A rc \in receipts : TrueReceipt(rc)
      /\ pending \in Pendings \cup {NoPending} /\ (installed = 0 \/ installed \in ever)
      /\ app = "INSTALLING" => pending # NoPending
      /\ \A w \in Workers : ApkRequest(w)
  BY DEF ApkInv, ApkRequest
<1>1. CASE UNCHANGED <<req, cand, pending, ever, installed, receipts>> /\ (app' = app \/ app' # "INSTALLING")
  BY <1>0, <1>1, DeviceKept DEF TrueReceipt
<1>2. ASSUME NEW w \in Workers, NEW r \in Releases, RegisterApk(w, r) \/ CreateRelease(w, r) \/ RetireRelease(w, r)
      PROVE  ApkInv'
  BY <1>1, <1>2 DEF RegisterApk, CreateRelease, RetireRelease, AtOnce
<1>3. ASSUME NEW w \in Workers, ReportVersion(w) PROVE ApkInv'
  BY <1>1, <1>3 DEF ReportVersion, AtOnce
<1>4. ASSUME NEW r \in Releases, Elect(r) PROVE ApkInv'
  <2>1. pending' \in Pendings \cup {NoPending}
    <3>1. CASE UNCHANGED pending
      BY <1>0, <3>1
    <3>2. CASE ~UNCHANGED pending
      <4>1. pending' = [r |-> r, stage |-> "DOWNLOADING", sid |-> 0, retired |-> release[r] = "RETIRED"]
        BY <1>4, <3>2 DEF Elect, NoPending
      <4>2. (release[r] = "RETIRED") \in BOOLEAN
        OBVIOUS
      <4> QED BY <4>1, <4>2 DEF Pendings
    <3> QED BY <3>1, <3>2
  <2> QED BY <1>0, <1>4, <2>1, DeviceKept DEF Elect, reqVars, TrueReceipt
<1>5. CASE Download \/ RecordCommit
  <2>1. pending' \in Pendings /\ app' # "INSTALLING"
    BY <1>0, <1>5 DEF Download, RecordCommit, NoPending, Pendings
  <2> QED BY <1>0, <1>5, <2>1, DeviceKept DEF Download, RecordCommit, reqVars, TrueReceipt
<1>6. CASE CommitSession \/ AppDies \/ DeviceTaskMoves
  BY <1>1, <1>6 DEF CommitSession, AppDies, DeviceTaskMoves, reqVars
<1>7. ASSUME NEW i \in SessionIds, OpenSession(i) PROVE ApkInv'
  <2>1. pending' \in Pendings
    <3>1. pending \in Pendings /\ i \in Nat
      BY <1>0, <1>7, RolloutAssumption DEF OpenSession, NoPending, SessionIds
    <3>2. pending' = [pending EXCEPT !.stage = "SESSION_STAGED", !.sid = i]
      BY <1>7 DEF OpenSession
    <3> QED BY <3>1, <3>2 DEF Pendings
  <2>2. pending' # NoPending
    BY <2>1, RolloutAssumption DEF Pendings, NoPending
  <2> QED BY <1>0, <1>7, <2>1, <2>2, DeviceKept DEF OpenSession, reqVars, TrueReceipt
<1>8. ASSUME NEW i \in SessionIds, InstallerAsks(i) PROVE ApkInv'
  BY <1>1, <1>8 DEF InstallerAsks, reqVars
<1>9. ASSUME NEW i \in SessionIds, NEW o, InstallerEnds(i, o) PROVE ApkInv'
  <2>1. /\ UNCHANGED <<req, cand, pending, receipts, app>> /\ ever \subseteq ever' /\ (installed' = 0 \/ installed' \in ever')
    BY <1>0, <1>9 DEF InstallerEnds, reqVars
  <2> QED BY <1>0, <2>1, DeviceKept DEF TrueReceipt
<1>10. CASE Recover
  <2>1. CASE pending.stage \in {"SESSION_STAGED", "SESSION_COMMITTED"}
    <3>1. pending # NoPending
      BY <2>1 DEF NoPending
    <3> QED BY <1>10, <2>1, <3>1, TerminalInv DEF Recover, reqVars
  <2>2. CASE pending.stage \notin {"SESSION_STAGED", "SESSION_COMMITTED"}
    BY <1>1, <1>10, <2>2 DEF Recover, reqVars
  <2> QED BY <2>1, <2>2
<1>11. ASSUME NEW e, HandleStatus(e) PROVE ApkInv'
  <2>0. UNCHANGED <<req, cand, ever, installed, app>> /\ app # "INSTALLING"
    BY <1>11 DEF HandleStatus, reqVars
  <2>1. CASE UNCHANGED <<pending, receipts>>
    BY <1>1, <2>0, <2>1
  <2>2. CASE pending # NoPending /\ pending' = [pending EXCEPT !.stage = "AWAITING_USER_ACTION"] /\ UNCHANGED receipts
    <3>1. pending' \in Pendings \cup {NoPending}
      BY <1>0, <2>2 DEF Pendings
    <3> QED BY <1>0, <2>0, <2>2, <3>1, DeviceKept DEF TrueReceipt
  <2>3. CASE pending # NoPending /\ (Terminal(Verified) \/ Terminal("USER_DECLINED") \/ Terminal("FAILED"))
    BY <2>0, <2>3, TerminalInv
  <2> QED BY <1>11, <2>1, <2>2, <2>3 DEF HandleStatus
<1> QED BY <1>2, <1>3, <1>4, <1>5, <1>6, <1>7, <1>8, <1>9, <1>10, <1>11, AssignCommitInv, DownloadedCommitInv, ReceiptCommitInv,
           ApkReadInv DEF ApkNext

FleetApk == IF service = "apk" THEN ApkInv ELSE ApkInit

\* The rollout claims no installation the device has not run, and offers one
\* candidate: for every number of releases, sessions and workers, wherever
\* the app dies and whatever receipts and statuses come late.
THEOREM RolloutTruthfulCorrect == Spec => []RolloutTruthful
<1>1. Init => FleetApk
  BY ApkStart DEF Init, FleetApk
<1>2. ASSUME FleetApk, [Next]_vars PROVE FleetApk'
  <2>1. CASE service = "apk" /\ Next
    BY <1>2, <2>1, ApkStep DEF FleetApk, Next
  <2>2. CASE service # "apk" /\ Next
    BY <1>2, <2>2 DEF FleetApk, Next, apkVars, serverVars, installerVars, coordVars, ApkInit
  <2>3. CASE UNCHANGED vars
    <3>1. UNCHANGED <<service, req, release, cand, reportedCode, sessions, statuses, installed, ever, pending, receipts, rejected,
                      window, app, occupied>>
      BY <2>3 DEF vars, rows, reqVars, apkVars, serverVars, installerVars, coordVars
    <3>2. ApkInv => ApkInv'
      BY <3>1 DEF ApkInv, ApkRequest, TrueReceipt, RolloutTruthful
    <3> QED BY <1>2, <3>1, <3>2 DEF FleetApk, ApkInit
  <2> QED BY <1>2, <2>1, <2>2, <2>3
<1>3. FleetApk => RolloutTruthful
  BY ApkStart DEF FleetApk, ApkInv, ApkRequest
<1> QED BY <1>1, <1>2, <1>3, PTL DEF Spec

-----------------------------------------------------------------------------
(* Source connections                                                      *)

Writes == UNION {[es -> Contents \ {0}] : es \in SUBSET ExternalIds}

SyncRuns ==
    [op : {"SYNC"}, mode : {"full", "incremental"}, rows : SUBSET ExternalIds, cursor : Nat, after : Nat,
     page : Seq(Records), last : BOOLEAN, wrote : Writes, failed : SUBSET ExternalIds,
     created : SUBSET ExternalIds, stored : SUBSET Contents, done : Nat, misread : BOOLEAN]

Syncing(w) == req[w] # Idle

SourcesType ==
    /\ DOMAIN req = Workers /\ \A w \in Workers : Syncing(w) => req[w] \in SyncRuns
    /\ file \in Seq(Records)
    /\ links \in [ExternalIds -> Contents] /\ products \in [ExternalIds -> Nat]
    /\ entityKind \in {"NONE", "product", "media"}
    /\ lastRun \in [at : Nat, cursor : Nat] /\ stamps \in Nat /\ scanned \subseteq ExternalIds

(* What the run leaves behind for a record it has dealt with.              *)
Covered(w, e) == links[e] # 0 \/ e \in DOMAIN req[w].wrote \/ e \in req[w].failed

PageIds(p) == {p[k].id : k \in DOMAIN p}

(* A full run that could read the file has dealt with every record that    *)
(* was there and has not left its reach, or has it in hand, or will read   *)
(* it.                                                                     *)
RunCovers(w) ==
    Syncing(w) /\ req[w].mode = "full" /\ ~req[w].misread =>
        \A e \in req[w].rows :
            \/ Covered(w, e)
            \/ e \in PageIds(req[w].page)
            \/ ~req[w].last /\ e \in Unread(file, req[w].cursor)

(* A run is done when nothing is left to read and nothing in hand.         *)
RunDone(w) == Syncing(w) /\ req[w].done > 0 => req[w].page = <<>> /\ req[w].last

(* What a run has written is what it will commit: nobody else links the    *)
(* record or stores the asset before.                                      *)
RunProducts(w) ==
    entityKind = "product" /\ Syncing(w) =>
        \A e \in ExternalIds : e \in req[w].created <=> e \in DOMAIN req[w].wrote /\ links[e] = 0

RunAssets(w) ==
    entityKind = "media" /\ Syncing(w) =>
        /\ req[w].stored \subseteq objects
        /\ \A e \in DOMAIN req[w].wrote : req[w].wrote[e] \in assets \cup req[w].stored

RunSound(w) == RunCovers(w) /\ RunDone(w) /\ RunProducts(w) /\ RunAssets(w)

OneWriter ==
    \A v, w \in Workers : v # w /\ Syncing(v) /\ Syncing(w) => DOMAIN req[v].wrote \cap DOMAIN req[w].wrote = {}

Unconnected ==
    entityKind = "NONE" =>
        /\ \A w \in Workers : ~Syncing(w)
        /\ \A e \in ExternalIds : links[e] = 0 /\ products[e] = 0
        /\ assets = {}

SourcesInv ==
    /\ SourcesType /\ SyncComplete /\ OneWriter /\ Unconnected
    /\ \A w \in Workers : RunSound(w)

LEMMA SourcesStart ==
  ASSUME SourcesInit
  PROVE  SyncComplete /\ (req = [w \in Workers |-> Idle] => SourcesInv)
<1>1. /\ file \in Seq(Records) /\ links \in [ExternalIds -> Contents] /\ products \in [ExternalIds -> Nat]
      /\ lastRun \in [at : Nat, cursor : Nat] /\ stamps \in Nat /\ scanned = {}
  BY SourceAssumption DEF SourcesInit
<1>2. entityKind = "NONE" /\ assets = {} /\ \A e \in ExternalIds : links[e] = 0 /\ products[e] = 0
  BY DEF SourcesInit
<1>3. SyncComplete
  BY <1>1, <1>2 DEF SyncComplete
<1> QED BY <1>1, <1>2, <1>3
        DEF SourcesInv, SourcesType, OneWriter, Unconnected, RunSound, RunCovers, RunDone, RunProducts, RunAssets, Syncing

\* The parts of an open run.
LEMMA SyncFields ==
  ASSUME NEW r \in SyncRuns
  PROVE  /\ DOMAIN r.wrote \subseteq ExternalIds /\ \A e \in DOMAIN r.wrote : r.wrote[e] \in Contents \ {0}
         /\ r.rows \subseteq ExternalIds /\ r.cursor \in Nat /\ r.after \in Nat /\ r.done \in Nat
         /\ r # Idle /\ r.op = "SYNC" /\ r.page \in Seq(Records)
         /\ r.failed \subseteq ExternalIds /\ r.created \subseteq ExternalIds /\ r.stored \subseteq Contents
<1>1. PICK es \in SUBSET ExternalIds : r.wrote \in [es -> Contents \ {0}]
  BY DEF SyncRuns, Writes
<1>2. r.op = "SYNC" /\ Idle.op = "IDLE"
  BY DEF SyncRuns, Idle
<1>3. r # Idle
  BY <1>2
<1>4. /\ r.rows \subseteq ExternalIds /\ r.cursor \in Nat /\ r.after \in Nat /\ r.done \in Nat /\ r.page \in Seq(Records)
      /\ r.failed \subseteq ExternalIds /\ r.created \subseteq ExternalIds /\ r.stored \subseteq Contents
  BY DEF SyncRuns
<1> QED BY <1>1, <1>2, <1>3, <1>4

\* What is left of a page when its first record is taken.
LEMMA PageTail ==
  ASSUME NEW p \in Seq(Records), p # <<>>
  PROVE  /\ Head(p) \in Records /\ Tail(p) \in Seq(Records)
         /\ PageIds(p) \subseteq {Head(p).id} \cup PageIds(Tail(p))
<1>1. Head(p) = p[1] /\ Head(p) \in Records /\ Tail(p) \in Seq(Records)
  OBVIOUS
<1>2. \A k \in DOMAIN p : k = 1 \/ (k - 1 \in DOMAIN Tail(p) /\ Tail(p)[k - 1] = p[k])
  OBVIOUS
<1> QED BY <1>1, <1>2 DEF PageIds

\* A page takes what is unread up to the new cursor; a short one takes it all.
LEMMA PageRead ==
  ASSUME file \in Seq(Records), NEW c \in Nat
  PROVE  /\ Page(c) \in Seq(Records) /\ Len(Page(c)) \in Nat
         /\ Unread(file, c) \subseteq PageIds(Page(c)) \cup Unread(file, c + Len(Page(c)))
         /\ Len(Page(c)) # PageSize => Unread(file, c) \subseteq PageIds(Page(c))
<1> DEFINE n == Len(file)
           m == IF c + PageSize <= n THEN c + PageSize ELSE n
<1>1. n \in Nat /\ PageSize \in Nat /\ PageSize > 0 /\ m \in Nat /\ m <= n /\ DOMAIN file = 1 .. n
  BY SourceAssumption
<1>2. CASE c < n
  <2>1. c + 1 \in 1 .. n + 1 /\ m \in c .. n /\ m > c
    BY <1>1, <1>2
  <2>2. /\ SubSeq(file, c + 1, m) \in Seq(Records) /\ Len(SubSeq(file, c + 1, m)) = m - c
        /\ \A i \in 1 .. m - c : SubSeq(file, c + 1, m)[i] = file[c + i]
    BY <1>1, <2>1
  <2>3. Page(c) = SubSeq(file, c + 1, m)
    BY DEF Page
  <2>4. DOMAIN Page(c) = 1 .. m - c
    BY <2>2, <2>3
  <2>5. \A k \in DOMAIN file : k > c => (k - c \in DOMAIN Page(c) /\ Page(c)[k - c] = file[k]) \/ k > m
    <3> SUFFICES ASSUME NEW k \in DOMAIN file, k > c, ~(k > m)
                 PROVE  k - c \in DOMAIN Page(c) /\ Page(c)[k - c] = file[k]
      OBVIOUS
    <3>1. m \in Nat /\ k \in Nat
      BY <1>1
    <3> HIDE DEF m
    <3>2. k - c \in 1 .. m - c /\ c + (k - c) = k
      BY <3>1
    <3> QED BY <2>2, <2>3, <2>4, <3>2
  <2>6. m - c # PageSize => m = n
    <3>1. m = c + PageSize \/ m = n
      OBVIOUS
    <3>2. (c + PageSize) - c = PageSize
      BY SourceAssumption
    <3> HIDE DEF m
    <3> QED BY <3>1, <3>2
  <2>7. c + Len(Page(c)) = m /\ Len(Page(c)) = m - c /\ m - c \in Nat
    BY <1>1, <2>1, <2>2, <2>3
  <2>8. \A k \in DOMAIN file : ~(k > n)
    BY <1>1
  <2> QED BY <2>2, <2>3, <2>5, <2>6, <2>7, <2>8 DEF Unread, PageIds
<1>3. CASE c >= n
  <2>1. Unread(file, c) = {}
    BY <1>1, <1>3 DEF Unread
  <2>2. Page(c) = <<>>
    BY <1>1, <1>3 DEF Page
  <2> QED BY <2>1, <2>2
<1> QED BY <1>1, <1>2, <1>3

\* A step of the rest leaves an open run's promises alone as long as links,
\* assets and objects only grow, and the links it has written stay as they are.
LEMMA RunKept ==
  ASSUME SourcesInv, NEW w \in Workers, req'[w] = req[w], UNCHANGED <<file, entityKind>>,
         \A e \in ExternalIds : links[e] # 0 => links'[e] # 0,
         \A e \in ExternalIds : Syncing(w) /\ e \in DOMAIN req[w].wrote => links'[e] = links[e],
         assets \subseteq assets', objects \subseteq objects'
  PROVE  RunSound(w)'
<1>1. (Syncing(w)' <=> Syncing(w)) /\ (Syncing(w) => req[w] \in SyncRuns)
  BY DEF SourcesInv, SourcesType, Syncing
<1>2. RunCovers(w) /\ RunDone(w) /\ RunProducts(w) /\ RunAssets(w)
  BY DEF SourcesInv, RunSound
<1>3. CASE ~Syncing(w)
  BY <1>1, <1>3 DEF RunSound, RunCovers, RunDone, RunProducts, RunAssets
<1>4. CASE Syncing(w)
  <2>1. DOMAIN req[w].wrote \subseteq ExternalIds /\ req[w].created \subseteq ExternalIds /\ req[w].rows \subseteq ExternalIds
    BY <1>1, <1>4, SyncFields
  <2>2. \A e \in req[w].rows : Covered(w, e) => Covered(w, e)'
    BY <2>1 DEF Covered
  <2>3. RunCovers(w)' /\ RunDone(w)'
    BY <1>1, <1>2, <1>4, <2>2 DEF RunCovers, RunDone, Unread
  <2>4. RunProducts(w)'
    BY <1>1, <1>2, <1>4, <2>1 DEF RunProducts
  <2>5. RunAssets(w)'
    BY <1>1, <1>2, <1>4, <2>1 DEF RunAssets
  <2> QED BY <2>3, <2>4, <2>5 DEF RunSound
<1> QED BY <1>3, <1>4

LEMMA FileChangesInv == SourcesInv /\ FileChanges => SourcesInv'
<1> SUFFICES ASSUME SourcesInv, FileChanges PROVE SourcesInv'
  OBVIOUS
<1>1. UNCHANGED <<links, entityKind, products, assets, objects, errors, lastRun, stamps, scanned>>
  BY DEF FileChanges, syncVars
<1>2. file' \in Seq(Records) /\ DOMAIN req' = Workers
  BY SourceAssumption DEF FileChanges
<1>3. ASSUME NEW w \in Workers, ~Syncing(w) PROVE ~Syncing(w)'
  BY <1>3 DEF FileChanges, Syncing
<1>4. ASSUME NEW w \in Workers, Syncing(w)
      PROVE  /\ Syncing(w)' /\ req'[w] \in SyncRuns /\ RunSound(w)' /\ req'[w].wrote = req[w].wrote
  <2> DEFINE gone == Unread(file, req[w].cursor) \ Unread(file', req[w].cursor)
             s == [req[w] EXCEPT !.rows = @ \ gone]
  <2>1. req'[w] = s
    BY <1>4 DEF FileChanges, Syncing
  <2>2. req[w] \in SyncRuns
    BY <1>4 DEF SourcesInv, SourcesType
  <2>3. PICK shifted : shifted = gone
    OBVIOUS
  <2>4. s = [req[w] EXCEPT !.rows = @ \ shifted]
    BY <2>3
  <2>5. /\ s \in SyncRuns /\ s.rows = req[w].rows \ shifted
        /\ s.mode = req[w].mode /\ s.cursor = req[w].cursor /\ s.page = req[w].page
        /\ s.wrote = req[w].wrote /\ s.failed = req[w].failed /\ s.created = req[w].created
        /\ s.stored = req[w].stored /\ s.done = req[w].done
    BY <2>2, <2>4 DEF SyncRuns
  <2>6. s.last = req[w].last /\ s.misread = req[w].misread
    BY <2>2, <2>4, Zenon DEF SyncRuns
  <2> HIDE DEF s
  <2>7. Syncing(w)'
    BY <2>1, <2>5, SyncFields DEF Syncing
  <2>8. RunCovers(w) /\ RunDone(w) /\ RunProducts(w) /\ RunAssets(w)
    BY DEF SourcesInv, RunSound
  <2>9. RunCovers(w)'
    <3> SUFFICES ASSUME s.mode = "full", ~s.misread, NEW e \in s.rows
                 PROVE  \/ Covered(w, e)'
                        \/ e \in PageIds(s.page)
                        \/ ~s.last /\ e \in Unread(file', s.cursor)
      BY <2>1 DEF RunCovers, PageIds, Unread
    <3>1. e \in req[w].rows /\ e \notin gone
      BY <2>3, <2>5
    <3>2. Covered(w, e) \/ e \in PageIds(req[w].page) \/ (~req[w].last /\ e \in Unread(file, req[w].cursor))
      BY <1>4, <2>5, <2>6, <2>8, <3>1 DEF RunCovers
    <3>3. Covered(w, e) => Covered(w, e)'
      BY <1>1, <2>1, <2>5 DEF Covered
    <3> QED BY <2>5, <2>6, <3>1, <3>2, <3>3
  <2>10. RunDone(w)'
    BY <1>4, <2>1, <2>5, <2>6, <2>8 DEF RunDone
  <2>11. RunProducts(w)' /\ RunAssets(w)'
    BY <1>1, <1>4, <2>1, <2>5, <2>8 DEF RunProducts, RunAssets
  <2> QED BY <2>1, <2>5, <2>7, <2>9, <2>10, <2>11 DEF RunSound
<1>5. \A w \in Workers : RunSound(w)'
  <2> SUFFICES ASSUME NEW w \in Workers, ~Syncing(w)' PROVE RunSound(w)'
    BY <1>3, <1>4
  <2> QED BY DEF RunSound, RunCovers, RunDone, RunProducts, RunAssets
<1>6. SourcesType'
  BY <1>1, <1>2, <1>3, <1>4 DEF SourcesInv, SourcesType
<1>7. OneWriter'
  BY <1>3, <1>4 DEF SourcesInv, OneWriter
<1>8. Unconnected'
  BY <1>1, <1>3 DEF SourcesInv, Unconnected
<1>9. SyncComplete'
  BY <1>1 DEF SourcesInv, SyncComplete
<1> QED BY <1>5, <1>6, <1>7, <1>8, <1>9 DEF SourcesInv

LEMMA CreateConnectionInv ==
  ASSUME SourcesInv, NEW w, NEW k \in {"product", "media"}, CreateConnection(w, k)
  PROVE  SourcesInv'
<1>1. /\ entityKind = "NONE" /\ entityKind' = k
      /\ UNCHANGED <<req, file, links, products, assets, objects, errors, lastRun, stamps, scanned>>
  BY DEF CreateConnection, AtOnce
<1>2. /\ \A v \in Workers : ~Syncing(v) /\ ~Syncing(v)'
      /\ \A e \in ExternalIds : links[e] = 0 /\ products[e] = 0
      /\ assets = {}
  BY <1>1 DEF SourcesInv, Unconnected, Syncing
<1>3. SyncComplete'
  BY <1>1, <1>2 DEF SourcesInv, SyncComplete
<1>4. SourcesType'
  BY <1>1, <1>2 DEF SourcesInv, SourcesType
<1>5. \A v \in Workers : RunSound(v)'
  BY <1>2 DEF RunSound, RunCovers, RunDone, RunProducts, RunAssets
<1>6. OneWriter' /\ Unconnected'
  BY <1>1, <1>2 DEF OneWriter, Unconnected
<1> QED BY <1>3, <1>4, <1>5, <1>6 DEF SourcesInv

\* What a step of one run must show: its own run and the rows it changes.
LEMMA RunStep ==
  ASSUME SourcesInv, NEW w \in Workers, UNCHANGED <<file, entityKind>>, DOMAIN req' = Workers,
         \A v \in Workers \ {w} : req'[v] = req[v],
         \A e \in ExternalIds : links[e] # 0 => links'[e] # 0,
         \A v \in Workers \ {w} : \A e \in ExternalIds : Syncing(v) /\ e \in DOMAIN req[v].wrote => links'[e] = links[e],
         assets \subseteq assets', objects \subseteq objects',
         entityKind # "NONE",
         links' \in [ExternalIds -> Contents], products' \in [ExternalIds -> Nat],
         lastRun' \in [at : Nat, cursor : Nat], stamps' \in Nat, scanned' \subseteq ExternalIds,
         Syncing(w)' => req'[w] \in SyncRuns,
         Syncing(w)' => \A v \in Workers \ {w} : Syncing(v) => DOMAIN req'[w].wrote \cap DOMAIN req[v].wrote = {},
         RunSound(w)', SyncComplete'
  PROVE  SourcesInv'
<1>1. \A v \in Workers : v # w => (Syncing(v)' <=> Syncing(v)) /\ req'[v] = req[v]
  BY DEF Syncing
<1>2. SourcesType'
  BY <1>1 DEF SourcesInv, SourcesType
<1>3. OneWriter'
  <2> SUFFICES ASSUME NEW u \in Workers, NEW v \in Workers, u # v, Syncing(u)', Syncing(v)'
               PROVE  DOMAIN req'[u].wrote \cap DOMAIN req'[v].wrote = {}
    BY DEF OneWriter
  <2>1. CASE u = w
    BY <1>1, <2>1
  <2>2. CASE v = w
    BY <1>1, <2>2
  <2>3. CASE u # w /\ v # w
    BY <1>1, <2>3 DEF SourcesInv, OneWriter
  <2> QED BY <2>1, <2>2, <2>3
<1>4. \A v \in Workers \ {w} : RunSound(v)'
  BY <1>1, RunKept
<1> QED BY <1>2, <1>3, <1>4 DEF SourcesInv, Unconnected

\* A step of one run that links and stores nothing must show only that it
\* still answers for its records.
LEMMA SyncQuietStep ==
  ASSUME SourcesInv, NEW w \in Workers, Syncing(w), NEW s \in SyncRuns,
         DOMAIN req' = Workers, req'[w] = s, \A v \in Workers \ {w} : req'[v] = req[v],
         UNCHANGED <<file, objects, syncVars>>, stamps' \in Nat,
         s.wrote = req[w].wrote, s.created = req[w].created, s.stored = req[w].stored,
         RunCovers(w)', RunDone(w)'
  PROVE  SourcesInv'
<1>1. UNCHANGED <<links, entityKind, products, assets, errors, lastRun, scanned>>
  BY DEF syncVars
<1>2. /\ lastRun \in [at : Nat, cursor : Nat] /\ entityKind # "NONE"
      /\ links \in [ExternalIds -> Contents] /\ products \in [ExternalIds -> Nat] /\ scanned \subseteq ExternalIds
  BY DEF SourcesInv, SourcesType, Unconnected
<1>3. RunProducts(w)' /\ RunAssets(w)'
  BY <1>1 DEF RunProducts, RunAssets, RunSound, SourcesInv, Syncing
<1>4. SyncComplete'
  BY <1>1 DEF SourcesInv, SyncComplete
<1>5. \A v \in Workers \ {w} : Syncing(v) => DOMAIN s.wrote \cap DOMAIN req[v].wrote = {}
  BY DEF SourcesInv, OneWriter
<1>6. RunSound(w)'
  BY <1>3 DEF RunSound
<1> QED BY <1>1, <1>2, <1>4, <1>5, <1>6, RunStep

LEMMA SyncStartInv ==
  ASSUME SourcesInv, NEW w \in Workers, NEW mode \in {"full", "incremental"}, SyncStart(w, mode)
  PROVE  SourcesInv'
<1>1. PICK ids : ids = Unread(file, 0)
  OBVIOUS
<1> DEFINE r == [op |-> "SYNC", mode |-> mode, rows |-> ids,
                 cursor |-> IF mode = "incremental" THEN lastRun.cursor ELSE 0,
                 after |-> 0, page |-> <<>>, last |-> FALSE, wrote |-> [e \in {} |-> 0], failed |-> {},
                 created |-> {}, stored |-> {}, done |-> 0, misread |-> FALSE]
<1>2. /\ entityKind # "NONE" /\ Begin(w, r)
      /\ UNCHANGED <<file, links, entityKind, products, assets, objects, errors, lastRun, stamps, scanned>>
  BY <1>1 DEF SyncStart, sourceVars
<1>3. /\ DOMAIN req = Workers /\ file \in Seq(Records)
      /\ lastRun \in [at : Nat, cursor : Nat]
      /\ links \in [ExternalIds -> Contents] /\ products \in [ExternalIds -> Nat]
      /\ stamps \in Nat /\ scanned \subseteq ExternalIds
  BY DEF SourcesInv, SourcesType
<1>4. r \in SyncRuns
  <2>1. [e \in {} |-> 0] \in Writes
    <3>1. [e \in {} |-> 0] \in [{} -> Contents \ {0}] /\ {} \in SUBSET ExternalIds
      OBVIOUS
    <3> QED BY <3>1 DEF Writes
  <2>2. lastRun.cursor \in Nat
    BY <1>3
  <2>3. ids \subseteq ExternalIds
    <3>1. \A k \in DOMAIN file : file[k] \in Records
      BY <1>3
    <3>2. \A k \in DOMAIN file : file[k].id \in ExternalIds
      BY <3>1 DEF Records
    <3> QED BY <1>1, <3>2 DEF Unread
  <2> QED BY <2>1, <2>2, <2>3 DEF SyncRuns
<1>5. /\ r.rows = ids /\ DOMAIN r.wrote = {} /\ r.created = {} /\ r.stored = {} /\ r.done = 0
      /\ r.mode = "full" => r.cursor = 0
      /\ ~r.last
  OBVIOUS
<1> HIDE DEF r
<1>6. DOMAIN req' = Workers /\ req'[w] = r /\ \A v \in Workers \ {w} : req'[v] = req[v]
  BY <1>2, <1>3, BeginFacts
<1>7. RunCovers(w)'
  BY <1>1, <1>2, <1>5, <1>6 DEF RunCovers, Unread
<1>8. RunDone(w)' /\ RunProducts(w)' /\ RunAssets(w)'
  BY <1>5, <1>6 DEF RunDone, RunProducts, RunAssets
<1>9. SyncComplete'
  BY <1>2 DEF SourcesInv, SyncComplete
<1>10. RunSound(w)'
  BY <1>7, <1>8 DEF RunSound
<1> QED BY <1>2, <1>3, <1>4, <1>5, <1>6, <1>9, <1>10, RunStep

LEMMA SyncFailsInv ==
  ASSUME SourcesInv, NEW w \in Workers, SyncFails(w)
  PROVE  SourcesInv'
<1>1. UNCHANGED <<file, links, entityKind, products, assets, objects, errors, lastRun, stamps, scanned>> /\ Syncing(w) /\ End(w)
  BY DEF SyncFails, sourceVars, Syncing
<1>2. /\ DOMAIN req = Workers /\ lastRun \in [at : Nat, cursor : Nat] /\ entityKind # "NONE"
      /\ links \in [ExternalIds -> Contents] /\ products \in [ExternalIds -> Nat]
      /\ stamps \in Nat /\ scanned \subseteq ExternalIds
  BY <1>1 DEF SourcesInv, SourcesType, Unconnected
<1>3. DOMAIN req' = Workers /\ ~Syncing(w)' /\ \A v \in Workers \ {w} : req'[v] = req[v]
  BY <1>1, <1>2, EndFacts DEF Syncing
<1>4. RunSound(w)'
  BY <1>3 DEF RunSound, RunCovers, RunDone, RunProducts, RunAssets
<1>5. SyncComplete'
  BY <1>1 DEF SourcesInv, SyncComplete
<1> QED BY <1>1, <1>2, <1>3, <1>4, <1>5, RunStep

\* The open run and what a quiet step says of it.
LEMMA OpenRun ==
  ASSUME SourcesInv, NEW w \in Workers, req[w] # Idle
  PROVE  /\ Syncing(w) /\ req[w] \in SyncRuns /\ DOMAIN req = Workers /\ stamps \in Nat
         /\ RunCovers(w) /\ RunDone(w)
BY DEF SourcesInv, SourcesType, RunSound, Syncing

LEMMA ReadFailsInv ==
  ASSUME SourcesInv, NEW w \in Workers, ReadFails(w)
  PROVE  SourcesInv'
<1> DEFINE r == req[w]
           s == [r EXCEPT !.last = TRUE, !.misread = TRUE]
<1>1. r # Idle /\ r.page = <<>> /\ UNCHANGED <<file, objects, stamps, syncVars>>
  BY DEF ReadFails
<1>2. r \in SyncRuns /\ DOMAIN req = Workers /\ stamps \in Nat /\ Syncing(w)
  BY <1>1, OpenRun
<1>3. DOMAIN req' = Workers /\ req'[w] = s /\ \A v \in Workers \ {w} : req'[v] = req[v]
  BY <1>2 DEF ReadFails
<1>4. /\ s \in SyncRuns /\ s.page = r.page /\ s.wrote = r.wrote /\ s.created = r.created /\ s.stored = r.stored
  BY <1>2 DEF SyncRuns
<1>5. s.misread = TRUE /\ s.last = TRUE
  BY <1>2, Zenon DEF SyncRuns
<1> HIDE DEF s
<1>6. RunCovers(w)' /\ RunDone(w)'
  BY <1>1, <1>3, <1>4, <1>5 DEF RunCovers, RunDone
<1> QED BY <1>1, <1>2, <1>3, <1>4, <1>6, SyncQuietStep

LEMMA ReadPageInv ==
  ASSUME SourcesInv, NEW w \in Workers, ReadPage(w)
  PROVE  SourcesInv'
<1> DEFINE r == req[w]
           p == Page(r.cursor)
           after == IF p = <<>> THEN r.after ELSE IF Len(p) = PageSize THEN r.cursor + Len(p) ELSE 0
<1>1. r # Idle /\ r.page = <<>> /\ ~r.last /\ UNCHANGED <<file, objects, stamps, syncVars>>
  BY DEF ReadPage
<1>2. r \in SyncRuns /\ DOMAIN req = Workers /\ stamps \in Nat /\ Syncing(w) /\ RunCovers(w) /\ RunDone(w)
  BY <1>1, OpenRun
<1>3. r.cursor \in Nat /\ r.after \in Nat /\ r.done \in Nat /\ file \in Seq(Records)
  BY <1>2, SyncFields DEF SourcesInv, SourcesType
<1>4. /\ p \in Seq(Records) /\ Len(p) \in Nat
      /\ Unread(file, r.cursor) \subseteq PageIds(p) \cup Unread(file, r.cursor + Len(p))
      /\ Len(p) # PageSize => Unread(file, r.cursor) \subseteq PageIds(p)
  BY <1>3, PageRead
<1>5. PICK page, next, aft : page = p /\ next = r.cursor + Len(p) /\ aft = after
  OBVIOUS
<1>6. PICK short \in BOOLEAN : short = ~(Len(p) = PageSize)
  OBVIOUS
<1> DEFINE s == [r EXCEPT !.page = page, !.cursor = next, !.last = short, !.after = aft]
<1>7. page \in Seq(Records) /\ next \in Nat /\ aft \in Nat
  BY <1>3, <1>4, <1>5
<1>8. DOMAIN req' = Workers /\ req'[w] = s /\ \A v \in Workers \ {w} : req'[v] = req[v]
  BY <1>2, <1>5, <1>6, Zenon DEF ReadPage
<1>9. /\ s \in SyncRuns /\ s.page = page /\ s.cursor = next /\ s.rows = r.rows /\ s.mode = r.mode /\ s.done = r.done
      /\ s.wrote = r.wrote /\ s.failed = r.failed /\ s.created = r.created /\ s.stored = r.stored
  BY <1>2, <1>6, <1>7 DEF SyncRuns
<1>10. s.misread = r.misread /\ s.last = short
  BY <1>2, Zenon DEF SyncRuns
<1> HIDE DEF s
<1>11. RunCovers(w)'
  <2> SUFFICES ASSUME s.mode = "full", ~s.misread, NEW e \in s.rows
               PROVE  Covered(w, e)' \/ e \in PageIds(page) \/ (~short /\ e \in Unread(file, next))
    BY <1>1, <1>8, <1>9, <1>10 DEF RunCovers, PageIds, Unread
  <2>1. PageIds(r.page) = {}
    BY <1>1 DEF PageIds
  <2>2. Covered(w, e) \/ e \in Unread(file, r.cursor)
    BY <1>2, <1>9, <1>10, <2>1 DEF RunCovers
  <2>3. Covered(w, e) => Covered(w, e)'
    BY <1>1, <1>8, <1>9 DEF Covered, syncVars
  <2> QED BY <1>4, <1>5, <1>6, <2>2, <2>3
<1>12. RunDone(w)'
  BY <1>1, <1>2, <1>3, <1>8, <1>9 DEF RunDone
<1> QED BY <1>1, <1>2, <1>8, <1>9, <1>11, <1>12, SyncQuietStep

\* A run that leaves the record in hand covered still answers for the rest.
LEMMA RecordTaken ==
  ASSUME SourcesInv, NEW w \in Workers, InHand(w), NEW s \in SyncRuns, req'[w] = s,
         s.page = Tail(req[w].page), s.cursor = req[w].cursor, s.last = req[w].last, s.misread = req[w].misread,
         s.mode = req[w].mode, s.rows = req[w].rows, s.done = req[w].done, UNCHANGED <<file, links>>,
         DOMAIN req[w].wrote \subseteq DOMAIN s.wrote, req[w].failed \subseteq s.failed,
         links[Record(w).id] # 0 \/ Record(w).id \in DOMAIN s.wrote \/ Record(w).id \in s.failed
  PROVE  RunCovers(w)' /\ RunDone(w)'
<1>1. req[w] \in SyncRuns /\ RunCovers(w) /\ RunDone(w) /\ Syncing(w)
  BY OpenRun DEF InHand
<1>2. req[w].page \in Seq(Records) /\ req[w].page # <<>> /\ req[w].done \in Nat
  BY <1>1, SyncFields DEF InHand
<1>3. PageIds(req[w].page) \subseteq {Record(w).id} \cup PageIds(s.page)
  BY <1>2, PageTail DEF Record
<1>4. RunCovers(w)'
  <2> SUFFICES ASSUME s.mode = "full", ~s.misread, NEW e \in s.rows
               PROVE  Covered(w, e)' \/ e \in PageIds(s.page) \/ (~s.last /\ e \in Unread(file, s.cursor))
    BY DEF RunCovers, PageIds, Unread
  <2>1. Covered(w, e) \/ e \in PageIds(req[w].page) \/ (~req[w].last /\ e \in Unread(file, req[w].cursor))
    BY <1>1 DEF RunCovers
  <2>2. Covered(w, e) => Covered(w, e)'
    BY DEF Covered
  <2>3. e = Record(w).id => Covered(w, e)'
    BY DEF Covered
  <2> QED BY <1>3, <2>1, <2>2, <2>3
<1>5. RunDone(w)'
  BY <1>1, <1>2 DEF RunDone
<1> QED BY <1>4, <1>5

\* The record in hand.
LEMMA RecordFacts ==
  ASSUME SourcesInv, NEW w \in Workers, InHand(w)
  PROVE  /\ req[w] # Idle /\ Record(w).id \in ExternalIds /\ Record(w).content \in Contents
         /\ Tail(req[w].page) \in Seq(Records)
<1>1. req[w].page \in Seq(Records) /\ req[w].page # <<>> /\ req[w] # Idle
  BY OpenRun, SyncFields DEF InHand
<1>2. Record(w) \in Records /\ Tail(req[w].page) \in Seq(Records)
  BY <1>1, PageTail DEF Record
<1> QED BY <1>1, <1>2 DEF Records

LEMMA RecordSameInv ==
  ASSUME SourcesInv, NEW w \in Workers, RecordSame(w)
  PROVE  SourcesInv'
<1> DEFINE r == req[w]
<1>1. InHand(w) /\ ~Malformed(w) /\ ~Changed(w) /\ UNCHANGED <<file, objects, stamps, syncVars>>
  BY DEF RecordSame
<1>2. r # Idle /\ Record(w).id \in ExternalIds /\ Tail(r.page) \in Seq(Records)
  BY <1>1, RecordFacts
<1>3. r \in SyncRuns /\ DOMAIN req = Workers /\ stamps \in Nat /\ Syncing(w)
  BY <1>2, OpenRun
<1>4. PICK rest : rest = Tail(r.page)
  OBVIOUS
<1> DEFINE s == [r EXCEPT !.page = rest]
<1>5. DOMAIN req' = Workers /\ req'[w] = s /\ \A v \in Workers \ {w} : req'[v] = req[v]
  BY <1>3, <1>4 DEF RecordSame
<1>6. /\ s \in SyncRuns /\ s.page = rest /\ s.cursor = r.cursor /\ s.rows = r.rows /\ s.mode = r.mode /\ s.done = r.done
      /\ s.wrote = r.wrote /\ s.failed = r.failed /\ s.created = r.created /\ s.stored = r.stored
  BY <1>2, <1>3, <1>4 DEF SyncRuns
<1>7. s.misread = r.misread /\ s.last = r.last
  BY <1>3, Zenon DEF SyncRuns
<1> HIDE DEF s
<1>8. Covered(w, Record(w).id)
  BY <1>1 DEF Malformed, Changed, Seen, Covered
<1>9. UNCHANGED links
  BY <1>1 DEF syncVars
<1>10. links[Record(w).id] # 0 \/ Record(w).id \in DOMAIN s.wrote \/ Record(w).id \in s.failed
  BY <1>6, <1>8 DEF Covered
<1>11. RunCovers(w)' /\ RunDone(w)'
  BY <1>1, <1>4, <1>5, <1>6, <1>7, <1>9, <1>10, RecordTaken
<1> QED BY <1>1, <1>3, <1>5, <1>6, <1>11, SyncQuietStep

LEMMA RecordFailsInv ==
  ASSUME SourcesInv, NEW w \in Workers, RecordFails(w)
  PROVE  SourcesInv'
<1> DEFINE r == req[w]
<1>1. InHand(w) /\ UNCHANGED <<file, objects, stamps, syncVars>>
  BY DEF RecordFails
<1>2. r # Idle /\ Record(w).id \in ExternalIds /\ Tail(r.page) \in Seq(Records)
  BY <1>1, RecordFacts
<1>3. r \in SyncRuns /\ DOMAIN req = Workers /\ stamps \in Nat /\ Syncing(w)
  BY <1>2, OpenRun
<1>4. PICK rest, fails : rest = Tail(r.page) /\ fails = Failed(w)
  OBVIOUS
<1> DEFINE s == [r EXCEPT !.page = rest, !.failed = fails]
<1>5. DOMAIN req' = Workers /\ req'[w] = s /\ \A v \in Workers \ {w} : req'[v] = req[v]
  BY <1>3, <1>4 DEF RecordFails
<1>6. fails \in SUBSET ExternalIds /\ r.failed \subseteq fails /\ Record(w).id \in fails
  BY <1>2, <1>3, <1>4, SyncFields DEF Failed
<1>7. /\ s \in SyncRuns /\ s.page = rest /\ s.cursor = r.cursor /\ s.rows = r.rows /\ s.mode = r.mode /\ s.done = r.done
      /\ s.wrote = r.wrote /\ s.failed = fails /\ s.created = r.created /\ s.stored = r.stored
  BY <1>2, <1>3, <1>4, <1>6 DEF SyncRuns
<1>8. s.misread = r.misread /\ s.last = r.last
  BY <1>3, Zenon DEF SyncRuns
<1> HIDE DEF s
<1>9. UNCHANGED links
  BY <1>1 DEF syncVars
<1>10. RunCovers(w)' /\ RunDone(w)'
  BY <1>1, <1>4, <1>5, <1>6, <1>7, <1>8, <1>9, RecordTaken
<1> QED BY <1>1, <1>3, <1>5, <1>7, <1>10, SyncQuietStep

LEMMA SyncDoneInv ==
  ASSUME SourcesInv, NEW w \in Workers, SyncDone(w)
  PROVE  SourcesInv'
<1> DEFINE r == req[w]
           s == [r EXCEPT !.done = stamps + 1]
<1>1. r # Idle /\ r.page = <<>> /\ r.last /\ stamps' = stamps + 1 /\ UNCHANGED <<file, objects, syncVars>>
  BY DEF SyncDone
<1>2. r \in SyncRuns /\ DOMAIN req = Workers /\ stamps \in Nat /\ Syncing(w) /\ RunCovers(w)
  BY <1>1, OpenRun
<1>3. DOMAIN req' = Workers /\ req'[w] = s /\ \A v \in Workers \ {w} : req'[v] = req[v]
  BY <1>2 DEF SyncDone
<1>4. stamps + 1 \in Nat
  BY <1>2
<1>5. /\ s \in SyncRuns /\ s.page = r.page /\ s.cursor = r.cursor /\ s.rows = r.rows /\ s.mode = r.mode
      /\ s.wrote = r.wrote /\ s.failed = r.failed /\ s.created = r.created /\ s.stored = r.stored
  BY <1>2, <1>4 DEF SyncRuns
<1>6. s.misread = r.misread /\ s.last = r.last
  BY <1>2, Zenon DEF SyncRuns
<1> HIDE DEF s
<1>7. RunDone(w)'
  BY <1>1, <1>3, <1>5, <1>6 DEF RunDone
<1>8. RunCovers(w)'
  <2> SUFFICES ASSUME s.mode = "full", ~s.misread, NEW e \in s.rows PROVE Covered(w, e)'
    BY <1>3 DEF RunCovers
  <2>1. PageIds(r.page) = {}
    BY <1>1 DEF PageIds
  <2>2. Covered(w, e)
    BY <1>1, <1>2, <1>5, <1>6, <2>1 DEF RunCovers
  <2> QED BY <1>1, <1>3, <1>5, <2>2 DEF Covered, syncVars
<1> QED BY <1>1, <1>2, <1>3, <1>4, <1>5, <1>7, <1>8, SyncQuietStep

LEMMA RecordSyncedInv ==
  ASSUME SourcesInv, NEW w \in Workers, RecordSynced(w)
  PROVE  SourcesInv'
<1> DEFINE r == req[w]
<1>1. /\ InHand(w) /\ Changed(w) /\ ~Waits(w) /\ objects' = objects \cup NewAssets(w)
      /\ UNCHANGED <<file, stamps, links, entityKind, products, assets, errors, lastRun, scanned>>
  BY DEF RecordSynced, syncVars
<1>2. r # Idle /\ Record(w).id \in ExternalIds /\ Record(w).content \in Contents /\ Tail(r.page) \in Seq(Records)
  BY <1>1, RecordFacts
<1>3. r \in SyncRuns /\ DOMAIN req = Workers /\ stamps \in Nat /\ Syncing(w)
  BY <1>2, OpenRun
<1>4. /\ lastRun \in [at : Nat, cursor : Nat] /\ entityKind # "NONE"
      /\ links \in [ExternalIds -> Contents] /\ products \in [ExternalIds -> Nat] /\ scanned \subseteq ExternalIds
  BY <1>3 DEF SourcesInv, SourcesType, Unconnected
<1>5. /\ DOMAIN r.wrote \subseteq ExternalIds /\ \A e \in DOMAIN r.wrote : r.wrote[e] \in Contents \ {0}
      /\ r.created \subseteq ExternalIds /\ r.stored \subseteq Contents
  BY <1>3, SyncFields
<1>6. PICK rest, id, c : rest = Tail(r.page) /\ id = Record(w).id /\ c = Record(w).content
  OBVIOUS
<1>7. PICK prods, put : prods = r.created \cup NewProducts(w) /\ put = r.stored \cup NewAssets(w)
  OBVIOUS
<1> DEFINE wr == [x \in DOMAIN r.wrote \cup {id} |-> IF x = id THEN c ELSE r.wrote[x]]
<1>8. c \in Contents \ {0} /\ Seen(w, id) # c
  BY <1>1, <1>2, <1>6 DEF Changed, Malformed
<1>9. PICK wrote : wrote = wr
  OBVIOUS
<1>10. /\ DOMAIN wrote = DOMAIN r.wrote \cup {id} /\ wrote[id] = c
       /\ \A x \in DOMAIN r.wrote : x # id => wrote[x] = r.wrote[x]
       /\ wrote \in Writes
  <2>1. wr \in [DOMAIN r.wrote \cup {id} -> Contents \ {0}]
    BY <1>5, <1>8
  <2>2. DOMAIN r.wrote \cup {id} \in SUBSET ExternalIds
    BY <1>2, <1>5, <1>6
  <2> QED BY <1>9, <2>1, <2>2 DEF Writes
<1>11. prods \in SUBSET ExternalIds /\ put \in SUBSET Contents
  BY <1>2, <1>5, <1>7 DEF NewProducts, NewAssets
<1> DEFINE s == [r EXCEPT !.page = rest, !.wrote = wrote, !.created = prods, !.stored = put]
<1>12. DOMAIN req' = Workers /\ req'[w] = s /\ \A v \in Workers \ {w} : req'[v] = req[v]
  BY <1>3, <1>6, <1>7, <1>9 DEF RecordSynced
<1>13. /\ s \in SyncRuns /\ s.page = rest /\ s.cursor = r.cursor /\ s.rows = r.rows /\ s.mode = r.mode /\ s.done = r.done
       /\ s.wrote = wrote /\ s.failed = r.failed /\ s.created = prods /\ s.stored = put
  BY <1>2, <1>3, <1>6, <1>10, <1>11 DEF SyncRuns
<1>14. s.misread = r.misread /\ s.last = r.last
  BY <1>3, Zenon DEF SyncRuns
<1> HIDE DEF s, wr
<1>15. RunCovers(w)' /\ RunDone(w)'
  BY <1>1, <1>6, <1>10, <1>12, <1>13, <1>14, RecordTaken
<1>16. RunProducts(w)'
  <2> SUFFICES ASSUME entityKind = "product", NEW e \in ExternalIds
               PROVE  e \in prods <=> e \in DOMAIN wrote /\ links[e] = 0
    BY <1>1, <1>12, <1>13 DEF RunProducts
  <2>1. e \in r.created <=> e \in DOMAIN r.wrote /\ links[e] = 0
    BY <1>3 DEF SourcesInv, RunSound, RunProducts
  <2>2. e # id => (e \in prods <=> e \in r.created)
    BY <1>6, <1>7 DEF NewProducts
  <2>3. id \in DOMAIN r.wrote => Seen(w, id) # 0
    BY <1>5 DEF Seen
  <2>4. id \notin DOMAIN r.wrote => Seen(w, id) = links[id]
    BY DEF Seen
  <2>5. id \in prods <=> id \in r.created \/ Seen(w, id) = 0
    BY <1>6, <1>7 DEF NewProducts
  <2> QED BY <1>10, <2>1, <2>2, <2>3, <2>4, <2>5
<1>17. RunAssets(w)'
  <2> SUFFICES ASSUME entityKind = "media"
               PROVE  put \subseteq objects' /\ \A e \in DOMAIN wrote : wrote[e] \in assets \cup put
    BY <1>1, <1>12, <1>13 DEF RunAssets
  <2>1. r.stored \subseteq objects /\ \A e \in DOMAIN r.wrote : r.wrote[e] \in assets \cup r.stored
    BY <1>3 DEF SourcesInv, RunSound, RunAssets
  <2>2. NewAssets(w) = {c} \ (assets \cup r.stored)
    BY <1>6 DEF NewAssets
  <2>3. put \subseteq objects'
    BY <1>1, <1>7, <2>1
  <2>4. c \in assets \cup put
    BY <1>7, <2>2
  <2> QED BY <1>7, <1>10, <2>1, <2>3, <2>4
<1>18. SyncComplete'
  BY <1>1 DEF SourcesInv, SyncComplete
<1>19. \A v \in Workers \ {w} : Syncing(v) => DOMAIN wrote \cap DOMAIN req[v].wrote = {}
  <2> SUFFICES ASSUME NEW v \in Workers \ {w}, Syncing(v) PROVE DOMAIN wrote \cap DOMAIN req[v].wrote = {}
    OBVIOUS
  <2>1. DOMAIN r.wrote \cap DOMAIN req[v].wrote = {}
    BY <1>3 DEF SourcesInv, OneWriter
  <2>2. id \notin DOMAIN req[v].wrote
    BY <1>1, <1>6 DEF Waits, Syncing
  <2> QED BY <1>10, <2>1, <2>2
<1>20. RunSound(w)'
  BY <1>15, <1>16, <1>17 DEF RunSound
<1>21. objects \subseteq objects'
  BY <1>1
<1> QED BY <1>1, <1>3, <1>4, <1>12, <1>13, <1>18, <1>19, <1>20, <1>21, RunStep

LEMMA SyncCommitInv ==
  ASSUME SourcesInv, NEW w \in Workers, SyncCommit(w)
  PROVE  SourcesInv'
<1> DEFINE r == req[w]
<1>1. /\ Syncing(w) /\ r.done > 0 /\ End(w) /\ UNCHANGED <<file, entityKind, objects, stamps>>
      /\ links' = [e \in ExternalIds |-> IF e \in DOMAIN r.wrote THEN r.wrote[e] ELSE links[e]]
      /\ products' = [e \in ExternalIds |-> IF e \in r.created THEN products[e] + 1 ELSE products[e]]
      /\ assets' = assets \cup r.stored
      /\ errors' = errors \cup r.failed
      /\ lastRun' = IF r.done > lastRun.at THEN [at |-> r.done, cursor |-> r.after] ELSE lastRun
      /\ scanned' = IF r.mode = "full" /\ ~r.misread THEN scanned \cup r.rows ELSE scanned
  BY DEF SyncCommit, Syncing
<1>2. /\ DOMAIN req = Workers /\ lastRun \in [at : Nat, cursor : Nat] /\ entityKind \in {"product", "media"}
      /\ links \in [ExternalIds -> Contents] /\ products \in [ExternalIds -> Nat]
      /\ stamps \in Nat /\ scanned \subseteq ExternalIds
      /\ r \in SyncRuns
  BY <1>1 DEF SourcesInv, SourcesType, Unconnected
<1>3. /\ DOMAIN r.wrote \subseteq ExternalIds /\ \A e \in DOMAIN r.wrote : r.wrote[e] \in Contents \ {0}
      /\ r.rows \subseteq ExternalIds /\ r.after \in Nat /\ r.done \in Nat /\ r.failed \subseteq ExternalIds
      /\ r.created \subseteq ExternalIds /\ r.stored \subseteq Contents
  BY <1>2, SyncFields
<1>4. DOMAIN req' = Workers /\ ~Syncing(w)' /\ \A v \in Workers \ {w} : req'[v] = req[v]
  BY <1>1, <1>2, EndFacts DEF Syncing
<1>5. RunSound(w)'
  BY <1>4 DEF RunSound, RunCovers, RunDone, RunProducts, RunAssets
<1>6. links' \in [ExternalIds -> Contents] /\ products' \in [ExternalIds -> Nat]
  BY <1>1, <1>2, <1>3
<1>7. lastRun' \in [at : Nat, cursor : Nat] /\ scanned' \subseteq ExternalIds
  BY <1>1, <1>2, <1>3
<1>8. \A e \in ExternalIds : links[e] # 0 => links'[e] # 0
  BY <1>1, <1>3
<1>9. \A v \in Workers \ {w} : \A e \in ExternalIds : Syncing(v) /\ e \in DOMAIN req[v].wrote => links'[e] = links[e]
  <2> SUFFICES ASSUME NEW v \in Workers \ {w}, NEW e \in ExternalIds, Syncing(v), e \in DOMAIN req[v].wrote
               PROVE  links'[e] = links[e]
    OBVIOUS
  <2>1. DOMAIN r.wrote \cap DOMAIN req[v].wrote = {}
    BY <1>1 DEF SourcesInv, OneWriter
  <2> QED BY <1>1, <2>1
<1>10. SyncComplete'
  <2>1. \A e \in scanned' : links'[e] # 0 \/ e \in errors'
    <3> SUFFICES ASSUME NEW e \in scanned' PROVE links'[e] # 0 \/ e \in errors'
      OBVIOUS
    <3>1. e \in ExternalIds
      BY <1>7
    <3>2. CASE e \in scanned
      BY <1>1, <1>8, <3>1, <3>2 DEF SourcesInv, SyncComplete
    <3>3. CASE e \notin scanned
      <4>1. r.mode = "full" /\ ~r.misread /\ e \in r.rows
        BY <1>1, <3>3
      <4>2. RunCovers(w) /\ r.page = <<>> /\ r.last
        BY <1>1 DEF SourcesInv, RunSound, RunDone
      <4>3. PageIds(r.page) = {}
        BY <4>2 DEF PageIds
      <4>4. Covered(w, e)
        BY <1>1, <4>1, <4>2, <4>3 DEF RunCovers
      <4> QED BY <1>1, <1>3, <1>8, <3>1, <4>4 DEF Covered
    <3> QED BY <3>2, <3>3
  <2>2. ASSUME entityKind = "product", NEW e \in ExternalIds PROVE products'[e] = IF links'[e] = 0 THEN 0 ELSE 1
    <3>1. products[e] = IF links[e] = 0 THEN 0 ELSE 1
      BY <2>2 DEF SourcesInv, SyncComplete
    <3>2. e \in r.created <=> e \in DOMAIN r.wrote /\ links[e] = 0
      BY <1>1, <2>2 DEF SourcesInv, RunSound, RunProducts
    <3> QED BY <1>1, <1>3, <3>1, <3>2
  <2>3. ASSUME entityKind = "media" PROVE assets' \subseteq objects' /\ \A e \in ExternalIds : links'[e] \in assets' \cup {0}
    <3>1. assets \subseteq objects /\ \A e \in ExternalIds : links[e] \in assets \cup {0}
      BY <2>3 DEF SourcesInv, SyncComplete
    <3>2. /\ r.stored \subseteq objects
          /\ \A e \in DOMAIN r.wrote : r.wrote[e] \in assets \cup r.stored
      BY <1>1, <2>3 DEF SourcesInv, RunSound, RunAssets
    <3> QED BY <1>1, <3>1, <3>2
  <2> QED BY <1>1, <2>1, <2>2, <2>3 DEF SyncComplete
<1>11. assets \subseteq assets' /\ objects \subseteq objects' /\ entityKind # "NONE"
  BY <1>1, <1>2
<1> QED BY <1>1, <1>2, <1>4, <1>5, <1>6, <1>7, <1>8, <1>9, <1>10, <1>11, RunStep

LEMMA SourcesStep == SourcesInv /\ SourcesNext => SourcesInv'
<1> SUFFICES ASSUME SourcesInv, SourcesNext PROVE SourcesInv'
  OBVIOUS
<1>1. CASE FileChanges
  BY <1>1, FileChangesInv
<1>2. ASSUME NEW w \in Workers, NEW k \in {"product", "media"}, CreateConnection(w, k) PROVE SourcesInv'
  BY <1>2, CreateConnectionInv
<1>3. ASSUME NEW w \in Workers, NEW mode \in {"full", "incremental"}, SyncStart(w, mode) PROVE SourcesInv'
  BY <1>3, SyncStartInv
<1>4. ASSUME NEW w \in Workers, ReadPage(w) \/ ReadFails(w) \/ SyncDone(w) \/ SyncCommit(w) \/ SyncFails(w)
      PROVE  SourcesInv'
  BY <1>4, ReadPageInv, ReadFailsInv, SyncDoneInv, SyncCommitInv, SyncFailsInv
<1>5. ASSUME NEW w \in Workers, RecordSame(w) \/ RecordFails(w) \/ RecordSynced(w) PROVE SourcesInv'
  BY <1>5, RecordSameInv, RecordFailsInv, RecordSyncedInv
<1> QED BY <1>1, <1>2, <1>3, <1>4, <1>5 DEF SourcesNext

FleetSources == IF service = "sources" THEN SourcesInv ELSE SourcesInit

\* A completed full run answers for every record it could reach, and every
\* external id has one product or an asset whose bytes are stored: for every
\* file, page size and number of overlapping runs, however the owner rewrites
\* the file while they read it.
THEOREM SyncCompleteCorrect == Spec => []SyncComplete
<1>1. Init => FleetSources
  BY SourcesStart DEF Init, ReqInit, FleetSources
<1>2. ASSUME FleetSources, [Next]_vars PROVE FleetSources'
  <2>1. CASE service = "sources" /\ Next
    BY <1>2, <2>1, SourcesStep DEF FleetSources, Next
  <2>2. CASE service # "sources" /\ Next
    BY <1>2, <2>2 DEF FleetSources, Next, sourceVars, SourcesInit
  <2>3. CASE UNCHANGED vars
    <3>1. UNCHANGED <<service, req, file, writes, links, entityKind, products, assets, objects, errors, lastRun, stamps, scanned>>
      BY <2>3 DEF vars, rows, reqVars, sourceVars
    <3>2. SourcesInv => SourcesInv'
      BY <3>1 DEF SourcesInv, SourcesType, SyncComplete, OneWriter, Unconnected, RunSound, RunCovers, RunDone,
                  RunProducts, RunAssets, Syncing, Covered, Unread, PageIds
    <3> QED BY <1>2, <3>1, <3>2 DEF FleetSources, SourcesInit
  <2> QED BY <1>2, <2>1, <2>2, <2>3
<1>3. FleetSources => SyncComplete
  BY SourcesStart DEF FleetSources, SourcesInv
<1> QED BY <1>1, <1>2, <1>3, PTL DEF Spec

-----------------------------------------------------------------------------
(* The inbox                                                               *)

ObservationSet == Msgs \X Nat
ModelStates == {"QUEUE_FULL", "CLASSIFIED", "TIMEOUT", "SHUTDOWN"}
ClassRows ==
    [ver : Nat, gen : Nat, manual : BOOLEAN, src : {"UNCLASSIFIED", "RULE", "MODEL"}, by : Nat,
     model : ModelStates \cup {"DISABLED", "PENDING"}]

ImRequest(r) ==
    /\ r.op \in {"INGEST", "SUBMIT", "CORRECT", "RECLASSIFY"} => r.m \in Msgs
    /\ r.op = "SUBMIT" => r.gen \in Nat

InboxType ==
    /\ DOMAIN req = Workers /\ \A w \in Workers : ImRequest(req[w])
    /\ inbox \subseteq Msgs /\ unseen \subseteq inbox
    /\ cls \in [Msgs -> ClassRows]
    /\ obsq \in Seq(ObservationSet) /\ observer \in ObservationSet \cup {<<>>}

InboxInv == InboxType /\ InboxTrue
FleetInbox == IF service = "im" THEN InboxInv ELSE ImInit

Assessed(m) ==
    /\ cls[m].src = "MODEL" => cls[m].by = cls[m].gen
    /\ cls[m].model = "PENDING" => OnItsWay(m) \/ m \in lost

LEMMA AssessedAll == AssessmentCurrent <=> \A m \in Msgs : Assessed(m)
BY DEF AssessmentCurrent, Assessed

LEMMA NewRows ==
  ASSUME NEW m \in Msgs
  PROVE  /\ NoClass \in ClassRows /\ NoClass.src = "UNCLASSIFIED" /\ NoClass.model = "DISABLED"
         /\ NewClass(m) \in ClassRows /\ NewClass(m).src # "MODEL" /\ NewClass(m).gen = 1
<1>1. NoClass \in ClassRows /\ NoClass.src = "UNCLASSIFIED" /\ NoClass.model = "DISABLED"
  BY DEF NoClass, ClassRows
<1>2. PICK x \in {"RULE", "UNCLASSIFIED"} : NewClass(m) = [NoClass EXCEPT !.ver = 1, !.gen = 1, !.model = "PENDING", !.src = x]
  BY <1>1 DEF NewClass, ClassRows
<1>3. NewClass(m) \in ClassRows /\ NewClass(m).src # "MODEL" /\ NewClass(m).gen = 1
  <2>1. ASSUME NEW r \in ClassRows, NEW y \in {"RULE", "UNCLASSIFIED"}
        PROVE  /\ [r EXCEPT !.ver = 1, !.gen = 1, !.model = "PENDING", !.src = y] \in ClassRows
               /\ [r EXCEPT !.ver = 1, !.gen = 1, !.model = "PENDING", !.src = y].src = y
               /\ [r EXCEPT !.ver = 1, !.gen = 1, !.model = "PENDING", !.src = y].gen = 1
    BY DEF ClassRows
  <2>2. /\ [NoClass EXCEPT !.ver = 1, !.gen = 1, !.model = "PENDING", !.src = x] \in ClassRows
        /\ [NoClass EXCEPT !.ver = 1, !.gen = 1, !.model = "PENDING", !.src = x].src = x
        /\ [NoClass EXCEPT !.ver = 1, !.gen = 1, !.model = "PENDING", !.src = x].gen = 1
    BY <1>1, <2>1, Zenon
  <2> QED BY <1>2, <2>2
<1> QED BY <1>1, <1>3

LEMMA ImStartTrue == ImInit => InboxTrue
<1> SUFFICES ASSUME ImInit PROVE InboxTrue
  OBVIOUS
<1>1. \A m \in Msgs : cls[m].src = "UNCLASSIFIED" /\ cls[m].model = "DISABLED"
  BY NewRows DEF ImInit
<1>2. UnreadCounts
  BY FS_EmptySet DEF ImInit, UnreadCounts
<1> QED BY <1>1, <1>2 DEF InboxTrue, AssessmentCurrent

LEMMA ImStart == ImInit /\ req = [w \in Workers |-> Idle] => InboxInv
<1> SUFFICES ASSUME ImInit, req = [w \in Workers |-> Idle] PROVE InboxInv
  OBVIOUS
<1>1. InboxType
  BY NewRows, InboxAssumption DEF ImInit, InboxType, ImRequest, Idle, ObservationSet
<1> QED BY <1>1, ImStartTrue DEF InboxInv

\* Queues as sets.
LEMMA ToSetFacts ==
  ASSUME NEW S, NEW s \in Seq(S)
  PROVE  /\ ToSet(<<>>) = {}
         /\ \A e \in S : ToSet(Append(s, e)) = ToSet(s) \cup {e}
         /\ s # <<>> => Head(s) \in S /\ Tail(s) \in Seq(S) /\ ToSet(s) = {Head(s)} \cup ToSet(Tail(s))
<1>1. ToSet(<<>>) = {}
  BY DEF ToSet
<1>2. ASSUME NEW e \in S PROVE ToSet(Append(s, e)) = ToSet(s) \cup {e}
  <2>1. Len(s) \in Nat /\ DOMAIN s = 1..Len(s) /\ DOMAIN Append(s, e) = 1..(Len(s) + 1)
    OBVIOUS
  <2>2. \A i \in 1..Len(s) : Append(s, e)[i] = s[i]
    OBVIOUS
  <2>3. Append(s, e)[Len(s) + 1] = e
    OBVIOUS
  <2>4. 1..(Len(s) + 1) = 1..Len(s) \cup {Len(s) + 1}
    BY <2>1
  <2> QED BY <2>1, <2>2, <2>3, <2>4 DEF ToSet
<1>3. ASSUME s # <<>> PROVE Head(s) \in S /\ Tail(s) \in Seq(S) /\ ToSet(s) = {Head(s)} \cup ToSet(Tail(s))
  <2>1. Head(s) \in S /\ Tail(s) \in Seq(S) /\ Len(s) \in Nat /\ Len(s) > 0 /\ Len(Tail(s)) = Len(s) - 1
    BY <1>3
  <2>2. Head(s) = s[1] /\ \A i \in 1..(Len(s) - 1) : Tail(s)[i] = s[i + 1]
    BY <1>3
  <2>3. DOMAIN s = 1..Len(s) /\ DOMAIN Tail(s) = 1..(Len(s) - 1)
    BY <2>1
  <2>4. \A i \in 1..Len(s) : i = 1 \/ (i - 1 \in 1..(Len(s) - 1) /\ s[i] = Tail(s)[i - 1])
    BY <2>1, <2>2
  <2>5. \A i \in 1..(Len(s) - 1) : i + 1 \in 1..Len(s) /\ 1 \in 1..Len(s)
    BY <2>1
  <2>6. ToSet(s) \subseteq {Head(s)} \cup ToSet(Tail(s))
    <3> SUFFICES ASSUME NEW i \in 1..Len(s) PROVE s[i] \in {Head(s)} \cup ToSet(Tail(s))
      BY <2>3 DEF ToSet
    <3>1. CASE i = 1
      BY <2>2, <3>1
    <3>2. CASE i # 1
      <4>1. i - 1 \in DOMAIN Tail(s) /\ s[i] = Tail(s)[i - 1]
        BY <2>3, <2>4, <3>2
      <4> QED BY <4>1 DEF ToSet
    <3> QED BY <3>1, <3>2
  <2>7. {Head(s)} \cup ToSet(Tail(s)) \subseteq ToSet(s)
    BY <2>1, <2>2, <2>3, <2>5 DEF ToSet
  <2> QED BY <2>1, <2>6, <2>7
<1> QED BY <1>1, <1>2, <1>3

InWork == {observer} \cup ToSet(obsq)

LEMMA Waiting ==
  ASSUME NEW m
  PROVE  OnItsWay(m) <=> \/ \E w \in Workers : req[w].op = "SUBMIT" /\ req[w].m = m /\ req[w].gen = cls[m].gen
                         \/ <<m, cls[m].gen>> \in InWork
BY DEF OnItsWay, InWork

\* A message whose assessment the step leaves alone.
LEMMA Undisturbed ==
  ASSUME InboxInv, NEW m \in Msgs, cls'[m] = cls[m], lost \subseteq lost',
         <<m, cls[m].gen>> \in InWork => <<m, cls[m].gen>> \in InWork' \/ m \in lost',
         \A w \in Workers : req[w].op = "SUBMIT" /\ req[w].m = m /\ req[w].gen = cls[m].gen =>
                               req'[w] = req[w] \/ m \in lost' \/ <<m, cls[m].gen>> \in InWork'
  PROVE  Assessed(m)'
<1>1. Assessed(m)
  BY AssessedAll DEF InboxInv, InboxTrue
<1>2. OnItsWay(m) => OnItsWay(m)' \/ m \in lost'
  BY DEF OnItsWay, InWork
<1> QED BY <1>1, <1>2 DEF Assessed

LEMMA ModelKept ==
  ASSUME InboxInv, UNCHANGED <<cls, obsq, observer>>, lost \subseteq lost',
         \A w \in Workers : req[w].op = "SUBMIT" => req'[w] = req[w] \/ req[w].m \in lost'
  PROVE  AssessmentCurrent'
<1>1. ASSUME NEW m \in Msgs PROVE Assessed(m)'
  BY Undisturbed DEF InWork
<1> QED BY <1>1, AssessedAll DEF AssessmentCurrent, Assessed

\* What persist_assessment() leaves behind.
LEMMA PersistedFacts ==
  ASSUME InboxInv, NEW o \in ObservationSet, NEW said \in BOOLEAN, NEW status \in ModelStates
  PROVE  /\ Persisted(o, said, status) \in [Msgs -> ClassRows]
         /\ \A m \in Msgs : <<m, cls[m].gen>> # o => Persisted(o, said, status)[m] = cls[m]
         /\ \A m \in Msgs : <<m, cls[m].gen>> = o => /\ Persisted(o, said, status)[m].model # "PENDING"
                                                     /\ Persisted(o, said, status)[m].src = "MODEL" =>
                                                          Persisted(o, said, status)[m].by = Persisted(o, said, status)[m].gen
<1> DEFINE a == o[1]
           c == cls[a]
           P == Persisted(o, said, status)
<1>1. a \in Msgs /\ o[2] \in Nat /\ o = <<a, o[2]>> /\ cls \in [Msgs -> ClassRows] /\ c \in ClassRows
  BY DEF ObservationSet, InboxInv, InboxType
<1>2. CASE ~Current(o)
  <2>1. P = cls
    BY <1>2 DEF Persisted
  <2>2. \A m \in Msgs : <<m, cls[m].gen>> # o
    BY <1>2 DEF Current
  <2> QED BY <1>1, <2>1, <2>2
<1>3. CASE Current(o)
  <2>1. PICK sr \in {"UNCLASSIFIED", "RULE", "MODEL"}, b \in Nat :
          /\ P = [cls EXCEPT ![a] = [c EXCEPT !.ver = c.ver + 1, !.model = status, !.src = sr, !.by = b]]
          /\ sr = "MODEL" => b = o[2] \/ (sr = c.src /\ b = c.by)
    <3>1. c.src \in {"UNCLASSIFIED", "RULE", "MODEL"} /\ c.by \in Nat
      BY <1>1 DEF ClassRows
    <3> DEFINE x == IF a \in RuleMsgs THEN c.src ELSE IF said THEN "MODEL" ELSE "UNCLASSIFIED"
               y == IF said THEN o[2] ELSE c.by
    <3>2. P = [cls EXCEPT ![a] = [c EXCEPT !.ver = c.ver + 1, !.model = status, !.src = x, !.by = y]]
      BY <1>1, <1>3 DEF Persisted, ClassRows
    <3>3. x \in {"UNCLASSIFIED", "RULE", "MODEL"} /\ y \in Nat /\ (x = "MODEL" => y = o[2] \/ (x = c.src /\ y = c.by))
      BY <1>1, <3>1
    <3> HIDE DEF x, y
    <3> QED BY <3>2, <3>3
  <2> DEFINE r == [c EXCEPT !.ver = c.ver + 1, !.model = status, !.src = sr, !.by = b]
  <2>2. c.ver + 1 \in Nat
    BY <1>1 DEF ClassRows
  <2>3. r \in ClassRows /\ r.model = status /\ r.src = sr /\ r.by = b /\ r.gen = c.gen
    <3>1. \A n \in Nat : LET q == [c EXCEPT !.ver = n, !.model = status, !.src = sr, !.by = b]
                          IN  q \in ClassRows /\ q.model = status /\ q.src = sr /\ q.by = b /\ q.gen = c.gen
      BY <1>1 DEF ClassRows
    <3> QED BY <2>2, <3>1
  <2>4. P = [cls EXCEPT ![a] = r]
    BY <2>1
  <2> HIDE DEF r, P
  <2>5. P \in [Msgs -> ClassRows] /\ P[a] = r /\ \A m \in Msgs \ {a} : P[m] = cls[m]
    BY <1>1, <2>3, <2>4
  <2>6. c.gen = o[2] /\ (c.src = "MODEL" => c.by = c.gen)
    BY <1>1, <1>3, AssessedAll DEF Current, InboxInv, InboxTrue, Assessed
  <2>7. \A m \in Msgs : <<m, cls[m].gen>> = o <=> m = a
    BY <1>1, <2>6
  <2>8. status # "PENDING"
    BY DEF ModelStates
  <2>9. r.model # "PENDING" /\ (r.src = "MODEL" => r.by = r.gen)
    BY <2>1, <2>3, <2>6, <2>8
  <2>10. /\ P \in [Msgs -> ClassRows] /\ \A m \in Msgs : <<m, cls[m].gen>> # o => P[m] = cls[m]
         /\ \A m \in Msgs : <<m, cls[m].gen>> = o => P[m].model # "PENDING" /\ (P[m].src = "MODEL" => P[m].by = P[m].gen)
    BY <2>5, <2>7, <2>9
  <2> QED BY <2>10 DEF P
<1> QED BY <1>2, <1>3

LEMMA Persists ==
  ASSUME InboxInv, NEW o \in ObservationSet, NEW said \in BOOLEAN, NEW status \in ModelStates,
         cls' = Persisted(o, said, status), lost' = lost, InWork \ {o, <<>>} \subseteq InWork',
         \A w \in Workers : req[w].op = "SUBMIT" => req'[w] = req[w] \/ <<req[w].m, req[w].gen>> = o
  PROVE  AssessmentCurrent' /\ cls' \in [Msgs -> ClassRows]
<1>1. /\ cls' \in [Msgs -> ClassRows]
      /\ \A m \in Msgs : <<m, cls[m].gen>> # o => cls'[m] = cls[m]
      /\ \A m \in Msgs : <<m, cls[m].gen>> = o => cls'[m].model # "PENDING" /\ (cls'[m].src = "MODEL" => cls'[m].by = cls'[m].gen)
  BY PersistedFacts
<1>2. ASSUME NEW m \in Msgs PROVE Assessed(m)'
  <2>1. CASE <<m, cls[m].gen>> = o
    BY <1>1, <2>1 DEF Assessed
  <2>2. CASE <<m, cls[m].gen>> # o
    <3>1. <<m, cls[m].gen>> # <<>>
      OBVIOUS
    <3>2. cls'[m] = cls[m] /\ (<<m, cls[m].gen>> \in InWork => <<m, cls[m].gen>> \in InWork')
      BY <1>1, <2>2, <3>1
    <3> QED BY <2>2, <3>2, Undisturbed
  <2> QED BY <2>1, <2>2
<1> QED BY <1>1, <1>2, AssessedAll DEF AssessmentCurrent, Assessed

\* Requests that leave the thread and its assessments alone.
LEMMA ThreadKept ==
  ASSUME InboxInv, UNCHANGED <<inbox, unread, unseen, cls, obsq, observer>>, lost \subseteq lost',
         DOMAIN req' = Workers, \A w \in Workers : ImRequest(req'[w]),
         \A w \in Workers : req[w].op = "SUBMIT" => req'[w] = req[w] \/ req[w].m \in lost'
  PROVE  InboxInv'
<1>1. AssessmentCurrent'
  BY ModelKept
<1> QED BY <1>1 DEF InboxInv, InboxType, InboxTrue, UnreadCounts

LEMMA ReadsInv ==
  ASSUME InboxInv, NEW w \in Workers, NEW r, Begin(w, r), ImRequest(r), UNCHANGED <<inbox, unread, unseen, modelVars>>
  PROVE  InboxInv'
<1>1. /\ DOMAIN req' = Workers /\ req'[w] = r /\ req[w].op = "IDLE" /\ \A v \in Workers \ {w} : req'[v] = req[v]
  BY BeginFacts DEF InboxInv, InboxType
<1>2. \A v \in Workers : ImRequest(req'[v])
  BY <1>1 DEF InboxInv, InboxType
<1> QED BY <1>1, <1>2, ThreadKept DEF modelVars

LEMMA MarkReadInv ==
  ASSUME InboxInv, NEW w \in Workers, MarkRead(w)
  PROVE  InboxInv'
<1>1. unread' = 0 /\ unseen' = {} /\ UNCHANGED <<req, inbox, cls, obsq, observer, lost>>
  BY DEF MarkRead, AtOnce, modelVars
<1>2. AssessmentCurrent'
  BY <1>1, ModelKept
<1>3. UnreadCounts'
  BY <1>1, FS_EmptySet DEF UnreadCounts
<1> QED BY <1>1, <1>2, <1>3 DEF InboxInv, InboxType, InboxTrue

\* A request that ends or changes, other than SUBMIT.
LEMMA EndsInv ==
  ASSUME InboxInv, NEW w \in Workers, End(w), req[w].op # "SUBMIT", UNCHANGED <<inbox, unread, unseen, modelVars>>
  PROVE  InboxInv'
<1>1. /\ DOMAIN req' = Workers /\ req'[w].op = "IDLE" /\ \A v \in Workers \ {w} : req'[v] = req[v]
  BY EndFacts DEF InboxInv, InboxType
<1>2. \A v \in Workers : ImRequest(req'[v])
  BY <1>1 DEF InboxInv, InboxType, ImRequest
<1> QED BY <1>1, <1>2, ThreadKept DEF modelVars

\* A new generation of a message is handed to the observer by its request.
LEMMA Renewed ==
  ASSUME InboxInv, NEW w \in Workers, req[w].op # "SUBMIT", NEW m \in Msgs, NEW c \in ClassRows, c.src # "MODEL",
         cls' = [cls EXCEPT ![m] = c], req' = [req EXCEPT ![w] = [op |-> "SUBMIT", m |-> m, gen |-> c.gen]],
         UNCHANGED <<obsq, observer, lost>>
  PROVE  /\ AssessmentCurrent' /\ cls' \in [Msgs -> ClassRows]
         /\ DOMAIN req' = Workers /\ \A v \in Workers : ImRequest(req'[v])
<1>1. cls' \in [Msgs -> ClassRows] /\ cls'[m] = c /\ \A n \in Msgs \ {m} : cls'[n] = cls[n]
  BY DEF InboxInv, InboxType
<1>2. /\ DOMAIN req' = Workers /\ req'[w] = [op |-> "SUBMIT", m |-> m, gen |-> c.gen]
      /\ \A v \in Workers \ {w} : req'[v] = req[v]
  BY DEF InboxInv, InboxType
<1>3. req'[w].op = "SUBMIT" /\ req'[w].m = m /\ req'[w].gen = c.gen /\ c.gen \in Nat
  BY <1>2 DEF ClassRows
<1>4. Assessed(m)'
  BY <1>1, <1>3 DEF Assessed, OnItsWay
<1>5. ASSUME NEW n \in Msgs \ {m} PROVE Assessed(n)'
  BY <1>1, <1>2, Undisturbed DEF InWork
<1>6. AssessmentCurrent'
  BY <1>4, <1>5, AssessedAll DEF AssessmentCurrent, Assessed
<1>7. \A v \in Workers : ImRequest(req'[v])
  BY <1>2, <1>3 DEF InboxInv, InboxType, ImRequest
<1> QED BY <1>1, <1>2, <1>6, <1>7

LEMMA IngestedInv ==
  ASSUME InboxInv, NEW w \in Workers, IngestCommit(w)
  PROVE  InboxInv'
<1> DEFINE m == req[w].m
<1>1. req[w].op = "INGEST" /\ m \in Msgs /\ UNCHANGED <<obsq, observer, lost>>
  BY DEF IngestCommit, InboxInv, InboxType, ImRequest
<1>2. CASE m \in inbox
  <2>1. End(w) /\ UNCHANGED <<inbox, unread, unseen, modelVars>>
    BY <1>1, <1>2 DEF IngestCommit, KeyFree, intakeVars, modelVars
  <2> QED BY <1>1, <2>1, EndsInv
<1>3. CASE m \notin inbox
  <2>1. /\ inbox' = inbox \cup {m} /\ unread' = unread + 1 /\ unseen' = unseen \cup {m}
        /\ cls' = [cls EXCEPT ![m] = NewClass(m)] /\ req' = [req EXCEPT ![w] = [op |-> "SUBMIT", m |-> m, gen |-> 1]]
    BY <1>3 DEF IngestCommit, KeyFree
  <2>2. NewClass(m) \in ClassRows /\ NewClass(m).src # "MODEL" /\ NewClass(m).gen = 1
    BY <1>1, NewRows
  <2>3. /\ AssessmentCurrent' /\ cls' \in [Msgs -> ClassRows]
        /\ DOMAIN req' = Workers /\ \A v \in Workers : ImRequest(req'[v])
    BY <1>1, <2>1, <2>2, Renewed
  <2>4. unseen \subseteq inbox /\ inbox \subseteq Msgs /\ unread = Cardinality(unseen)
    BY DEF InboxInv, InboxType, InboxTrue, UnreadCounts
  <2>5. IsFiniteSet(unseen)
    BY <2>4, InboxAssumption, FS_Subset
  <2>6. Cardinality(unseen') = Cardinality(unseen) + 1
    BY <1>3, <2>1, <2>4, <2>5, FS_AddElement
  <2> QED BY <1>1, <2>1, <2>3, <2>4, <2>6 DEF InboxInv, InboxType, InboxTrue, UnreadCounts
<1> QED BY <1>2, <1>3

LEMMA SubmitInv ==
  ASSUME InboxInv, NEW w \in Workers, SubmitObservation(w)
  PROVE  InboxInv'
<1> DEFINE o == <<req[w].m, req[w].gen>>
<1>1. req[w].op = "SUBMIT" /\ End(w) /\ UNCHANGED <<inbox, unread, unseen, observer, lost>>
  BY DEF SubmitObservation, intakeVars
<1>2. o \in ObservationSet /\ obsq \in Seq(ObservationSet)
  BY <1>1 DEF InboxInv, InboxType, ImRequest, ObservationSet
<1>3. /\ DOMAIN req' = Workers /\ req'[w].op = "IDLE" /\ \A v \in Workers \ {w} : req'[v] = req[v]
  BY <1>1, EndFacts DEF InboxInv, InboxType
<1>4. \A v \in Workers : ImRequest(req'[v])
  BY <1>3 DEF InboxInv, InboxType, ImRequest
<1>5. CASE obsq' = Append(obsq, o) /\ UNCHANGED cls
  <2>1. ToSet(obsq') = ToSet(obsq) \cup {o} /\ obsq' \in Seq(ObservationSet)
    BY <1>2, <1>5, ToSetFacts
  <2>2. InWork' = InWork \cup {o}
    BY <1>1, <2>1 DEF InWork
  <2>3. ASSUME NEW m \in Msgs PROVE Assessed(m)'
    <3>1. \A v \in Workers : req[v].op = "SUBMIT" /\ req[v].m = m /\ req[v].gen = cls[m].gen =>
                                 req'[v] = req[v] \/ <<m, cls[m].gen>> \in InWork'
      BY <1>3, <2>2
    <3> QED BY <1>1, <1>5, <2>2, <3>1, Undisturbed
  <2>4. AssessmentCurrent'
    BY <2>3, AssessedAll DEF AssessmentCurrent, Assessed
  <2> QED BY <1>1, <1>3, <1>4, <1>5, <2>1, <2>4 DEF InboxInv, InboxType, InboxTrue, UnreadCounts
<1>6. CASE cls' = Refused(o) /\ UNCHANGED obsq
  <2>1. cls' = Persisted(o, FALSE, "QUEUE_FULL") /\ "QUEUE_FULL" \in ModelStates
    BY <1>6 DEF Refused, ModelStates
  <2>2. InWork' = InWork
    BY <1>1, <1>6 DEF InWork
  <2>3. \A v \in Workers : req[v].op = "SUBMIT" => req'[v] = req[v] \/ <<req[v].m, req[v].gen>> = o
    BY <1>3
  <2>4. AssessmentCurrent' /\ cls' \in [Msgs -> ClassRows]
    BY <1>1, <1>2, <2>1, <2>2, <2>3, Persists
  <2> QED BY <1>1, <1>3, <1>4, <1>6, <2>4 DEF InboxInv, InboxType, InboxTrue, UnreadCounts
<1> QED BY <1>5, <1>6 DEF SubmitObservation

LEMMA ReviewedRow ==
  ASSUME InboxInv, NEW m \in Msgs
  PROVE  /\ Reviewed(m) \in ClassRows /\ Reviewed(m).gen \in Nat
         /\ \/ Reviewed(m).src # "MODEL" /\ Reviewed(m).model # "PENDING"
            \/ /\ Reviewed(m).src = cls[m].src /\ Reviewed(m).model = cls[m].model
               /\ Reviewed(m).by = cls[m].by /\ Reviewed(m).gen = cls[m].gen
<1>1. cls[m] \in ClassRows /\ NoClass \in ClassRows /\ NoClass.src = "UNCLASSIFIED" /\ NoClass.model = "DISABLED"
  BY NewRows DEF InboxInv, InboxType
<1>2. CASE Reviewed(m) = [NoClass EXCEPT !.ver = 1, !.gen = 1]
  <2>1. ASSUME NEW r \in ClassRows, NEW q, q = [r EXCEPT !.ver = 1, !.gen = 1]
        PROVE  q \in ClassRows /\ q.src = r.src /\ q.model = r.model
    BY <2>1 DEF ClassRows
  <2>2. Reviewed(m) \in ClassRows /\ Reviewed(m).src = NoClass.src /\ Reviewed(m).model = NoClass.model
    BY <1>1, <1>2, <2>1
  <2>3. Reviewed(m).gen \in Nat
    BY <2>2 DEF ClassRows
  <2> QED BY <1>1, <2>2, <2>3
<1>3. CASE Reviewed(m) = [cls[m] EXCEPT !.ver = cls[m].ver + 1]
  <2>1. cls[m].ver + 1 \in Nat
    BY <1>1 DEF ClassRows
  <2> QED BY <1>1, <1>3, <2>1 DEF ClassRows
<1> QED BY <1>2, <1>3 DEF Reviewed

LEMMA CorrectInv ==
  ASSUME InboxInv, NEW w \in Workers, Correct(w)
  PROVE  InboxInv'
<1>1. PICK m \in Msgs : /\ req[w].m = m /\ req[w].op = "CORRECT" /\ End(w)
                        /\ UNCHANGED <<inbox, unread, unseen, obsq, observer, lost>>
  BY DEF Correct, intakeVars, InboxInv, InboxType, ImRequest
<1> DEFINE c == [Reviewed(m) EXCEPT !.manual = TRUE]
<1>2. CASE cls' = cls
  BY <1>1, <1>2, EndsInv DEF modelVars
<1>3. CASE cls' = [cls EXCEPT ![m] = c]
  <2>1. /\ Reviewed(m) \in ClassRows /\ Reviewed(m).gen \in Nat
        /\ \/ Reviewed(m).src # "MODEL" /\ Reviewed(m).model # "PENDING"
           \/ /\ Reviewed(m).src = cls[m].src /\ Reviewed(m).model = cls[m].model
              /\ Reviewed(m).by = cls[m].by /\ Reviewed(m).gen = cls[m].gen
    BY <1>1, ReviewedRow
  <2>2. /\ c \in ClassRows /\ c.src = Reviewed(m).src /\ c.model = Reviewed(m).model /\ c.by = Reviewed(m).by
        /\ c.gen = Reviewed(m).gen
    BY <2>1 DEF ClassRows
  <2> HIDE DEF c
  <2>3. cls' \in [Msgs -> ClassRows] /\ cls'[m] = c /\ \A n \in Msgs \ {m} : cls'[n] = cls[n]
    BY <1>1, <1>3, <2>2 DEF InboxInv, InboxType
  <2>4. /\ DOMAIN req' = Workers /\ req'[w].op = "IDLE" /\ \A v \in Workers \ {w} : req'[v] = req[v]
    BY <1>1, EndFacts DEF InboxInv, InboxType
  <2>5. \A v \in Workers : ImRequest(req'[v])
    BY <2>4 DEF InboxInv, InboxType, ImRequest
  <2>6. InWork' = InWork
    BY <1>1 DEF InWork
  <2>7. ASSUME NEW n \in Msgs \ {m} PROVE Assessed(n)'
    BY <1>1, <2>3, <2>4, <2>6, <2>7, Undisturbed
  <2>8. Assessed(m)'
    <3>1. CASE c.src # "MODEL" /\ c.model # "PENDING"
      BY <2>3, <3>1 DEF Assessed
    <3>2. CASE c.src = cls[m].src /\ c.model = cls[m].model /\ c.by = cls[m].by /\ c.gen = cls[m].gen
      <4>1. Assessed(m)
        BY <1>1, AssessedAll DEF InboxInv, InboxTrue
      <4>2. OnItsWay(m) => OnItsWay(m)'
        BY <1>1, <2>3, <2>4, <2>6, <3>2 DEF OnItsWay, InWork
      <4> QED BY <1>1, <2>3, <3>2, <4>1, <4>2 DEF Assessed
    <3> QED BY <2>1, <2>2, <3>1, <3>2
  <2>9. AssessmentCurrent'
    BY <2>7, <2>8, AssessedAll DEF AssessmentCurrent, Assessed
  <2> QED BY <1>1, <2>3, <2>4, <2>5, <2>9 DEF InboxInv, InboxType, InboxTrue, UnreadCounts
<1> QED BY <1>1, <1>2, <1>3 DEF Correct

LEMMA ReclassifyInv ==
  ASSUME InboxInv, NEW w \in Workers, Reclassify(w)
  PROVE  InboxInv'
<1>1. PICK m \in Msgs : req[w].m = m /\ req[w].op = "RECLASSIFY" /\ UNCHANGED <<inbox, unread, unseen, obsq, observer, lost>>
  BY DEF Reclassify, intakeVars, InboxInv, InboxType, ImRequest
<1>2. CASE End(w) /\ UNCHANGED cls
  BY <1>1, <1>2, EndsInv DEF modelVars
<1>3. CASE /\ cls' = [cls EXCEPT ![m] =
                 [Reviewed(m) EXCEPT !.gen = @ + 1, !.model = "PENDING",
                      !.src = IF m \in RuleMsgs THEN "RULE" ELSE "UNCLASSIFIED"]]
           /\ req' = [req EXCEPT ![w] = [op |-> "SUBMIT", m |-> m, gen |-> Reviewed(m).gen + 1]]
  <2>1. Reviewed(m) \in ClassRows /\ Reviewed(m).gen + 1 \in Nat
    BY <1>1, ReviewedRow
  <2>2. PICK x \in {"RULE", "UNCLASSIFIED"} :
           cls' = [cls EXCEPT ![m] = [Reviewed(m) EXCEPT !.gen = Reviewed(m).gen + 1, !.model = "PENDING", !.src = x]]
    BY <1>3
  <2> DEFINE c == [Reviewed(m) EXCEPT !.gen = Reviewed(m).gen + 1, !.model = "PENDING", !.src = x]
  <2>3. c \in ClassRows /\ c.src # "MODEL" /\ c.gen = Reviewed(m).gen + 1
    <3>1. ASSUME NEW r \in ClassRows, NEW n \in Nat, NEW q, q = [r EXCEPT !.gen = n, !.model = "PENDING", !.src = x]
          PROVE  q \in ClassRows /\ q.src = x /\ q.gen = n
      BY <3>1 DEF ClassRows
    <3>2. c \in ClassRows /\ c.src = x /\ c.gen = Reviewed(m).gen + 1
      BY <2>1, <3>1
    <3> HIDE DEF c
    <3> QED BY <3>2
  <2>4. cls' = [cls EXCEPT ![m] = c]
    BY <2>2
  <2> HIDE DEF c
  <2>5. /\ AssessmentCurrent' /\ cls' \in [Msgs -> ClassRows]
        /\ DOMAIN req' = Workers /\ \A v \in Workers : ImRequest(req'[v])
    <3>1. req' = [req EXCEPT ![w] = [op |-> "SUBMIT", m |-> m, gen |-> c.gen]]
      BY <1>3, <2>3
    <3> QED BY <1>1, <2>3, <2>4, <3>1, Renewed
  <2> QED BY <1>1, <2>5 DEF InboxInv, InboxType, InboxTrue, UnreadCounts
<1> QED BY <1>1, <1>2, <1>3 DEF Reclassify

LEMMA ReplyInv ==
  ASSUME InboxInv, NEW w \in Workers, ReplyCreateTask(w) \/ ReplyCommit(w)
  PROVE  InboxInv'
<1>1. req[w].op # "SUBMIT" /\ UNCHANGED <<inbox, unread, unseen, modelVars>>
  BY DEF ReplyCreateTask, ReplyCommit, intakeVars
<1>2. CASE End(w)
  BY <1>1, <1>2, EndsInv
<1>3. CASE req' = [req EXCEPT ![w] = [op |-> "REPLIED", k |-> req[w].k]]
  <2>1. DOMAIN req' = Workers /\ req'[w].op = "REPLIED" /\ \A v \in Workers \ {w} : req'[v] = req[v]
    BY <1>3 DEF InboxInv, InboxType
  <2>2. \A v \in Workers : ImRequest(req'[v])
    BY <2>1 DEF InboxInv, InboxType, ImRequest
  <2> QED BY <1>1, <2>1, <2>2, ThreadKept DEF modelVars
<1> QED BY <1>2, <1>3 DEF ReplyCreateTask, ReplyCommit

LEMMA ImCrashInv ==
  ASSUME InboxInv, NEW w \in Workers, ImCrash(w)
  PROVE  InboxInv'
<1>1. /\ End(w) /\ UNCHANGED <<inbox, unread, unseen, cls, obsq, observer>>
      /\ lost \subseteq lost' /\ (req[w].op = "SUBMIT" => req[w].m \in lost')
  BY DEF ImCrash, intakeVars
<1>2. /\ DOMAIN req' = Workers /\ req'[w].op = "IDLE" /\ \A v \in Workers \ {w} : req'[v] = req[v]
  BY <1>1, EndFacts DEF InboxInv, InboxType
<1>3. \A v \in Workers : ImRequest(req'[v])
  BY <1>2 DEF InboxInv, InboxType, ImRequest
<1> QED BY <1>1, <1>2, <1>3, ThreadKept

\* The observer's own steps: no request moves.
LEMMA ObserverKeeps ==
  ASSUME InboxInv, UNCHANGED <<req, inbox, unread, unseen, cls>>, lost \subseteq lost',
         obsq' \in Seq(ObservationSet), observer' \in ObservationSet \cup {<<>>},
         \A o \in InWork \ {<<>>} : o \in InWork' \/ o[1] \in lost'
  PROVE  InboxInv'
<1>1. ASSUME NEW m \in Msgs PROVE Assessed(m)'
  <2>1. <<m, cls[m].gen>> # <<>> /\ <<m, cls[m].gen>>[1] = m
    OBVIOUS
  <2>2. <<m, cls[m].gen>> \in InWork => <<m, cls[m].gen>> \in InWork' \/ m \in lost'
    BY <2>1
  <2> QED BY <2>2, Undisturbed
<1>2. AssessmentCurrent'
  BY <1>1, AssessedAll DEF AssessmentCurrent, Assessed
<1> QED BY <1>2 DEF InboxInv, InboxType, InboxTrue, UnreadCounts

LEMMA ObserverWrites ==
  ASSUME InboxInv, UNCHANGED <<req, inbox, unread, unseen>>, lost' = lost,
         obsq' \in Seq(ObservationSet), observer' \in ObservationSet \cup {<<>>},
         NEW o \in ObservationSet, NEW said \in BOOLEAN, NEW status \in ModelStates,
         cls' = Persisted(o, said, status), InWork \ {o, <<>>} \subseteq InWork'
  PROVE  InboxInv'
<1>1. AssessmentCurrent' /\ cls' \in [Msgs -> ClassRows]
  BY Persists
<1> QED BY <1>1 DEF InboxInv, InboxType, InboxTrue, UnreadCounts

LEMMA ObserverTakesInv ==
  ASSUME InboxInv, ObserverTakes
  PROVE  InboxInv'
<1>1. /\ observer = <<>> /\ observer' = Head(obsq) /\ obsq' = Tail(obsq)
      /\ UNCHANGED <<req, inbox, unread, unseen>> /\ cls' = cls /\ lost' = lost
  BY DEF ObserverTakes, reqVars, intakeVars
<1>2. obsq \in Seq(ObservationSet) /\ obsq # <<>>
  BY DEF InboxInv, InboxType, ObserverTakes
<1>3. Head(obsq) \in ObservationSet /\ Tail(obsq) \in Seq(ObservationSet) /\ ToSet(obsq) = {Head(obsq)} \cup ToSet(Tail(obsq))
  BY <1>2, ToSetFacts
<1>4. \A o \in InWork \ {<<>>} : o \in InWork'
  BY <1>1, <1>3 DEF InWork
<1> QED BY <1>1, <1>3, <1>4, ObserverKeeps

LEMMA ObserverSettlesInv ==
  ASSUME InboxInv, ObserverSettles
  PROVE  InboxInv'
<1>1. /\ observer # <<>> /\ observer' = <<>>
      /\ UNCHANGED <<req, inbox, unread, unseen>> /\ obsq' = obsq /\ lost' = lost
  BY DEF ObserverSettles, reqVars, intakeVars
<1>2. observer \in ObservationSet /\ obsq' \in Seq(ObservationSet)
  BY <1>1 DEF InboxInv, InboxType
<1>3. PICK said \in BOOLEAN, status \in ModelStates : cls' = Persisted(observer, said, status)
  BY DEF ObserverSettles, ModelStates
<1>4. InWork \ {observer, <<>>} \subseteq InWork'
  BY <1>1 DEF InWork
<1> QED BY <1>1, <1>2, <1>3, <1>4, ObserverWrites

LEMMA ObserverClosesInv ==
  ASSUME InboxInv, ObserverCloses
  PROVE  InboxInv'
<1>1. UNCHANGED <<req, inbox, unread, unseen>> /\ lost' = lost /\ "SHUTDOWN" \in ModelStates
  BY DEF ObserverCloses, reqVars, intakeVars, ModelStates
<1>2. CASE observer # <<>> /\ cls' = Persisted(observer, FALSE, "SHUTDOWN") /\ observer' = <<>> /\ obsq' = obsq
  <2>1. observer \in ObservationSet /\ obsq' \in Seq(ObservationSet)
    BY <1>2 DEF InboxInv, InboxType
  <2>2. InWork \ {observer, <<>>} \subseteq InWork'
    BY <1>2 DEF InWork
  <2> QED BY <1>1, <1>2, <2>1, <2>2, ObserverWrites
<1>3. CASE /\ observer = <<>> /\ obsq # <<>> /\ observer' = observer
           /\ cls' = Persisted(Head(obsq), FALSE, "SHUTDOWN") /\ obsq' = Tail(obsq)
  <2>1. obsq \in Seq(ObservationSet)
    BY DEF InboxInv, InboxType
  <2>2. PICK o \in ObservationSet : o = Head(obsq) /\ Tail(obsq) \in Seq(ObservationSet) /\ ToSet(obsq) = {o} \cup ToSet(Tail(obsq))
    BY <1>3, <2>1, ToSetFacts
  <2>3. InWork \ {o, <<>>} \subseteq InWork'
    BY <1>3, <2>2 DEF InWork
  <2>4. obsq' \in Seq(ObservationSet) /\ observer' \in ObservationSet \cup {<<>>} /\ cls' = Persisted(o, FALSE, "SHUTDOWN")
    BY <1>3, <2>2
  <2> QED BY <1>1, <2>3, <2>4, ObserverWrites
<1> QED BY <1>2, <1>3 DEF ObserverCloses

LEMMA ObservationsLostInv ==
  ASSUME InboxInv, ObservationsLost
  PROVE  InboxInv'
<1>1. UNCHANGED <<req, inbox, unread, unseen>> /\ cls' = cls /\ observer' = <<>> /\ obsq \in Seq(ObservationSet)
  BY DEF ObservationsLost, reqVars, intakeVars, InboxInv, InboxType
<1>2. CASE lost' = lost \cup {observer[1]} /\ obsq' = obsq
  <2>1. \A o \in InWork \ {<<>>} : o \in InWork' \/ o[1] \in lost'
    BY <1>2 DEF InWork
  <2> QED BY <1>1, <1>2, <2>1, ObserverKeeps
<1>3. CASE lost' = lost \cup {o[1] : o \in ({observer} \ {<<>>}) \cup ToSet(obsq)} /\ obsq' = <<>>
  <2>1. \A o \in InWork \ {<<>>} : o \in InWork' \/ o[1] \in lost'
    BY <1>3 DEF InWork
  <2>2. lost \subseteq lost' /\ obsq' \in Seq(ObservationSet)
    BY <1>3
  <2> QED BY <1>1, <2>1, <2>2, ObserverKeeps
<1> QED BY <1>2, <1>3 DEF ObservationsLost

LEMMA ImStep ==
  ASSUME InboxInv, ImNext
  PROVE  InboxInv'
<1>1. ASSUME NEW w \in Workers, NEW m \in Msgs, IngestRead(w, m) PROVE InboxInv'
  <2> DEFINE r == [op |-> "INGEST", m |-> m]
  <2>1. Begin(w, r) /\ UNCHANGED <<inbox, unread, unseen, modelVars>> /\ ImRequest(r)
    BY <1>1 DEF IngestRead, imVars, modelVars, ImRequest
  <2> HIDE DEF r
  <2> QED BY <2>1, ReadsInv
<1>2. ASSUME NEW w \in Workers, NEW m \in Msgs, NEW what \in {"CORRECT", "RECLASSIFY"}, ReviewRead(w, m, what) PROVE InboxInv'
  <2>1. PICK r : r = [op |-> what, m |-> m, saw |-> cls[m].ver]
    OBVIOUS
  <2>2. Begin(w, r) /\ UNCHANGED <<inbox, unread, unseen, modelVars>>
    BY <1>2, <2>1 DEF ReviewRead, imVars, modelVars
  <2>3. ImRequest(r)
    BY <2>1 DEF ImRequest
  <2> QED BY <2>2, <2>3, ReadsInv
<1>3. ASSUME NEW w \in Workers, ReplyRead(w) PROVE InboxInv'
  <2>1. PICK r : r = [op |-> "REPLY", k |-> <<Max(inbox), ReplyCount>>]
    OBVIOUS
  <2>2. Begin(w, r) /\ UNCHANGED <<inbox, unread, unseen, modelVars>>
    BY <1>3, <2>1 DEF ReplyRead, intakeVars
  <2>3. ImRequest(r)
    BY <2>1 DEF ImRequest
  <2> QED BY <2>2, <2>3, ReadsInv
<1>4. ASSUME NEW w \in Workers, \/ IngestCommit(w) \/ MarkRead(w) \/ SubmitObservation(w) \/ Correct(w) \/ Reclassify(w)
                                \/ ReplyCreateTask(w) \/ ReplyCommit(w) \/ ImCrash(w)
      PROVE  InboxInv'
  BY <1>4, IngestedInv, MarkReadInv, SubmitInv, CorrectInv, ReclassifyInv, ReplyInv, ImCrashInv
<1>5. ASSUME Cooled \/ \E k \in ReplyKeys : DeviceReplies(k) PROVE InboxInv'
  <2>1. UNCHANGED <<req, inbox, unread, unseen, cls, obsq, observer, lost>>
    BY <1>5 DEF Cooled, DeviceReplies, reqVars, intakeVars, modelVars
  <2> QED BY <2>1, ThreadKept DEF InboxInv, InboxType
<1> QED BY <1>1, <1>2, <1>3, <1>4, <1>5, ObserverTakesInv, ObserverSettlesInv, ObserverClosesInv, ObservationsLostInv DEF ImNext

\* The badge counts the messages stored since the thread was last read, and a
\* message that waits for the model is really waiting: for any messages, any
\* length of the observer's queue, crashes and lost writes included.
THEOREM InboxTrueCorrect == Spec => []InboxTrue
<1>1. Init => FleetInbox
  BY ImStart DEF Init, ReqInit, FleetInbox
<1>2. ASSUME FleetInbox, [Next]_vars PROVE FleetInbox'
  <2>1. CASE service = "im" /\ Next
    BY <1>2, <2>1, ImStep DEF FleetInbox, Next
  <2>2. CASE service # "im" /\ Next
    BY <1>2, <2>2 DEF FleetInbox, Next, imVars, ImInit
  <2>3. CASE UNCHANGED vars
    <3>1. UNCHANGED <<service, req, imVars>>
      BY <2>3 DEF vars, rows, reqVars
    <3>2. InboxInv => InboxInv'
      BY <3>1, ThreadKept DEF imVars, InboxInv, InboxType
    <3> QED BY <1>2, <3>1, <3>2 DEF FleetInbox, ImInit, imVars
  <2> QED BY <1>2, <2>1, <2>2, <2>3
<1>3. FleetInbox => InboxTrue
  BY ImStartTrue DEF FleetInbox, InboxInv
<1> QED BY <1>1, <1>2, <1>3, PTL DEF Spec

-----------------------------------------------------------------------------
(* Products, content and media                                             *)

ProductRow(r) ==
    r \in [status : {r.status}, spu : {r.spu}, price : {r.price}, media : {r.media}, rev : Nat]

(* A row under the revision lock: its revision is the latest that stands   *)
(* for a content, and none was handed out before the row was inserted.     *)
ProductFollowed(p) ==
    /\ ProductRow(product[p])
    /\ \A a \in revisions[p] : a[1] \in Nat /\ a[1] <= product[p].rev
    /\ \A a, b \in revisions[p] : a[1] = b[1] => a = b
    /\ product[p].status = "NONE" => revisions[p] = {}

ProductsFollowed ==
    /\ DOMAIN product = Products /\ DOMAIN revisions = Products
    /\ \A p \in Products \ batched : ProductFollowed(p)

ContentRows == [status : {"NONE", "ACTIVE", "ARCHIVED"}, revs : SUBSET Nat]

ContentNumbered ==
    /\ content \in [ContentItems -> ContentRows]
    /\ \A c \in ContentItems : \E n \in Nat : content[c].revs = 1 .. n
    /\ \A c \in ContentItems : content[c].status = "NONE" => content[c].revs = {}

AssetRows == [reg : BOOLEAN, src : Digests \cup {Absent}, key : Uploads \cup Digests \cup {Absent}]
UploadRows == [state : {"NONE", "PENDING", "FAILED", "COMPLETED"}, sha : Digests \cup {Absent},
               src : Digests \cup {Absent}, live : BOOLEAN]
DerivRows == [state : {"NONE", "PENDING", "SUCCEEDED", "FAILED"}, src : Digests \cup {Absent},
              out : Digests \cup {Absent}]

(* An object holds the bytes its key promises: the digest an upload was    *)
(* granted for, or the digest that is its name.                            *)
ObjectsHonest ==
    /\ \A u \in Uploads : /\ object[u] \in {Absent, upload[u].sha}
                          /\ upload[u].state # "NONE" => upload[u].sha \in Digests
                          /\ upload[u].state = "NONE" => object[u] = Absent /\ upload[u].live = FALSE
    /\ \A h \in Digests : object[h] \in {Absent, h}

MediaSound ==
    /\ asset \in [Digests -> AssetRows] /\ upload \in [Uploads -> UploadRows]
    /\ deriv \in [Derivs -> DerivRows] /\ DOMAIN object = Uploads \cup Digests
    /\ ObjectsHonest /\ AssetBytesMatch
    /\ \A d \in Derivs : deriv[d].state = "SUCCEEDED" => deriv[d].out \in Digests
    /\ DerivativeTraceable

CreateFits(r) == ProductRow(r.row) /\ r.row.status # "NONE"

RevisionFits(r) ==
    /\ r.content \in ContentItems /\ content[r.content].status # "NONE"
    /\ r.no \in Nat /\ r.no >= 1 /\ (r.no = 1 \/ r.no - 1 \in content[r.content].revs)

PutFits(r) == r.upload \in Uploads /\ upload[r.upload].state # "NONE" /\ r.bytes = upload[r.upload].sha

CompleteFits(r) ==
    /\ r.upload \in Uploads /\ upload[r.upload].state # "NONE"
    /\ r.good = TRUE => object[r.upload] = upload[r.upload].sha

RenderFits(r) == r.src \in Digests /\ r.out \in Digests /\ object[r.out] = r.out

(* What an open request has read and may still rely on when it commits.    *)
LibraryRequest(r) ==
    /\ r.op = "CREATE" => CreateFits(r)
    /\ r.op = "REVISION" => RevisionFits(r)
    /\ r.op = "PUT" => PutFits(r)
    /\ r.op = "COMPLETE" => CompleteFits(r)
    /\ r.op = "RENDER" => RenderFits(r)

LibraryInv ==
    /\ DOMAIN req = Workers /\ \A w \in Workers : LibraryRequest(req[w])
    /\ ProductsFollowed /\ ContentNumbered /\ MediaSound

FleetLibrary ==
    IF service = "library" THEN LibraryInv ELSE LibraryInit

LEMMA LibraryReads ==
  ASSUME LibraryInv, NEW w \in Workers, NEW r, Begin(w, r), UNCHANGED libraryVars, LibraryRequest(r)
  PROVE  LibraryInv'
<1>1. UNCHANGED <<product, revisions, batched, content, asset, object, upload, deriv>>
  BY DEF libraryVars, catalogVars, mediaVars
<1>2. DOMAIN req' = Workers /\ req'[w] = r /\ \A v \in Workers \ {w} : req'[v] = req[v]
  BY BeginFacts DEF LibraryInv
<1>3. ASSUME NEW v \in Workers PROVE LibraryRequest(req[v])'
  <2>1. PICK q : q = req'[v] /\ LibraryRequest(q)
    BY <1>2 DEF LibraryInv
  <2> QED BY <1>1, <2>1 DEF LibraryRequest, CreateFits, RevisionFits, PutFits, CompleteFits, RenderFits
<1>4. ProductsFollowed' /\ ContentNumbered' /\ MediaSound'
  BY <1>1 DEF LibraryInv, ProductsFollowed, ProductFollowed, ContentNumbered, MediaSound, ObjectsHonest, AssetBytesMatch,
     DerivativeTraceable
<1> QED BY <1>2, <1>3, <1>4 DEF LibraryInv

(* The requests of the other workers, after a step of this one.            *)
LEMMA OthersRely ==
  ASSUME LibraryInv, \/ \E w \in Workers : End(w)
                     \/ \E w \in Workers : AtOnce(w)
                     \/ UNCHANGED req,
         \A r : LibraryRequest(r) => LibraryRequest(r)'
  PROVE  DOMAIN req' = Workers /\ \A v \in Workers : LibraryRequest(req[v])'
<1>1. DOMAIN req' = Workers /\ \A v \in Workers : req'[v] = req[v] \/ req'[v] = Idle
  BY DEF End, AtOnce, LibraryInv
<1>2. ASSUME NEW v \in Workers PROVE LibraryRequest(req[v])'
  <2>1. PICK q : q = req'[v] /\ LibraryRequest(q)
    BY <1>1 DEF LibraryInv, Idle, LibraryRequest
  <2>2. LibraryRequest(q)'
    BY <2>1
  <2> QED BY <2>1, <2>2 DEF LibraryRequest, CreateFits, RevisionFits, PutFits, CompleteFits, RenderFits
<1> QED BY <1>1, <1>2

(* Products.  The rows S are written with the next revision, or inserted.  *)
LEMMA WriteFollows ==
  ASSUME ProductsFollowed, NEW S \in SUBSET Products, NEW f, Write(S, f), UNCHANGED batched,
         \A p \in S \ batched : /\ ProductRow(f[p]) /\ f[p].status # "NONE"
                                /\ product[p].status = "NONE" \/ f[p].rev = product[p].rev + 1
  PROVE  ProductsFollowed'
<1>1. DOMAIN product' = Products /\ DOMAIN revisions' = Products
  BY DEF Write
<1>2. ASSUME NEW p \in S \ batched PROVE ProductFollowed(p)'
  <2>1. PICK n, b : n = f[p].rev /\ b = Body(f[p])
    OBVIOUS
  <2>2. product'[p] = f[p] /\ revisions'[p] = revisions[p] \cup {<<n, b>>} /\ n \in Nat /\ ProductRow(f[p]) /\ f[p].status # "NONE"
    BY <2>1 DEF Write, ProductRow
  <2>3. \A a \in revisions[p] : a[1] \in Nat /\ a[1] < n
    <3>1. ProductFollowed(p) /\ product[p].rev \in Nat /\ (product[p].status = "NONE" \/ n = product[p].rev + 1)
      BY <2>1 DEF ProductsFollowed, ProductFollowed, ProductRow
    <3>2. product[p].status = "NONE" => revisions[p] = {}
      BY <3>1 DEF ProductFollowed
    <3>3. \A a \in revisions[p] : a[1] \in Nat /\ a[1] <= product[p].rev
      BY <3>1 DEF ProductFollowed
    <3> QED BY <3>1, <3>2, <3>3
  <2>4. \A a, c \in revisions[p] : a[1] = c[1] => a = c
    BY DEF ProductsFollowed, ProductFollowed
  <2>5. ProductRow(product[p])'
    BY <2>2 DEF ProductRow
  <2>6. \A a \in revisions'[p] : a[1] \in Nat /\ a[1] <= product'[p].rev
    BY <2>1, <2>2, <2>3
  <2>7. \A a, c \in revisions'[p] : a[1] = c[1] => a = c
    BY <2>2, <2>3, <2>4
  <2> QED BY <2>2, <2>5, <2>6, <2>7 DEF ProductFollowed
<1>3. ASSUME NEW p \in (Products \ S) \ batched PROVE ProductFollowed(p)'
  BY DEF Write, ProductsFollowed, ProductFollowed
<1> QED BY <1>1, <1>2, <1>3 DEF ProductsFollowed

(* A request that only writes products leaves the rest as it was.          *)
LEMMA ProductsOnly ==
  ASSUME LibraryInv, UNCHANGED <<content, asset, object, upload, deriv>>, ProductsFollowed',
         \/ \E w \in Workers : End(w)
         \/ \E w \in Workers : AtOnce(w)
         \/ UNCHANGED req
  PROVE  LibraryInv'
<1>1. \A r : LibraryRequest(r) => LibraryRequest(r)'
  BY DEF LibraryRequest, CreateFits, RevisionFits, PutFits, CompleteFits, RenderFits
<1>2. ContentNumbered' /\ MediaSound'
  BY DEF LibraryInv, ContentNumbered, MediaSound, ObjectsHonest, AssetBytesMatch, DerivativeTraceable
<1> QED BY <1>1, <1>2, OthersRely DEF LibraryInv

LEMMA CreateCommitInv ==
  ASSUME LibraryInv, NEW w \in Workers, CreateCommit(w), UNCHANGED mediaVars
  PROVE  LibraryInv'
<1>1. End(w) /\ UNCHANGED <<content, asset, object, upload, deriv, batched>> /\ CreateFits(req[w])
  BY DEF CreateCommit, contentVars, mediaVars, LibraryInv, LibraryRequest
<1>2. CASE UNCHANGED <<product, revisions>>
  BY <1>1, <1>2, ProductsOnly DEF LibraryInv, ProductsFollowed, ProductFollowed
<1>3. CASE \E p \in Products : ~ Exists(p) /\ Write({p}, [q \in {p} |-> req[w].row])
  <2>1. PICK p \in Products : ~ Exists(p) /\ Write({p}, [q \in {p} |-> req[w].row])
    BY <1>3
  <2>2. PICK f : f = [q \in {p} |-> req[w].row]
    OBVIOUS
  <2>3. Write({p}, f) /\ ProductRow(f[p]) /\ f[p].status # "NONE" /\ product[p].status = "NONE"
    BY <1>1, <2>1, <2>2 DEF CreateFits, Exists
  <2>4. ProductsFollowed'
    BY <1>1, <2>3, WriteFollows DEF LibraryInv
  <2> QED BY <1>1, <2>4, ProductsOnly
<1> QED BY <1>2, <1>3 DEF CreateCommit

(* One row rewritten under its lock.                                       *)
LEMMA OneWritten ==
  ASSUME LibraryInv, NEW w \in Workers, AtOnce(w), UNCHANGED <<content, asset, object, upload, deriv, batched>>,
         NEW p \in Products, Exists(p), NEW r, Write({p}, [q \in {p} |-> r]),
         ProductRow(product[p]) => ProductRow(r) /\ r.status # "NONE" /\ r.rev = product[p].rev + 1
  PROVE  LibraryInv'
<1>1. PICK f : f = [q \in {p} |-> r]
  OBVIOUS
<1>2. Write({p}, f) /\ f[p] = r
  BY <1>1
<1>3. \A q \in {p} \ batched : /\ ProductRow(f[q]) /\ f[q].status # "NONE"
                               /\ product[q].status = "NONE" \/ f[q].rev = product[q].rev + 1
  BY <1>2 DEF LibraryInv, ProductsFollowed, ProductFollowed
<1>4. ProductsFollowed'
  BY <1>2, <1>3, WriteFollows DEF LibraryInv
<1> QED BY <1>4, ProductsOnly

LEMMA UpdateProductInv ==
  ASSUME LibraryInv, NEW w \in Workers, NEW p \in Products, NEW s, NEW x, NEW ms,
         UpdateProduct(w, p, product[p].rev, s, x, ms), UNCHANGED mediaVars
  PROVE  LibraryInv'
<1>1. PICK r : r = [product[p] EXCEPT !.spu = s, !.price = x, !.media = ms, !.rev = product[p].rev + 1]
  OBVIOUS
<1>2. /\ AtOnce(w) /\ UNCHANGED <<content, asset, object, upload, deriv, batched>> /\ Exists(p)
      /\ Write({p}, [q \in {p} |-> r])
  BY <1>1 DEF UpdateProduct, contentVars, mediaVars
<1>3. ASSUME ProductRow(product[p]) PROVE ProductRow(r) /\ r.status # "NONE" /\ r.rev = product[p].rev + 1
  <2>1. PICK n \in Nat : n = product[p].rev + 1
    BY <1>3 DEF ProductRow
  <2>2. ProductRow(r) /\ r.rev = n /\ r.status = product[p].status
    <3>1. PICK row : row = product[p]
      OBVIOUS
    <3>2. ProductRow(row) /\ r = [row EXCEPT !.spu = s, !.price = x, !.media = ms, !.rev = n]
      BY <1>1, <1>3, <2>1, <3>1
    <3> QED BY <2>1, <3>1, <3>2 DEF ProductRow
  <2> QED BY <1>2, <2>1, <2>2 DEF Exists
<1> QED BY <1>2, <1>3, OneWritten

LEMMA UpdateProductMediaInv ==
  ASSUME LibraryInv, NEW w \in Workers, NEW p \in Products, NEW ms,
         UpdateProductMedia(w, p, product[p].rev, ms), UNCHANGED mediaVars
  PROVE  LibraryInv'
<1>1. PICK r : r = [product[p] EXCEPT !.media = ms, !.rev = product[p].rev + 1]
  OBVIOUS
<1>2. /\ AtOnce(w) /\ UNCHANGED <<content, asset, object, upload, deriv, batched>> /\ Exists(p)
      /\ Write({p}, [q \in {p} |-> r])
  BY <1>1 DEF UpdateProductMedia, contentVars, mediaVars, NextRev
<1>3. ASSUME ProductRow(product[p]) PROVE ProductRow(r) /\ r.status # "NONE" /\ r.rev = product[p].rev + 1
  <2>1. PICK n \in Nat : n = product[p].rev + 1
    BY <1>3 DEF ProductRow
  <2>2. ProductRow(r) /\ r.rev = n /\ r.status = product[p].status
    <3>1. PICK row : row = product[p]
      OBVIOUS
    <3>2. ProductRow(row) /\ r = [row EXCEPT !.media = ms, !.rev = n]
      BY <1>1, <1>3, <2>1, <3>1
    <3> QED BY <2>1, <3>1, <3>2 DEF ProductRow
  <2> QED BY <1>2, <2>1, <2>2 DEF Exists
<1> QED BY <1>2, <1>3, OneWritten

LEMMA ArchiveProductInv ==
  ASSUME LibraryInv, NEW w \in Workers, NEW p \in Products, ArchiveProduct(w, p), UNCHANGED mediaVars
  PROVE  LibraryInv'
<1>1. PICK r : r = [product[p] EXCEPT !.status = "ARCHIVED", !.rev = product[p].rev + 1]
  OBVIOUS
<1>2. /\ AtOnce(w) /\ UNCHANGED <<content, asset, object, upload, deriv, batched>> /\ Exists(p)
      /\ Write({p}, [q \in {p} |-> r])
  BY <1>1 DEF ArchiveProduct, contentVars, mediaVars, ActiveProduct, Exists
<1>3. ASSUME ProductRow(product[p]) PROVE ProductRow(r) /\ r.status # "NONE" /\ r.rev = product[p].rev + 1
  <2>1. PICK n \in Nat : n = product[p].rev + 1
    BY <1>3 DEF ProductRow
  <2>2. ProductRow(r) /\ r.rev = n /\ r.status = "ARCHIVED"
    <3>1. PICK row : row = product[p]
      OBVIOUS
    <3>2. ProductRow(row) /\ r = [row EXCEPT !.status = "ARCHIVED", !.rev = n]
      BY <1>1, <1>3, <2>1, <3>1
    <3> QED BY <2>1, <3>1, <3>2 DEF ProductRow
  <2> QED BY <2>1, <2>2
<1> QED BY <1>2, <1>3, OneWritten

LEMMA BatchCommitInv ==
  ASSUME LibraryInv, NEW w \in Workers, NEW f, BatchCommit(w, f), UNCHANGED mediaVars
  PROVE  LibraryInv'
<1>1. PICK S : S = DOMAIN req[w].rows
  OBVIOUS
<1>2. PICK g : g = [p \in S |-> [f[p] EXCEPT !.rev = req[w].rows[p].rev + 1]]
  OBVIOUS
<1>3. Write(S, g) /\ batched' = batched \cup S /\ End(w) /\ UNCHANGED <<content, asset, object, upload, deriv>>
  BY <1>1, <1>2 DEF BatchCommit, contentVars, mediaVars
<1>4. ProductsFollowed'
  <2>1. DOMAIN product' = Products /\ DOMAIN revisions' = Products
    BY <1>3 DEF Write
  <2>2. ASSUME NEW p \in Products \ batched' PROVE ProductFollowed(p)'
    <3>1. product'[p] = product[p] /\ revisions'[p] = revisions[p] /\ p \in Products \ batched
      BY <1>3, <2>2 DEF Write
    <3> QED BY <3>1 DEF LibraryInv, ProductsFollowed, ProductFollowed
  <2> QED BY <2>1, <2>2 DEF ProductsFollowed
<1> QED BY <1>3, <1>4, ProductsOnly

LEMMA ImportCommitInv ==
  ASSUME LibraryInv, NEW w \in Workers, ImportCommit(w), UNCHANGED mediaVars
  PROVE  LibraryInv'
<1>1. End(w) /\ UNCHANGED <<content, asset, object, upload, deriv, batched>>
  BY DEF ImportCommit, contentVars, mediaVars
<1>2. CASE UNCHANGED <<product, revisions>>
  BY <1>1, <1>2, ProductsOnly DEF LibraryInv, ProductsFollowed, ProductFollowed
<1>3. CASE \E ids \in kSubset(Cardinality(req[w].spus), {p \in Products : ~ Exists(p)}) :
             \E f \in [ids -> req[w].spus] : Write(ids, [p \in ids |-> NewProduct(f[p], NoProduct.price, {})])
  <2>1. PICK ids, f : /\ ids \subseteq {p \in Products : ~ Exists(p)}
                      /\ Write(ids, [p \in ids |-> NewProduct(f[p], NoProduct.price, {})])
    BY <1>3 DEF kSubset
  <2>2. PICK g : g = [p \in ids |-> NewProduct(f[p], NoProduct.price, {})]
    OBVIOUS
  <2>3. Write(ids, g)
    BY <2>1, <2>2
  <2>4. ASSUME NEW p \in ids PROVE ProductRow(g[p]) /\ g[p].status # "NONE" /\ product[p].status = "NONE"
    BY <2>1, <2>2 DEF ProductRow, NewProduct, Exists
  <2>5. ProductsFollowed'
    BY <1>1, <2>1, <2>3, <2>4, WriteFollows DEF LibraryInv
  <2> QED BY <1>1, <2>5, ProductsOnly
<1> QED BY <1>2, <1>3 DEF ImportCommit

(* Content                                                                 *)
LEMMA ContentOnly ==
  ASSUME LibraryInv, UNCHANGED <<product, revisions, batched, asset, object, upload, deriv>>, ContentNumbered',
         \A c \in ContentItems : /\ content[c].revs \subseteq content'[c].revs
                                 /\ content[c].status # "NONE" => content'[c].status # "NONE",
         \/ \E w \in Workers : End(w)
         \/ \E w \in Workers : AtOnce(w)
         \/ UNCHANGED req
  PROVE  LibraryInv'
<1>1. \A r : LibraryRequest(r) => LibraryRequest(r)'
  BY DEF LibraryRequest, CreateFits, RevisionFits, PutFits, CompleteFits, RenderFits
<1>2. ProductsFollowed' /\ MediaSound'
  BY DEF LibraryInv, ProductsFollowed, ProductFollowed, MediaSound, ObjectsHonest, AssetBytesMatch, DerivativeTraceable
<1> QED BY <1>1, <1>2, OthersRely DEF LibraryInv

LEMMA CreateContentInv ==
  ASSUME LibraryInv, NEW w \in Workers, NEW c \in ContentItems, NEW g, CreateContent(w, c, g), UNCHANGED mediaVars
  PROVE  LibraryInv'
<1>1. /\ AtOnce(w) /\ UNCHANGED <<product, revisions, batched, asset, object, upload, deriv>>
      /\ content' = [content EXCEPT ![c] = [status |-> "ACTIVE", revs |-> {1}]] /\ content[c].status = "NONE"
  BY DEF CreateContent, productVars, mediaVars
<1>2. ContentNumbered
  BY DEF LibraryInv
<1>3. content' \in [ContentItems -> ContentRows]
  BY <1>1, <1>2 DEF ContentNumbered, ContentRows
<1>4. /\ content'[c].revs = {1} /\ content'[c].status = "ACTIVE" /\ content[c].revs = {}
      /\ \A d \in ContentItems \ {c} : content'[d] = content[d]
  BY <1>1, <1>2 DEF ContentNumbered
<1>5. {1} = 1 .. 1
  OBVIOUS
<1>6. ContentNumbered'
  BY <1>2, <1>3, <1>4, <1>5 DEF ContentNumbered
<1> QED BY <1>1, <1>4, <1>6, ContentOnly

LEMMA AddRevisionCommitInv ==
  ASSUME LibraryInv, NEW w \in Workers, AddRevisionCommit(w), UNCHANGED mediaVars
  PROVE  LibraryInv'
<1>1. PICK c, n : c = req[w].content /\ n = req[w].no
  OBVIOUS
<1>2. End(w) /\ UNCHANGED <<product, revisions, batched, asset, object, upload, deriv>> /\ ContentNumbered
  BY DEF AddRevisionCommit, productVars, mediaVars, LibraryInv
<1>3. /\ c \in ContentItems /\ content[c].status # "NONE" /\ n \in Nat /\ n >= 1
      /\ n = 1 \/ n - 1 \in content[c].revs
  BY <1>1 DEF AddRevisionCommit, LibraryInv, LibraryRequest, RevisionFits
<1>4. CASE UNCHANGED content
  BY <1>2, <1>4, ContentOnly DEF ContentNumbered
<1>5. CASE n \notin content[c].revs /\ content' = [content EXCEPT ![c].revs = content[c].revs \cup {n}]
  <2>1. PICK m \in Nat : content[c].revs = 1 .. m
    BY <1>2, <1>3 DEF ContentNumbered
  <2>2. n = m + 1
    BY <1>3, <1>5, <2>1
  <2>3. content'[c].revs = 1 .. n
    <3>1. content'[c].revs = content[c].revs \cup {n}
      BY <1>2, <1>3, <1>5 DEF ContentNumbered, ContentRows
    <3> QED BY <2>1, <2>2, <3>1
  <2>4. content' \in [ContentItems -> ContentRows] /\ content'[c].status = content[c].status
    BY <1>2, <1>3, <1>5 DEF ContentNumbered, ContentRows
  <2>5. \A d \in ContentItems \ {c} : content'[d] = content[d]
    BY <1>2, <1>5 DEF ContentNumbered
  <2>6. ContentNumbered'
    BY <1>2, <1>3, <2>3, <2>4, <2>5 DEF ContentNumbered
  <2>7. content[c].revs \subseteq content'[c].revs
    BY <2>1, <2>2, <2>3
  <2> QED BY <1>2, <2>4, <2>5, <2>6, <2>7, ContentOnly
<1> QED BY <1>1, <1>4, <1>5 DEF AddRevisionCommit

LEMMA ArchiveContentInv ==
  ASSUME LibraryInv, NEW w \in Workers, NEW c \in ContentItems, ArchiveContent(w, c), UNCHANGED mediaVars
  PROVE  LibraryInv'
<1>1. /\ AtOnce(w) /\ UNCHANGED <<product, revisions, batched, asset, object, upload, deriv>>
      /\ content' = [content EXCEPT ![c].status = "ARCHIVED"] /\ ContentNumbered
  BY DEF ArchiveContent, productVars, mediaVars, LibraryInv
<1>2. content' \in [ContentItems -> ContentRows]
  BY <1>1 DEF ContentNumbered, ContentRows
<1>3. /\ \A d \in ContentItems : content'[d].revs = content[d].revs /\ content'[d].status \in {content[d].status, "ARCHIVED"}
  BY <1>1 DEF ContentNumbered, ContentRows
<1>4. ContentNumbered'
  BY <1>1, <1>2, <1>3 DEF ContentNumbered
<1> QED BY <1>1, <1>3, <1>4, ContentOnly

(* next_revision_no() of numbers without a gap follows the highest.        *)
LEMMA NextRevisionFollows ==
  ASSUME ContentNumbered, NEW c \in ContentItems
  PROVE  NextRevisionNo(c) \in Nat /\ NextRevisionNo(c) >= 1
         /\ (NextRevisionNo(c) = 1 \/ NextRevisionNo(c) - 1 \in content[c].revs)
<1>1. PICK m \in Nat : content[c].revs = 1 .. m
  BY DEF ContentNumbered
<1>2. PICK S : S = content[c].revs \cup {0}
  OBVIOUS
<1>3. m \in S /\ (\A y \in S : m >= y) /\ (\A x \in S : (\A y \in S : x >= y) => x = m)
  <2>1. \A y \in S : y \in Nat /\ m >= y
    BY <1>1, <1>2
  <2>2. m \in S
    BY <1>1, <1>2
  <2> QED BY <2>1, <2>2
<1>4. Max(S) = m
  BY <1>3 DEF Max
<1> QED BY <1>1, <1>2, <1>4 DEF NextRevisionNo

(* Media.  What an upload was granted for, the digest of an asset and an   *)
(* object once stored do not change, so late commits still find them.      *)
LEMMA MediaRelied ==
  ASSUME LibraryInv, UNCHANGED content,
         \A u \in Uploads : upload[u].state # "NONE" =>
             upload'[u].state # "NONE" /\ upload'[u].sha = upload[u].sha,
         \A k \in Uploads \cup Digests : object[k] # Absent => object'[k] = object[k],
         NEW r, LibraryRequest(r)
  PROVE  LibraryRequest(r)'
<1>1. r.op = "PUT" => PutFits(r)'
  BY DEF LibraryRequest, PutFits
<1>2. ASSUME r.op = "COMPLETE" PROVE CompleteFits(r)'
  <2>1. /\ r.upload \in Uploads /\ upload[r.upload].state # "NONE"
        /\ r.good = TRUE => object[r.upload] = upload[r.upload].sha
    BY <1>2 DEF LibraryRequest, CompleteFits
  <2>2. upload[r.upload].sha \in Digests
    BY <2>1 DEF LibraryInv, MediaSound, ObjectsHonest
  <2>3. upload[r.upload].sha # Absent
    BY <2>2, MediaAssumption
  <2>4. r.good = TRUE => object'[r.upload] = upload'[r.upload].sha
    BY <2>1, <2>3
  <2> QED BY <2>1, <2>4 DEF CompleteFits
<1>3. r.op = "RENDER" => RenderFits(r)'
  BY MediaAssumption DEF LibraryRequest, RenderFits
<1> QED BY <1>1, <1>2, <1>3 DEF LibraryRequest, CreateFits, RevisionFits

LEMMA MediaOnly ==
  ASSUME LibraryInv, UNCHANGED <<product, revisions, batched, content>>, MediaSound',
         \A u \in Uploads : upload[u].state # "NONE" =>
             upload'[u].state # "NONE" /\ upload'[u].sha = upload[u].sha,
         \A k \in Uploads \cup Digests : object[k] # Absent => object'[k] = object[k],
         \/ \E w \in Workers : End(w)
         \/ \E w \in Workers : AtOnce(w)
         \/ UNCHANGED req
  PROVE  LibraryInv'
<1>1. \A r : LibraryRequest(r) => LibraryRequest(r)'
  BY MediaRelied
<1>2. ProductsFollowed' /\ ContentNumbered'
  BY DEF LibraryInv, ProductsFollowed, ProductFollowed, ContentNumbered
<1> QED BY <1>1, <1>2, OthersRely DEF LibraryInv

LEMMA AssetRegistered ==
  ASSUME MediaSound, NEW h \in Digests, NEW src \in Digests \cup {Absent},
         NEW key \in Uploads \cup Digests \cup {Absent}, key # Absent => object[key] = h,
         Register(h, src, key), UNCHANGED object
  PROVE  /\ asset' \in [Digests -> AssetRows] /\ AssetBytesMatch'
         /\ \A g \in Digests : asset[g].reg = TRUE => asset'[g] = asset[g]
         /\ asset'[h].reg = TRUE /\ (asset[h].reg = FALSE => asset'[h].src = src)
<1>1. asset \in [Digests -> AssetRows] /\ \A g \in Digests : asset[g].reg \in BOOLEAN
  BY DEF MediaSound, AssetRows
<1>2. \A g \in Digests \ {h} : asset'[g] = asset[g]
  BY <1>1 DEF Register
<1>3. DOMAIN asset' = Digests
  BY <1>1 DEF Register
<1>4. CASE asset[h].reg = TRUE
  <2>1. asset'[h] = asset[h]
    BY <1>1, <1>4 DEF Register
  <2>2. asset' \in [Digests -> AssetRows]
    <3>1. asset' = [asset EXCEPT ![h] = asset[h]]
      BY <1>1, <1>4 DEF Register
    <3> QED BY <1>1, <3>1
  <2>3. AssetBytesMatch'
    BY <1>2, <2>1 DEF MediaSound, AssetBytesMatch
  <2> QED BY <1>2, <1>4, <2>1, <2>2, <2>3
<1>5. CASE asset[h].reg = FALSE
  <2>1. PICK r : r = [reg |-> TRUE, src |-> src, key |-> key]
    OBVIOUS
  <2>2. asset'[h] = r
    BY <1>1, <1>5, <2>1 DEF Register
  <2>3. r \in AssetRows /\ r.reg = TRUE /\ r.src = src /\ r.key = key
    BY <2>1 DEF AssetRows
  <2>4. asset' \in [Digests -> AssetRows]
    <3>1. asset' = [asset EXCEPT ![h] = r]
      BY <1>1, <1>5, <2>1 DEF Register
    <3> QED BY <1>1, <2>3, <3>1
  <2>5. AssetBytesMatch'
    BY <1>2, <2>2, <2>3 DEF MediaSound, AssetBytesMatch
  <2> QED BY <1>1, <1>2, <1>5, <2>2, <2>3, <2>4, <2>5
<1> QED BY <1>1, <1>4, <1>5

(* Derivatives of assets that stay as they are.                            *)
LEMMA TraceKept ==
  ASSUME MediaSound, \A g \in Digests : asset[g].reg = TRUE => asset'[g] = asset[g],
         NEW d \in Derivs, deriv'[d] = deriv[d], deriv[d].state = "SUCCEEDED"
  PROVE  deriv'[d].out \in Digests /\ asset'[deriv'[d].out].reg /\ asset'[deriv'[d].out].src = deriv'[d].src
<1>1. PICK g : g = deriv[d].out
  OBVIOUS
<1>2. g \in Digests /\ asset[g].reg /\ asset[g].src = deriv[d].src
  BY <1>1 DEF MediaSound, DerivativeTraceable
<1>3. asset[g].reg = TRUE
  <2>1. asset[g].reg \in BOOLEAN
    BY <1>2 DEF MediaSound, AssetRows
  <2> QED BY <1>2, <2>1
<1> QED BY <1>1, <1>2, <1>3

LEMMA CreateMediaInv ==
  ASSUME LibraryInv, NEW w \in Workers, NEW h \in Digests, NEW src \in Sources, CreateMedia(w, h, src), UNCHANGED catalogVars
  PROVE  LibraryInv'
<1>1. AtOnce(w) /\ UNCHANGED <<product, revisions, batched, content, object, upload, deriv>> /\ MediaSound
  BY DEF CreateMedia, catalogVars, LibraryInv
<1>2. src \in Digests \cup {Absent} /\ Register(h, src, Absent)
  BY DEF Sources, Assets, CreateMedia
<1>3. asset' \in [Digests -> AssetRows] /\ AssetBytesMatch' /\ \A g \in Digests : asset[g].reg = TRUE => asset'[g] = asset[g]
  <2>1. Absent \in Uploads \cup Digests \cup {Absent} /\ object' = object
    BY <1>1
  <2> QED BY <1>1, <1>2, <2>1, AssetRegistered
<1>4. MediaSound'
  <2>1. ObjectsHonest'
    BY <1>1 DEF MediaSound, ObjectsHonest
  <2>2. \A d \in Derivs : deriv'[d].state = "SUCCEEDED" =>
            deriv'[d].out \in Digests /\ asset'[deriv'[d].out].reg /\ asset'[deriv'[d].out].src = deriv'[d].src
    BY <1>1, <1>3, TraceKept
  <2> QED BY <1>1, <1>3, <2>1, <2>2 DEF MediaSound, DerivativeTraceable
<1> QED BY <1>1, <1>4, MediaOnly

LEMMA InitiateUploadInv ==
  ASSUME LibraryInv, NEW w \in Workers, NEW u \in Uploads, NEW h \in Digests, NEW src \in Sources,
         InitiateUpload(w, u, h, src), UNCHANGED catalogVars
  PROVE  LibraryInv'
<1>1. AtOnce(w) /\ UNCHANGED <<product, revisions, batched, content, asset, object, deriv>> /\ MediaSound
  BY DEF InitiateUpload, catalogVars, LibraryInv
<1>2. PICK r : r = [state |-> "PENDING", sha |-> h, src |-> src, live |-> TRUE]
  OBVIOUS
<1>3. upload' = [upload EXCEPT ![u] = r] /\ upload[u].state = "NONE"
  BY <1>2 DEF InitiateUpload
<1>4. r \in UploadRows /\ r.state = "PENDING" /\ r.sha = h
  <2>1. src \in Digests \cup {Absent}
    BY DEF Sources, Assets
  <2> QED BY <1>2, <2>1 DEF UploadRows
<1>5. upload' \in [Uploads -> UploadRows] /\ upload'[u] = r /\ \A v \in Uploads \ {u} : upload'[v] = upload[v]
  BY <1>1, <1>3, <1>4 DEF MediaSound
<1>6. ObjectsHonest'
  BY <1>1, <1>3, <1>4, <1>5 DEF MediaSound, ObjectsHonest
<1>7. MediaSound'
  BY <1>1, <1>5, <1>6 DEF MediaSound, AssetBytesMatch, DerivativeTraceable
<1> QED BY <1>1, <1>3, <1>5, <1>7, MediaOnly

(* A put stores the bytes the upload was granted for.                      *)
LEMMA PutInv ==
  ASSUME LibraryInv, NEW u \in Uploads, upload[u].state # "NONE", object' = [object EXCEPT ![u] = upload[u].sha],
         UNCHANGED <<product, revisions, batched, content, asset, upload, deriv>>,
         \/ \E w \in Workers : End(w)
         \/ \E w \in Workers : AtOnce(w)
         \/ UNCHANGED req
  PROVE  LibraryInv'
<1>1. MediaSound /\ u \in Uploads \cup Digests /\ u \notin Digests /\ DOMAIN object = Uploads \cup Digests
  BY MediaAssumption DEF LibraryInv, MediaSound
<1>2. /\ object'[u] = upload[u].sha /\ DOMAIN object' = Uploads \cup Digests
      /\ \A k \in (Uploads \cup Digests) \ {u} : object'[k] = object[k]
  BY <1>1
<1>3. object[u] \in {Absent, upload[u].sha} /\ upload[u].sha \in Digests
  BY <1>1 DEF MediaSound, ObjectsHonest
<1>4. \A k \in Uploads \cup Digests : object[k] # Absent => object'[k] = object[k]
  BY <1>2, <1>3
<1>5. ObjectsHonest'
  BY <1>1, <1>2, <1>3 DEF MediaSound, ObjectsHonest
<1>6. AssetBytesMatch'
  <2>1. ASSUME NEW h \in Digests, asset[h].reg, asset[h].key # Absent PROVE object'[asset[h].key] = h
    <3>1. object[asset[h].key] = h /\ asset[h].key \in Uploads \cup Digests /\ h # Absent
      BY <1>1, <2>1, MediaAssumption DEF MediaSound, AssetBytesMatch, AssetRows
    <3> QED BY <1>4, <3>1
  <2> QED BY <2>1 DEF AssetBytesMatch
<1>7. MediaSound'
  BY <1>1, <1>2, <1>5, <1>6 DEF MediaSound, DerivativeTraceable
<1> QED BY <1>4, <1>7, MediaOnly

LEMMA CompleteCommitInv ==
  ASSUME LibraryInv, NEW w \in Workers, CompleteCommit(w), UNCHANGED catalogVars
  PROVE  LibraryInv'
<1>1. PICK u : u = req[w].upload
  OBVIOUS
<1>2. End(w) /\ UNCHANGED <<product, revisions, batched, content, object, deriv>> /\ MediaSound
  BY DEF CompleteCommit, catalogVars, LibraryInv
<1>3. u \in Uploads /\ upload[u].state # "NONE" /\ (req[w].good = TRUE => object[u] = upload[u].sha)
  BY <1>1 DEF LibraryInv, LibraryRequest, CompleteFits, CompleteCommit
<1>4. upload[u].sha \in Digests /\ upload[u].src \in Digests \cup {Absent} /\ upload \in [Uploads -> UploadRows]
  BY <1>2, <1>3 DEF MediaSound, ObjectsHonest, UploadRows
<1>5. ASSUME NEW s \in {"COMPLETED", "FAILED"}, upload' = [upload EXCEPT ![u].state = s],
             asset' \in [Digests -> AssetRows], AssetBytesMatch',
             \A g \in Digests : asset[g].reg = TRUE => asset'[g] = asset[g]
      PROVE  LibraryInv'
  <2>1. upload' \in [Uploads -> UploadRows] /\ upload'[u].state = s /\ upload'[u].sha = upload[u].sha
    BY <1>3, <1>4, <1>5 DEF UploadRows
  <2>2. \A v \in Uploads \ {u} : upload'[v] = upload[v]
    BY <1>4, <1>5
  <2>3. ObjectsHonest'
    BY <1>2, <1>3, <1>4, <2>1, <2>2 DEF MediaSound, ObjectsHonest
  <2>4. \A d \in Derivs : deriv'[d].state = "SUCCEEDED" =>
            deriv'[d].out \in Digests /\ asset'[deriv'[d].out].reg /\ asset'[deriv'[d].out].src = deriv'[d].src
    BY <1>2, <1>5, TraceKept
  <2>5. MediaSound'
    BY <1>2, <1>5, <2>1, <2>3, <2>4 DEF MediaSound, DerivativeTraceable
  <2> QED BY <1>2, <2>1, <2>2, <2>5, MediaOnly
<1>6. CASE req[w].good = TRUE /\ Register(upload[u].sha, upload[u].src, u) /\ upload' = [upload EXCEPT ![u].state = "COMPLETED"]
  <2>1. asset' \in [Digests -> AssetRows] /\ AssetBytesMatch' /\ \A g \in Digests : asset[g].reg = TRUE => asset'[g] = asset[g]
    <3>1. u \in Uploads \cup Digests \cup {Absent} /\ object' = object /\ object[u] = upload[u].sha
      BY <1>2, <1>3, <1>6
    <3> QED BY <1>2, <1>4, <1>6, <3>1, AssetRegistered
  <2> QED BY <1>5, <1>6, <2>1
<1>7. CASE upload' = [upload EXCEPT ![u].state = "FAILED"] /\ UNCHANGED asset
  <2>1. asset' \in [Digests -> AssetRows] /\ AssetBytesMatch' /\ \A g \in Digests : asset[g].reg = TRUE => asset'[g] = asset[g]
    BY <1>2, <1>7 DEF MediaSound, AssetBytesMatch
  <2> QED BY <1>5, <1>7, <2>1
<1>8. req[w].good => req[w].good = TRUE
  OBVIOUS
<1> QED BY <1>1, <1>6, <1>7, <1>8 DEF CompleteCommit

LEMMA UploadExpiresInv ==
  ASSUME LibraryInv, NEW u \in Uploads, UploadExpires(u), UNCHANGED catalogVars
  PROVE  LibraryInv'
<1>1. /\ UNCHANGED <<product, revisions, batched, content, asset, object, deriv>> /\ UNCHANGED req
      /\ upload' = [upload EXCEPT ![u].live = FALSE] /\ MediaSound
  BY DEF UploadExpires, catalogVars, reqVars, LibraryInv
<1>2. upload' \in [Uploads -> UploadRows]
  BY <1>1 DEF MediaSound, UploadRows
<1>3. /\ \A v \in Uploads : upload'[v].state = upload[v].state /\ upload'[v].sha = upload[v].sha
      /\ \A v \in Uploads : upload'[v].live = FALSE \/ upload'[v] = upload[v]
  BY <1>1 DEF MediaSound, UploadRows
<1>4. ObjectsHonest'
  BY <1>1, <1>3 DEF MediaSound, ObjectsHonest
<1>5. MediaSound'
  BY <1>1, <1>2, <1>4 DEF MediaSound, AssetBytesMatch, DerivativeTraceable
<1> QED BY <1>1, <1>3, <1>5, MediaOnly

(* A derivative row is written; the assets stay.                           *)
LEMMA DerivInv ==
  ASSUME LibraryInv, UNCHANGED <<product, revisions, batched, content, asset, object, upload>>,
         NEW d \in Derivs, NEW r \in DerivRows, deriv' = [deriv EXCEPT ![d] = r],
         r.state = "SUCCEEDED" => r.out \in Digests /\ asset[r.out].reg /\ asset[r.out].src = r.src,
         \E w \in Workers : AtOnce(w)
  PROVE  LibraryInv'
<1>1. MediaSound
  BY DEF LibraryInv
<1>2. deriv' \in [Derivs -> DerivRows] /\ deriv'[d] = r /\ \A e \in Derivs \ {d} : deriv'[e] = deriv[e]
  BY <1>1 DEF MediaSound
<1>3. MediaSound'
  BY <1>1, <1>2 DEF MediaSound, ObjectsHonest, AssetBytesMatch, DerivativeTraceable
<1> QED BY <1>3, MediaOnly

LEMMA RequestDerivativeInv ==
  ASSUME LibraryInv, NEW w \in Workers, NEW d \in Derivs, NEW h \in Digests, RequestDerivative(w, d, h), UNCHANGED catalogVars
  PROVE  LibraryInv'
<1>1. PICK r : r = [state |-> "PENDING", src |-> h, out |-> Absent]
  OBVIOUS
<1>2. r \in DerivRows /\ r.state = "PENDING"
  BY <1>1 DEF DerivRows
<1>3. /\ AtOnce(w) /\ UNCHANGED <<product, revisions, batched, content, asset, object, upload>>
      /\ deriv' = [deriv EXCEPT ![d] = r]
  BY <1>1 DEF RequestDerivative, catalogVars
<1> QED BY <1>2, <1>3, DerivInv

LEMMA RecordResultInv ==
  ASSUME LibraryInv, NEW w \in Workers, NEW d \in Derivs, NEW ok \in BOOLEAN, NEW h \in Sources,
         RecordResult(w, d, ok, h), UNCHANGED catalogVars
  PROVE  LibraryInv'
<1>1. PICK r : r = [deriv[d] EXCEPT !.state = IF ok THEN "SUCCEEDED" ELSE "FAILED", !.out = h]
  OBVIOUS
<1>2. deriv[d] \in DerivRows /\ h \in Digests \cup {Absent} /\ DOMAIN deriv = Derivs
  BY DEF LibraryInv, MediaSound, Sources, Assets
<1>3. r \in DerivRows /\ r.src = deriv[d].src /\ r.out = h /\ r.state = IF ok THEN "SUCCEEDED" ELSE "FAILED"
  BY <1>1, <1>2 DEF DerivRows
<1>4. /\ AtOnce(w) /\ UNCHANGED <<product, revisions, batched, content, asset, object, upload>>
      /\ ok => h \in Assets /\ asset[h].src = deriv[d].src
  BY DEF RecordResult, catalogVars
<1>5. deriv' = [deriv EXCEPT ![d] = r]
  BY <1>1, <1>2 DEF RecordResult
<1>6. r.state = "SUCCEEDED" => r.out \in Digests /\ asset[r.out].reg /\ asset[r.out].src = r.src
  BY <1>3, <1>4 DEF Assets
<1> QED BY <1>3, <1>4, <1>5, <1>6, DerivInv

LEMMA RenderReadInv ==
  ASSUME LibraryInv, NEW w \in Workers, NEW h \in Digests, RenderRead(w, h), UNCHANGED catalogVars
  PROVE  LibraryInv'
<1>1. MediaSound /\ UNCHANGED <<product, revisions, batched, content, asset, upload, deriv>>
  BY DEF LibraryInv, RenderRead, catalogVars
<1>2. PICK out : out = RenderOf[object[asset[h].key]]
  OBVIOUS
<1>3. object[asset[h].key] = h /\ out \in Digests
  BY <1>1, <1>2, MediaAssumption DEF RenderRead, MediaSound, AssetBytesMatch
<1>4. PICK r : r = [op |-> "RENDER", src |-> h, out |-> out]
  OBVIOUS
<1>5. Begin(w, r) /\ object' = [object EXCEPT ![out] = out] /\ r.op = "RENDER" /\ r.src = h /\ r.out = out
  BY <1>2, <1>4 DEF RenderRead
<1>6. /\ object'[out] = out /\ DOMAIN object' = Uploads \cup Digests /\ out \notin Uploads
      /\ \A k \in (Uploads \cup Digests) \ {out} : object'[k] = object[k]
  BY <1>1, <1>3, <1>5, MediaAssumption DEF MediaSound
<1>7. \A k \in Uploads \cup Digests : object[k] # Absent => object'[k] = object[k]
  BY <1>1, <1>3, <1>6 DEF MediaSound, ObjectsHonest
<1>8. ObjectsHonest'
  BY <1>1, <1>3, <1>6 DEF MediaSound, ObjectsHonest
<1>9. AssetBytesMatch'
  <2>1. ASSUME NEW g \in Digests, asset[g].reg, asset[g].key # Absent PROVE object'[asset[g].key] = g
    <3>1. object[asset[g].key] = g /\ asset[g].key \in Uploads \cup Digests /\ g # Absent
      BY <1>1, <2>1, MediaAssumption DEF MediaSound, AssetBytesMatch, AssetRows
    <3> QED BY <1>7, <3>1
  <2> QED BY <1>1, <2>1 DEF AssetBytesMatch
<1>10. MediaSound' /\ ProductsFollowed' /\ ContentNumbered'
  BY <1>1, <1>6, <1>8, <1>9
     DEF MediaSound, DerivativeTraceable, LibraryInv, ProductsFollowed, ProductFollowed, ContentNumbered
<1>11. DOMAIN req' = Workers /\ req'[w] = r /\ \A v \in Workers \ {w} : req'[v] = req[v]
  BY <1>5, BeginFacts DEF LibraryInv
<1>12. LibraryRequest(r)'
  BY <1>3, <1>5, <1>6 DEF LibraryRequest, RenderFits
<1>13. ASSUME NEW v \in Workers PROVE LibraryRequest(req[v])'
  <2>1. PICK q : q = req'[v] /\ LibraryRequest(q)'
    <3>1. CASE v = w
      BY <1>11, <1>12, <3>1
    <3>2. CASE v # w
      <4>1. PICK q : q = req[v] /\ LibraryRequest(q)
        BY DEF LibraryInv
      <4>2. LibraryRequest(q)'
        BY <1>1, <1>7, <4>1, MediaRelied
      <4> QED BY <1>11, <3>2, <4>1, <4>2
    <3> QED BY <3>1, <3>2
  <2> QED BY <2>1 DEF LibraryRequest, CreateFits, RevisionFits, PutFits, CompleteFits, RenderFits
<1> QED BY <1>10, <1>11, <1>13 DEF LibraryInv

LEMMA RenderCommitInv ==
  ASSUME LibraryInv, NEW w \in Workers, RenderCommit(w), UNCHANGED catalogVars
  PROVE  LibraryInv'
<1>1. End(w) /\ UNCHANGED <<product, revisions, batched, content, object, upload>> /\ MediaSound
  BY DEF RenderCommit, catalogVars, LibraryInv
<1>2. PICK h, out : h = req[w].src /\ out = req[w].out
  OBVIOUS
<1>3. h \in Digests /\ out \in Digests /\ object[out] = out
  BY <1>2 DEF LibraryInv, LibraryRequest, RenderFits, RenderCommit
<1>4. CASE UNCHANGED <<asset, deriv>>
  <2>1. MediaSound'
    BY <1>1, <1>4 DEF MediaSound, ObjectsHonest, AssetBytesMatch, DerivativeTraceable
  <2> QED BY <1>1, <2>1, MediaOnly
<1>5. CASE /\ ~ BoundElsewhere(out, h) /\ Register(out, h, out)
           /\ \E d \in Derivs : deriv' = [deriv EXCEPT ![d] = [state |-> "SUCCEEDED", src |-> h, out |-> out]]
  <2>1. PICK d \in Derivs : deriv' = [deriv EXCEPT ![d] = [state |-> "SUCCEEDED", src |-> h, out |-> out]]
    BY <1>5
  <2>2. PICK r : r = [state |-> "SUCCEEDED", src |-> h, out |-> out]
    OBVIOUS
  <2>3. r \in DerivRows /\ r.src = h /\ r.out = out
    BY <1>3, <2>2 DEF DerivRows
  <2>4. deriv' \in [Derivs -> DerivRows] /\ deriv'[d] = r /\ \A e \in Derivs \ {d} : deriv'[e] = deriv[e]
    BY <1>1, <2>1, <2>2, <2>3 DEF MediaSound
  <2>5. /\ asset' \in [Digests -> AssetRows] /\ AssetBytesMatch'
        /\ \A g \in Digests : asset[g].reg = TRUE => asset'[g] = asset[g]
        /\ asset'[out].reg = TRUE /\ (asset[out].reg = FALSE => asset'[out].src = h)
    <3>1. out \in Uploads \cup Digests \cup {Absent} /\ h \in Digests \cup {Absent}
      BY <1>3
    <3> QED BY <1>1, <1>3, <1>5, <3>1, AssetRegistered
  <2>6. asset'[out].reg /\ asset'[out].src = h
    <3>1. asset[out].reg \in BOOLEAN
      BY <1>1, <1>3 DEF MediaSound, AssetRows
    <3>2. asset[out].reg = TRUE => asset[out].src = h
      BY <1>5 DEF BoundElsewhere
    <3> QED BY <1>3, <2>5, <3>1, <3>2
  <2>7. \A e \in Derivs : deriv'[e].state = "SUCCEEDED" =>
            deriv'[e].out \in Digests /\ asset'[deriv'[e].out].reg /\ asset'[deriv'[e].out].src = deriv'[e].src
    <3>1. ASSUME NEW e \in Derivs, deriv'[e].state = "SUCCEEDED"
          PROVE  deriv'[e].out \in Digests /\ asset'[deriv'[e].out].reg /\ asset'[deriv'[e].out].src = deriv'[e].src
      <4>1. CASE e = d
        BY <1>3, <2>3, <2>4, <2>6, <4>1
      <4>2. CASE e # d
        BY <1>1, <2>4, <2>5, <3>1, <4>2, TraceKept
      <4> QED BY <4>1, <4>2
    <3> QED BY <3>1
  <2>8. ObjectsHonest'
    BY <1>1 DEF MediaSound, ObjectsHonest
  <2>9. MediaSound'
    BY <1>1, <2>4, <2>5, <2>7, <2>8 DEF MediaSound, DerivativeTraceable
  <2> QED BY <1>1, <2>9, MediaOnly
<1> QED BY <1>2, <1>4, <1>5 DEF RenderCommit

(* Groups, plans, pools and posts are not what the invariant speaks of.    *)
LEMMA LibraryQuiet ==
  ASSUME LibraryInv, UNCHANGED <<product, revisions, batched, content, asset, object, upload, deriv>>,
         \/ \E w \in Workers : End(w)
         \/ \E w \in Workers : AtOnce(w)
         \/ UNCHANGED req
  PROVE  LibraryInv'
BY ProductsOnly DEF LibraryInv, ProductsFollowed, ProductFollowed

LEMMA OtherReads ==
  ASSUME LibraryInv, NEW w \in Workers, NEW r, Begin(w, r), UNCHANGED libraryVars,
         r.op \notin {"CREATE", "REVISION", "PUT", "COMPLETE", "RENDER"}
  PROVE  LibraryInv'
BY LibraryReads DEF LibraryRequest

LEMMA CatalogReadInv ==
  ASSUME LibraryInv, NEW w \in Workers, UNCHANGED mediaVars,
         \/ \E k, s, x, ms : CreateRead(w, k, s, x, ms)
         \/ \E p : PlanRead(w, p)
         \/ \E S, x : BatchRead(w, "BATCH_PRICE", S, x) \/ BatchRead(w, "BATCH_DELETE", S, x)
         \/ \E g, S : BatchGroupRead(w, g, S)
         \/ \E k, S, b : ImportRead(w, k, S, b)
         \/ \E c : DispatchRead(w, c)
         \/ \E c \in ContentItems : \E g : AddRevisionRead(w, c, g)
  PROVE  LibraryInv'
<1>1. ASSUME NEW k, NEW s, NEW x, NEW ms, CreateRead(w, k, s, x, ms) PROVE LibraryInv'
  <2>1. PICK row : row = NewProduct(s, x, ms)
    OBVIOUS
  <2>2. PICK r : r = [op |-> "CREATE", key |-> k, row |-> row]
    OBVIOUS
  <2>3. Begin(w, r) /\ UNCHANGED libraryVars
    BY <1>1, <2>1, <2>2 DEF CreateRead, libraryVars
  <2>4. ProductRow(row) /\ row.status = "ACTIVE"
    BY <2>1 DEF NewProduct, ProductRow
  <2>5. r.op = "CREATE" /\ r.row = row
    BY <2>2
  <2>6. LibraryRequest(r)
    BY <2>4, <2>5 DEF LibraryRequest, CreateFits
  <2> QED BY <2>3, <2>6, LibraryReads
<1>2. ASSUME NEW p, PlanRead(w, p) PROVE LibraryInv'
  <2>1. PICK r : r = [op |-> "PLAN", product |-> p]
    OBVIOUS
  <2>2. Begin(w, r) /\ UNCHANGED libraryVars /\ r.op = "PLAN"
    BY <1>2, <2>1 DEF PlanRead, libraryVars
  <2> QED BY <2>2, OtherReads
<1>3. ASSUME NEW S, NEW x, NEW kind \in {"BATCH_PRICE", "BATCH_DELETE"}, BatchRead(w, kind, S, x) PROVE LibraryInv'
  <2>1. PICK r : r = [op |-> kind, rows |-> [p \in S |-> product[p]], price |-> x]
    OBVIOUS
  <2>2. Begin(w, r) /\ UNCHANGED libraryVars /\ r.op = kind
    BY <1>3, <2>1 DEF BatchRead, libraryVars
  <2> QED BY <2>2, OtherReads
<1>4. ASSUME NEW g, NEW S, BatchGroupRead(w, g, S) PROVE LibraryInv'
  <2>1. PICK r : r = [op |-> "BATCH_GROUP", group |-> g, prods |-> S, seen |-> {m \in pgroup : m[2] \in S}]
    OBVIOUS
  <2>2. Begin(w, r) /\ UNCHANGED libraryVars /\ r.op = "BATCH_GROUP"
    BY <1>4, <2>1 DEF BatchGroupRead, libraryVars
  <2> QED BY <2>2, OtherReads
<1>5. ASSUME NEW k, NEW S, NEW b, ImportRead(w, k, S, b) PROVE LibraryInv'
  <2>1. PICK r : r = [op |-> "IMPORT", key |-> k, grouped |-> b, spus |-> {s \in S : ~ SpuTaken(s)}]
    OBVIOUS
  <2>2. Begin(w, r) /\ UNCHANGED libraryVars /\ r.op = "IMPORT"
    BY <1>5, <2>1 DEF ImportRead, libraryVars
  <2> QED BY <2>2, OtherReads
<1>6. ASSUME NEW c, DispatchRead(w, c) PROVE LibraryInv'
  <2>1. PICK r : r = [op |-> "DISPATCH", content |-> c, no |-> Max(content[c].revs)]
    OBVIOUS
  <2>2. Begin(w, r) /\ UNCHANGED libraryVars /\ r.op = "DISPATCH"
    BY <1>6, <2>1 DEF DispatchRead, libraryVars
  <2> QED BY <2>2, OtherReads
<1>7. ASSUME NEW c \in ContentItems, NEW g, AddRevisionRead(w, c, g) PROVE LibraryInv'
  <2>1. PICK n : n = NextRevisionNo(c)
    OBVIOUS
  <2>2. PICK r : r = [op |-> "REVISION", content |-> c, no |-> n, group |-> g]
    OBVIOUS
  <2>3. Begin(w, r) /\ UNCHANGED libraryVars /\ content[c].status = "ACTIVE"
    BY <1>7, <2>1, <2>2 DEF AddRevisionRead, libraryVars
  <2>4. n \in Nat /\ n >= 1 /\ (n = 1 \/ n - 1 \in content[c].revs)
    BY <2>1, NextRevisionFollows DEF LibraryInv
  <2>5. r.op = "REVISION" /\ r.content = c /\ r.no = n
    BY <2>2
  <2>6. LibraryRequest(r)
    BY <2>3, <2>4, <2>5 DEF LibraryRequest, RevisionFits
  <2> QED BY <2>3, <2>6, LibraryReads
<1> QED BY <1>1, <1>2, <1>3, <1>4, <1>5, <1>6, <1>7

LEMMA CatalogStep ==
  ASSUME LibraryInv, CatalogNext(Assets), UNCHANGED mediaVars
  PROVE  LibraryInv'
<1>1. ASSUME NEW w \in Workers,
             CreateCommit(w) \/ BatchUpdatePrice(w) \/ BatchDelete(w) \/ ImportCommit(w) \/ AddRevisionCommit(w)
      PROVE  LibraryInv'
  BY <1>1, CreateCommitInv, BatchCommitInv, ImportCommitInv, AddRevisionCommitInv DEF BatchUpdatePrice, BatchDelete
<1>2. ASSUME NEW w \in Workers, NEW c, NEW g,
             \/ BatchGroupWrite(w) \/ PlanOpen(w) \/ DispatchCommit(w) \/ AddMember(w, c, g) \/ RemoveMember(w, c, g)
      PROVE  LibraryInv'
  <2>1. /\ UNCHANGED <<product, revisions, batched, content, asset, object, upload, deriv>> /\ (End(w) \/ AtOnce(w))
    BY <1>2 DEF BatchGroupWrite, PlanOpen, DispatchCommit, AddMember, RemoveMember, productVars, contentVars, mediaVars
  <2> QED BY <2>1, LibraryQuiet
<1>3. ASSUME NEW p, PlanClose(p) PROVE LibraryInv'
  <2>1. UNCHANGED <<product, revisions, batched, content, asset, object, upload, deriv>> /\ UNCHANGED req
    BY <1>3 DEF PlanClose, contentVars, mediaVars, reqVars
  <2> QED BY <2>1, LibraryQuiet
<1>4. ASSUME NEW w \in Workers, NEW p \in Products,
             \/ ArchiveProduct(w, p)
             \/ \E s, x, ms : UpdateProduct(w, p, product[p].rev, s, x, ms)
             \/ \E ms : UpdateProductMedia(w, p, product[p].rev, ms)
      PROVE  LibraryInv'
  BY <1>4, ArchiveProductInv, UpdateProductInv, UpdateProductMediaInv
<1>5. ASSUME NEW w \in Workers, NEW c \in ContentItems, ArchiveContent(w, c) \/ \E g : CreateContent(w, c, g) PROVE LibraryInv'
  BY <1>5, ArchiveContentInv, CreateContentInv
<1>6. ASSUME NEW w \in Workers, NEW S, NEW b, ImportProducts(w, S, b) \/ \E k : RunImport(w, k, S, b)
      PROVE  \E k : ImportRead(w, k, S, b)
  BY <1>6 DEF ImportProducts, RunImport
<1> QED BY <1>1, <1>2, <1>3, <1>4, <1>5, <1>6, CatalogReadInv DEF CatalogNext

LEMMA MediaReadInv ==
  ASSUME LibraryInv, NEW w \in Workers, UNCHANGED catalogVars,
         \/ \E u \in Uploads : \E d : StoreRead(w, u, d)
         \/ \E u \in Uploads : CompleteRead(w, u)
         \/ \E h, G : TaxonomyRead(w, h, G)
         \/ \E k, g, n : FreezeRead(w, k, g, n)
  PROVE  LibraryInv'
<1>1. ASSUME NEW u \in Uploads, NEW d, StoreRead(w, u, d) PROVE LibraryInv'
  <2>1. PICK r : r = [op |-> "PUT", upload |-> u, bytes |-> d]
    OBVIOUS
  <2>2. Begin(w, r) /\ UNCHANGED libraryVars /\ upload[u].state # "NONE" /\ upload[u].sha = d
    BY <1>1, <2>1 DEF StoreRead, Accepts, libraryVars
  <2>3. r.op = "PUT" /\ r.upload = u /\ r.bytes = d
    BY <2>1
  <2>4. LibraryRequest(r)
    BY <2>2, <2>3 DEF LibraryRequest, PutFits
  <2> QED BY <2>2, <2>4, LibraryReads
<1>2. ASSUME NEW u \in Uploads, CompleteRead(w, u) PROVE LibraryInv'
  <2>1. PICK good : good = (object[u] = upload[u].sha)
    OBVIOUS
  <2>2. PICK r : r = [op |-> "COMPLETE", upload |-> u, good |-> good]
    OBVIOUS
  <2>3. Begin(w, r) /\ UNCHANGED libraryVars /\ upload[u].state # "NONE"
    BY <1>2, <2>1, <2>2 DEF CompleteRead, libraryVars
  <2>4. r.op = "COMPLETE" /\ r.upload = u /\ r.good = good
    BY <2>2
  <2>5. r.good = TRUE => object[u] = upload[u].sha
    BY <2>1, <2>4
  <2>6. LibraryRequest(r)
    BY <2>3, <2>4, <2>5 DEF LibraryRequest, CompleteFits
  <2> QED BY <2>3, <2>6, LibraryReads
<1>3. ASSUME NEW h, NEW G, TaxonomyRead(w, h, G) PROVE LibraryInv'
  <2>1. PICK r : r = [op |-> "TAXONOMY", asset |-> h, groups |-> G, seen |-> {g \in MGroups : h \in mgroup[g].members}]
    OBVIOUS
  <2>2. Begin(w, r) /\ UNCHANGED libraryVars /\ r.op = "TAXONOMY"
    BY <1>3, <2>1 DEF TaxonomyRead, libraryVars
  <2> QED BY <2>2, OtherReads
<1>4. ASSUME NEW k, NEW g, NEW n, FreezeRead(w, k, g, n) PROVE LibraryInv'
  <2>1. PICK r : r = [op |-> "FREEZE", key |-> k, time |-> MaxRequests - left,
                      pick |-> CHOOSE S \in kSubset(n, mgroup[g].members) : TRUE]
    OBVIOUS
  <2>2. Begin(w, r) /\ UNCHANGED libraryVars /\ r.op = "FREEZE"
    BY <1>4, <2>1 DEF FreezeRead, libraryVars
  <2> QED BY <2>2, OtherReads
<1> QED BY <1>1, <1>2, <1>3, <1>4

LEMMA MediaStep ==
  ASSUME LibraryInv, MediaNext, UNCHANGED catalogVars
  PROVE  LibraryInv'
<1>1. ASSUME NEW w \in Workers, StorePut(w) PROVE LibraryInv'
  <2>1. PICK u : u = req[w].upload
    OBVIOUS
  <2>2. u \in Uploads /\ upload[u].state # "NONE" /\ req[w].bytes = upload[u].sha
    BY <1>1, <2>1 DEF StorePut, LibraryInv, LibraryRequest, PutFits
  <2>3. /\ End(w) /\ UNCHANGED <<product, revisions, batched, content, asset, upload, deriv>>
        /\ object' = [object EXCEPT ![u] = upload[u].sha]
    BY <1>1, <2>1, <2>2 DEF StorePut, catalogVars
  <2> QED BY <2>2, <2>3, PutInv
<1>2. ASSUME NEW u \in Uploads, PresignedPut(u) PROVE LibraryInv'
  <2>1. /\ UNCHANGED req /\ UNCHANGED <<product, revisions, batched, content, asset, upload, deriv>>
        /\ object' = [object EXCEPT ![u] = upload[u].sha]
    BY <1>2 DEF PresignedPut, catalogVars, reqVars
  <2>2. upload[u].state # "NONE"
    BY <1>2 DEF PresignedPut, LibraryInv, MediaSound, ObjectsHonest
  <2> QED BY <2>1, <2>2, PutInv
<1>3. ASSUME NEW w \in Workers, NEW g, TaxonomyCommit(w) \/ FreezeCommit(w) \/ CreateGroup(w, g) \/ DeleteGroup(w, g)
      PROVE  LibraryInv'
  <2>1. UNCHANGED <<product, revisions, batched, content, asset, object, upload, deriv>> /\ (End(w) \/ AtOnce(w))
    BY <1>3 DEF TaxonomyCommit, FreezeCommit, CreateGroup, DeleteGroup, catalogVars
  <2> QED BY <2>1, LibraryQuiet
<1>4. ASSUME NEW w \in Workers, CompleteCommit(w) \/ RenderCommit(w) PROVE LibraryInv'
  BY <1>4, CompleteCommitInv, RenderCommitInv
<1>5. ASSUME NEW w \in Workers, NEW h \in Digests,
             \/ \E src \in Sources : CreateMedia(w, h, src)
             \/ \E u \in Uploads, src \in Sources : InitiateUpload(w, u, h, src)
             \/ \E d \in Derivs : RequestDerivative(w, d, h)
             \/ RenderRead(w, h)
      PROVE  LibraryInv'
  BY <1>5, CreateMediaInv, InitiateUploadInv, RequestDerivativeInv, RenderReadInv
<1> QED BY <1>1, <1>2, <1>3, <1>4, <1>5, MediaReadInv, RecordResultInv, UploadExpiresInv DEF MediaNext

LEMMA LibraryStartRows ==
  ASSUME LibraryInit
  PROVE  ProductsFollowed /\ ContentNumbered /\ MediaSound
<1>1. ProductsFollowed
  <2>1. DOMAIN product = Products /\ DOMAIN revisions = Products
    BY DEF LibraryInit, CatalogInit
  <2>2. ASSUME NEW p \in Seeded PROVE ProductFollowed(p)
    <3>1. p \in Products
      BY CatalogAssumption
    <3>2. PICK x : x = CHOOSE y \in Prices : TRUE
      OBVIOUS
    <3>3. product[p] = NewProduct(SpuOf[p], x, {}) /\ revisions[p] = {<<1, Body(product[p])>>}
      BY <3>1, <3>2 DEF LibraryInit, CatalogInit
    <3>4. ProductRow(product[p]) /\ product[p].rev = 1 /\ product[p].status = "ACTIVE"
      BY <3>3 DEF NewProduct, ProductRow
    <3> QED BY <3>3, <3>4 DEF ProductFollowed
  <2>3. ASSUME NEW p \in Products \ Seeded PROVE ProductFollowed(p)
    <3>1. product[p] = NoProduct /\ revisions[p] = {}
      BY DEF LibraryInit, CatalogInit
    <3>2. PICK s, x : s = (CHOOSE y \in Spus : TRUE) /\ x = (CHOOSE y \in Prices : TRUE)
      OBVIOUS
    <3>3. NoProduct = [status |-> "NONE", spu |-> s, price |-> x, media |-> {}, rev |-> 0]
      BY <3>2 DEF NoProduct
    <3>4. ProductRow(NoProduct)
      BY <3>3 DEF ProductRow
    <3> QED BY <3>1, <3>4 DEF ProductFollowed, ProductRow
  <2> QED BY <2>1, <2>2, <2>3 DEF ProductsFollowed
<1>2. ContentNumbered
  <2>1. content = [c \in ContentItems |-> [status |-> "NONE", revs |-> {}]]
    BY DEF LibraryInit, CatalogInit
  <2>2. {} = 1 .. 0
    OBVIOUS
  <2> QED BY <2>1, <2>2 DEF ContentNumbered, ContentRows
<1>3. MediaSound
  <2>1. asset \in [Digests -> AssetRows] /\ upload \in [Uploads -> UploadRows] /\ deriv \in [Derivs -> DerivRows]
    BY DEF LibraryInit, MediaInit, NoAsset, AssetRows, UploadRows, DerivRows
  <2>2. DOMAIN object = Uploads \cup Digests /\ ObjectsHonest
    BY DEF LibraryInit, MediaInit, ObjectsHonest
  <2>3. AssetBytesMatch /\ \A d \in Derivs : deriv[d].state # "SUCCEEDED"
    BY DEF LibraryInit, MediaInit, NoAsset, AssetBytesMatch
  <2> QED BY <2>1, <2>2, <2>3 DEF MediaSound, DerivativeTraceable
<1> QED BY <1>1, <1>2, <1>3

LEMMA LibraryStart ==
  ASSUME LibraryInit, DOMAIN req = Workers, \A w \in Workers : req[w] = Idle
  PROVE  LibraryInv
BY LibraryStartRows DEF LibraryInv, LibraryRequest, Idle

LEMMA LibraryHolds ==
  ASSUME ProductsFollowed, ContentNumbered, MediaSound
  PROVE  LibraryTruthful
<1>1. RevisionNamesContent
  BY DEF RevisionNamesContent, ProductsFollowed, ProductFollowed
<1>2. RevisionsContiguous
  <2>1. ASSUME NEW c \in ContentItems PROVE content[c].revs = 1 .. Cardinality(content[c].revs)
    <3>1. PICK n \in Nat : content[c].revs = 1 .. n
      BY DEF ContentNumbered
    <3>2. Cardinality(1 .. n) = n
      BY <3>1, FS_Interval
    <3> QED BY <3>1, <3>2
  <2> QED BY <2>1 DEF RevisionsContiguous
<1> QED BY <1>1, <1>2 DEF LibraryTruthful, MediaSound

\* A product under the revision lock has one content per revision, content
\* revisions have no gap, an asset's object holds its bytes and a derivative
\* leads to its source: for any rows, keys, digests and workers.
THEOREM LibraryTruthfulCorrect == Spec => []LibraryTruthful
<1>1. Init => FleetLibrary
  BY LibraryStart DEF Init, FleetLibrary
<1>2. ASSUME FleetLibrary, [Next]_vars PROVE FleetLibrary'
  <2>1. CASE service = "library" /\ Next
    BY <1>2, <2>1, CatalogStep, MediaStep DEF FleetLibrary, Next, LibraryNext
  <2>2. CASE service # "library" /\ Next
    BY <1>2, <2>2 DEF FleetLibrary, Next, libraryVars, catalogVars, mediaVars, LibraryInit, CatalogInit, MediaInit
  <2>3. CASE UNCHANGED vars
    <3>1. UNCHANGED <<service, req, libraryVars>>
      BY <2>3 DEF vars, rows, reqVars
    <3>2. LibraryInv => LibraryInv'
      BY <3>1, LibraryQuiet DEF libraryVars, catalogVars, mediaVars
    <3> QED BY <1>2, <3>1, <3>2 DEF FleetLibrary, libraryVars, catalogVars, mediaVars, LibraryInit, CatalogInit, MediaInit
  <2> QED BY <1>2, <2>1, <2>2, <2>3
<1>3. FleetLibrary => LibraryTruthful
  BY LibraryStartRows, LibraryHolds DEF FleetLibrary, LibraryInv
<1> QED BY <1>1, <1>2, <1>3, PTL DEF Spec
=============================================================================
