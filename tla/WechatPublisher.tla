--------------------------- MODULE WechatPublisher ---------------------------
(***************************************************************************)
(* The WeChat Official Account publisher (wechat_service.py): an article   *)
(* becomes a draft, a draft is authorized once, an authorization is        *)
(* submitted once, and only an answer of freepublish/get settles it.       *)
(* draft/add, freepublish/submit, freepublish/get and the access token are *)
(* calls over the network made between two transactions, so other workers  *)
(* commit while one waits and the process may die there.                   *)
(***************************************************************************)
EXTENDS ApiRequests

CONSTANT Drafts          \* idempotency keys of drafts, one per article

VARIABLES draft,         \* draft[d]: status of the wechat_draft row
          pub,           \* pub[d]: the wechat_publish row of the draft
          official       \* official[d]: what the platform did with it

wechatVars == <<draft, pub, official>>

DraftStates == {"NONE", "PENDING", "READY", "UNKNOWN", "FAILED"}
PubStates == {"NONE", "INTENT", "SUBMITTING", "SUBMITTED", "UNKNOWN",
              "PUBLISHED", "FAILED"}
OfficialStates == {"NONE", "ACCEPTED", "PUBLISHED", "REJECTED", "REMOVED"}

WechatInit ==
    /\ draft = [d \in Drafts |-> "NONE"]
    /\ pub = [d \in Drafts |-> [status |-> "NONE", tries |-> 0, id |-> FALSE]]
    /\ official = [d \in Drafts |-> [calls |-> 0, state |-> "NONE"]]

SetPub(d, s) == pub' = [pub EXCEPT ![d].status = s]

(* create_draft(): the row is committed before draft/add is called; a      *)
(* repeated key returns the row and calls nothing.                         *)
CreateDraft(w, d) ==
    /\ draft[d] = "NONE"
    /\ Begin(w, [op |-> "ADD", d |-> d])
    /\ draft' = [draft EXCEPT ![d] = "PENDING"]
    /\ UNCHANGED <<pub, official>>

(* _push_draft() and the transaction after it: media id, official refusal, *)
(* or a transport failure that leaves the outcome open.                    *)
FinishDraft(w) ==
    /\ req[w].op = "ADD"
    /\ \E s \in {"READY", "FAILED", "UNKNOWN"} :
          draft' = [draft EXCEPT ![req[w].d] = s]
    /\ End(w)
    /\ UNCHANGED <<pub, official>>

(* authorize_publish(): the draft row is locked; draft_id is unique.       *)
Authorize(w, d) ==
    /\ AtOnce(w)
    /\ draft[d] = "READY" /\ pub[d].status = "NONE"
    /\ SetPub(d, "INTENT")
    /\ UNCHANGED <<draft, official>>

(* The test submit() makes under the row lock, before and again after the  *)
(* access token was fetched.                                               *)
(* Mutant: only the first of the two tests looks at the attempt.           *)
AwaitingSubmitStatusOnly(d) == draft[d] = "READY" /\ pub[d].status # "NONE"
AwaitingSubmit(d) ==
    draft[d] = "READY" /\ pub[d].tries = 0 /\ pub[d].status = "INTENT"

SubmitCheck(w, d) ==
    /\ AwaitingSubmit(d)
    /\ Begin(w, [op |-> "TOKEN", d |-> d])
    /\ UNCHANGED wechatVars

(* The token was refused: nothing was submitted by this request.           *)
TokenRejected(w) ==
    /\ req[w].op = "TOKEN"
    /\ IF AwaitingSubmit(req[w].d) THEN SetPub(req[w].d, "FAILED")
                                   ELSE UNCHANGED pub
    /\ End(w)
    /\ UNCHANGED <<draft, official>>

(* The single attempt is spent before freepublish/submit is called.        *)
Spend(w) ==
    /\ req[w].op = "TOKEN"
    /\ IF AwaitingSubmit(req[w].d)
       THEN /\ pub' = [pub EXCEPT ![req[w].d].tries = 1,
                                  ![req[w].d].status = "SUBMITTING"]
            /\ req' = [req EXCEPT ![w] = [op |-> "CALL", d |-> req[w].d]]
            /\ UNCHANGED left
       ELSE End(w) /\ UNCHANGED pub
    /\ UNCHANGED <<draft, official>>

(* freepublish/submit: the platform accepts or refuses, and its answer may *)
(* be lost either way.                                                     *)
CallSubmit(w) ==
    /\ req[w].op = "CALL"
    /\ \E took, heard \in BOOLEAN :
          /\ official' = [official EXCEPT
                ![req[w].d].calls = @ + 1,
                ![req[w].d].state = IF took /\ @ = "NONE" THEN "ACCEPTED" ELSE @]
          /\ req' = [req EXCEPT ![w] =
                [op |-> "SETTLE", d |-> req[w].d,
                 status |-> IF ~heard THEN "UNKNOWN"
                            ELSE IF took THEN "SUBMITTED" ELSE "FAILED"]]
    /\ UNCHANGED <<left, draft, pub>>

SettleSubmit(w) ==
    /\ req[w].op = "SETTLE"
    /\ pub' = [pub EXCEPT ![req[w].d].status = req[w].status,
                          ![req[w].d].id = @ \/ req[w].status = "SUBMITTED"]
    /\ End(w)
    /\ UNCHANGED <<draft, official>>

(* poll(): only a row with an official publish id can be asked about.      *)
Reconcilable(d) == pub[d].status \in {"SUBMITTED", "UNKNOWN"} /\ pub[d].id

PollCheck(w, d) ==
    /\ Reconcilable(d)
    /\ Begin(w, [op |-> "POLL", d |-> d])
    /\ UNCHANGED wechatVars

(* freepublish/get: status 1 while the platform works on it, 0, or 2..6.   *)
PollRead(w) ==
    /\ req[w].op = "POLL"
    /\ req' = [req EXCEPT ![w] = [op |-> "POLLED", d |-> req[w].d,
                                  saw |-> official[req[w].d].state]]
    /\ UNCHANGED <<left, wechatVars>>

(* The answer is applied to a row that still waits for it.                 *)
PollVerdict(d, saw) ==
    IF pub[d].status \notin {"SUBMITTED", "UNKNOWN"} THEN pub[d].status
    ELSE CASE saw = "PUBLISHED" -> "PUBLISHED"
           [] saw \in {"REJECTED", "REMOVED"} -> "FAILED"
           [] OTHER -> pub[d].status

PollCommit(w) ==
    /\ req[w].op = "POLLED"
    /\ SetPub(req[w].d, PollVerdict(req[w].d, req[w].saw))
    /\ End(w)
    /\ UNCHANGED <<draft, official>>

(* A call fails in transport and the request is refused, or the process    *)
(* dies: what was committed stays, the rest is rolled back.                *)
WechatAbandon(w) ==
    /\ req[w].op \in {"ADD", "TOKEN", "CALL", "SETTLE", "POLL", "POLLED"}
    /\ End(w)
    /\ UNCHANGED wechatVars

(* The platform decides about an accepted article, and may remove it later.*)
OfficialMoves(d) ==
    /\ \E s \in OfficialStates :
          /\ <<official[d].state, s>> \in
                {<<"ACCEPTED", "PUBLISHED">>, <<"ACCEPTED", "REJECTED">>,
                 <<"PUBLISHED", "REMOVED">>}
          /\ official' = [official EXCEPT ![d].state = s]
    /\ UNCHANGED <<reqVars, draft, pub>>

WechatNext ==
    \/ \E w \in Workers :
          \/ \E d \in Drafts : \/ CreateDraft(w, d) \/ Authorize(w, d)
                               \/ SubmitCheck(w, d) \/ PollCheck(w, d)
          \/ FinishDraft(w) \/ TokenRejected(w) \/ Spend(w) \/ CallSubmit(w)
          \/ SettleSubmit(w) \/ PollRead(w) \/ PollCommit(w) \/ WechatAbandon(w)
    \/ \E d \in Drafts : OfficialMoves(d)

-----------------------------------------------------------------------------
(* freepublish/submit is called at most once for a draft, whatever submits *)
(* overlap or die while the token is fetched, and a terminal row tells the *)
(* truth: PUBLISHED only after the platform published it, FAILED only for  *)
(* an article that is not (or no longer) with the platform.                *)
SubmittedOnce ==
    \A d \in Drafts :
       /\ official[d].calls <= 1
       /\ pub[d].status = "PUBLISHED" => official[d].state \in {"PUBLISHED", "REMOVED"}
       /\ pub[d].status = "FAILED" => official[d].state \notin {"ACCEPTED", "PUBLISHED"}
=============================================================================
