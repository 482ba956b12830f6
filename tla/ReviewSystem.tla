----------------------------- MODULE ReviewSystem -----------------------------
(***************************************************************************)
(* Reviewers working through the review UI against the ERP's approval      *)
(* gate (review_ui/app.py and review_ui/client.py over module Approval).   *)
(*                                                                         *)
(* A desk is one reviewer's browser and the UI replica that serves it.     *)
(* The replicas hold no state and know nothing of each other.  A replica   *)
(* handles one form at a time (an `async def` route calling a blocking     *)
(* HTTP client), in steps the other desks interleave with: the guard reads *)
(* the proposal, the POST is sent, the ERP handles it, the answer comes    *)
(* back.  A request or an answer may be lost, a request may reach the ERP  *)
(* long after the UI gave up waiting for it, and the approvals database    *)
(* may be deleted with the ERP down, after which proposal numbers start    *)
(* over.                                                                   *)
(***************************************************************************)
EXTENDS Approval

CONSTANTS
    Desks,               \* reviewers' desks; their names are the reviewer names
    DefaultReviewer,     \* config.default_reviewer, recorded by every rejection
    MaxClicks,           \* bound: forms submitted from each desk
    MaxResets,           \* bound: deletions of the approvals database
    ResetMidHandler      \* whether one may fall between a guard and its POST

ASSUME ReviewAssumption ==
    /\ Desks \cup {DefaultReviewer} \subseteq Reviewers
    /\ MaxClicks \in Nat /\ MaxResets \in Nat /\ ResetMidHandler \in BOOLEAN

VARIABLES
    page,        \* per desk: the detail page in the browser
    call,        \* per desk: the form being handled by the replica
    clicks,      \* per desk: forms submitted so far; numbers the calls
    inflight,    \* POSTs on their way to the ERP
    answers,     \* answers on their way back
    banner,      \* per desk: what the reviewer was told last
    resets       \* deletions of the database so far

deskVars   == <<page, call, clicks, banner>>
wireVars   == <<inflight, answers>>
reviewVars == <<vars, deskVars, wireVars, resets>>

NoPage   == [blank |-> TRUE]
Idle     == [at |-> "idle"]
NoBanner == [kind |-> "none"]
Routes   == {"approve", "reject", "apply"}

ActionsForStatus(status) == CASE status = "PROPOSED" -> {"approve", "reject"}
                              [] status = "APPROVED" -> {"apply"}
                              [] OTHER -> {}

(* _back: the redirect tells the reviewer how the form ended. *)
Tell(d, kind, code) ==
    /\ call' = [call EXCEPT ![d] = Idle]
    /\ banner' = [banner EXCEPT ![d] = [kind |-> kind, code |-> code, id |-> call[d].id,
                                        database |-> resets]]

-----------------------------------------------------------------------------
(* The browser.                                                              *)

(* GET /proposals/{id}: the page shows the payload, carries its hash in each *)
(* form, and offers the buttons of the status it read.                       *)
Draw(d, id) ==
    /\ call[d] = Idle
    /\ page' = [page EXCEPT ![d] = [id |-> id, shown |-> proposals[id].payload,
                                    payload_hash |-> proposals[id].payload_hash,
                                    actions |-> ActionsForStatus(proposals[id].status)]]
    /\ UNCHANGED <<vars, call, clicks, banner, wireVars, resets>>

(* A form is submitted; the page stays in the browser and can be used again. *)
Click(d, route) ==
    /\ call[d] = Idle /\ page[d] # NoPage /\ route \in page[d].actions
    /\ clicks[d] < MaxClicks
    /\ clicks' = [clicks EXCEPT ![d] = @ + 1]
    /\ call' = [call EXCEPT ![d] = [at |-> "guard", route |-> route, id |-> page[d].id,
                                    payload_hash |-> page[d].payload_hash,
                                    shown |-> page[d].shown]]
    /\ banner' = [banner EXCEPT ![d] = NoBanner]
    /\ UNCHANGED <<vars, page, wireVars, resets>>

-----------------------------------------------------------------------------
(* The replica.                                                              *)

(* _guard: the proposal is read again and must have the hash of the page.    *)
(* What is applied later is the payload read here.                           *)
GuardByNumber(d) ==                     \* a slip: the hash is not compared
    /\ call[d].at = "guard"
    /\ call[d].id \in Ids
    /\ call' = [call EXCEPT ![d] = [at |-> "send", route |-> @.route, id |-> @.id,
                                    payload |-> proposals[@.id].payload, shown |-> @.shown]]
    /\ UNCHANGED <<vars, page, banner, clicks, wireVars, resets>>
Guard(d) ==
    /\ call[d].at = "guard"
    /\ LET id == call[d].id IN
       \/ /\ id \in Ids /\ proposals[id].payload_hash = call[d].payload_hash
          /\ call' = [call EXCEPT ![d] = [at |-> "send", route |-> @.route, id |-> id,
                                          payload |-> proposals[id].payload,
                                          shown |-> @.shown]]
          /\ UNCHANGED banner
       \/ id \in Ids /\ proposals[id].payload_hash # call[d].payload_hash
             /\ Tell(d, "error", "STALE_PAGE")
       \/ id \notin Ids /\ Tell(d, "error", "PROPOSAL_NOT_FOUND")
    /\ UNCHANGED <<vars, page, clicks, wireVars, resets>>

(* The guard's GET fails or times out. *)
GuardUnreachable(d) ==
    /\ call[d].at = "guard"
    /\ Tell(d, "error", "ERP_UNREACHABLE")
    /\ UNCHANGED <<vars, page, clicks, wireVars, resets>>

Send(d) ==
    /\ call[d].at = "send"
    /\ inflight' = inflight \cup {[desk |-> d, number |-> clicks[d], route |-> call[d].route,
                                   id |-> call[d].id, payload |-> call[d].payload,
                                   shown |-> call[d].shown]}
    /\ call' = [call EXCEPT ![d] = [at |-> "waiting", route |-> @.route, id |-> @.id]]
    /\ UNCHANGED <<vars, page, clicks, banner, answers, resets>>

Awaited(a) == call[a.desk].at = "waiting" /\ a.number = clicks[a.desk]

ReceiveAsDone(d) ==                     \* a slip: a refusal is taken for a success
    /\ call[d].at = "waiting"
    /\ \E a \in answers :
        /\ a.desk = d /\ Awaited(a)
        /\ Tell(d, CASE call[d].route = "approve" -> "APPROVED"
                     [] call[d].route = "reject"  -> "REJECTED"
                     [] call[d].route = "apply"   -> "APPLIED", a.outcome)
        /\ answers' = answers \ {a}
    /\ UNCHANGED <<vars, page, clicks, inflight, resets>>
Receive(d) ==
    /\ call[d].at = "waiting"
    /\ \E a \in answers :
        /\ a.desk = d /\ Awaited(a)
        /\ Tell(d, IF a.outcome \in {"APPROVED", "REJECTED"} THEN a.outcome
                   ELSE IF a.outcome \in {"APPLIED", "ALREADY_APPLIED"} THEN "APPLIED"
                   ELSE "error", a.outcome)
        /\ answers' = answers \ {a}
    /\ UNCHANGED <<vars, page, clicks, inflight, resets>>

(* The client's timeout: the answer is late or lost, the POST may still come *)
(* to be handled.                                                            *)
GiveUpUnsent(d) ==                      \* a slip: a sent request is waited for for ever
    /\ call[d].at = "waiting"
    /\ \E r \in inflight : r.desk = d /\ r.number = clicks[d]
    /\ Tell(d, "error", "ERP_UNREACHABLE")
    /\ UNCHANGED <<vars, page, clicks, wireVars, resets>>
GiveUpLoosely(d) ==                     \* a slip: the answer is left for the next call
    /\ call[d].at = "waiting"
    /\ Tell(d, "error", "ERP_UNREACHABLE")
    /\ UNCHANGED <<vars, page, clicks, wireVars, resets>>
GiveUp(d) ==
    /\ call[d].at = "waiting"
    /\ Tell(d, "error", "ERP_UNREACHABLE")
    /\ answers' = {a \in answers : a.desk # d}
    /\ UNCHANGED <<vars, page, clicks, inflight, resets>>

-----------------------------------------------------------------------------
(* The ERP.                                                                  *)

OutcomeOf(r) == CASE r.route = "approve" -> VerdictOutcome(r.id, "APPROVE")
                  [] r.route = "reject"  -> VerdictOutcome(r.id, "REJECT")
                  [] r.route = "apply"   -> ApplyOutcome(r.id, r.payload)

(* The ERP handles a POST whole; nobody may be waiting for its answer any    *)
(* more.  Of the clock only the order of its readings matters.               *)
Handle(r) ==
    /\ \/ r.route = "approve" /\ Approve(r.id, r.desk)
       \/ r.route = "reject"  /\ Reject(r.id, DefaultReviewer)
       \/ r.route = "apply"   /\ Apply(r.id, r.payload, Cardinality(amendments) + 1)
       \/ OutcomeOf(r) \notin {"APPROVED", "REJECTED", "APPLIED"} /\ UNCHANGED vars
    /\ inflight' = inflight \ {r}
    /\ answers' = answers \cup {a \in {[desk |-> r.desk, number |-> r.number,
                                       outcome |-> OutcomeOf(r)]} : Awaited(a)}
    /\ UNCHANGED <<deskVars, resets>>

Lose(r) ==
    /\ inflight' = inflight \ {r}
    /\ UNCHANGED <<vars, deskVars, answers, resets>>

(* Somebody, usually the agent, raises a proposal. *)
Raise(r) == Propose(r) /\ UNCHANGED <<deskVars, wireVars, resets>>

(* The ERP is stopped, approvals.sqlite3 deleted, and the ERP started again. *)
(* What had reached it is lost with its connections.                         *)
Reset ==
    /\ resets < MaxResets
    /\ ResetMidHandler \/ \A d \in Desks : call[d].at # "send"
    /\ resets' = resets + 1
    /\ proposals' = <<>> /\ amendments' = {}
    /\ inflight' = {} /\ answers' = {}
    /\ UNCHANGED deskVars

-----------------------------------------------------------------------------
ReviewInit ==
    /\ Init
    /\ page = [d \in Desks |-> NoPage] /\ call = [d \in Desks |-> Idle]
    /\ clicks = [d \in Desks |-> 0] /\ banner = [d \in Desks |-> NoBanner]
    /\ inflight = {} /\ answers = {} /\ resets = 0

ReviewNext ==
    \/ \E r \in Requests : Raise(r)
    \/ \E d \in Desks : \/ \E id \in Ids : Draw(d, id)
                        \/ \E route \in Routes : Click(d, route)
                        \/ Guard(d) \/ GuardUnreachable(d) \/ Send(d)
                        \/ Receive(d) \/ GiveUp(d)
    \/ \E r \in inflight : Handle(r) \/ Lose(r)
    \/ Reset

(* A replica's handler runs on, and its HTTP client gives up after           *)
(* request_timeout: both are the UI process alone.  Nothing is assumed of    *)
(* the network, the ERP or the reviewers.                                    *)
ReviewFairness == \A d \in Desks : /\ WF_reviewVars(Guard(d) \/ GuardUnreachable(d))
                                   /\ WF_reviewVars(Send(d))
                                   /\ WF_reviewVars(Receive(d) \/ GiveUp(d))

ReviewSpec == ReviewInit /\ [][ReviewNext]_reviewVars /\ ReviewFairness

-----------------------------------------------------------------------------
(* Properties.                                                               *)

(* Types of the UI's state, and what ties it together: a desk waits only for *)
(* the call it numbered last, and no answer outlives the wait for it.        *)
ReviewTypeOK ==
    /\ TypeOK
    /\ \A d \in Desks : /\ call[d].at \in {"idle", "guard", "send", "waiting"}
                        /\ clicks[d] \in 0..MaxClicks
                        /\ banner[d].kind \in {"none", "error", "APPROVED", "REJECTED", "APPLIED"}
    /\ \A r \in inflight : r.desk \in Desks /\ r.number \in 1..clicks[r.desk]
    /\ \A a \in answers : Awaited(a)

(* A proposal becomes APPROVED only by a form drawn from a page that showed  *)
(* the very payload it has ("you approved what you were shown").             *)
ApprovedWhatWasShown ==
    [][\A id \in Ids \cap Ids' :
         proposals'[id].status = "APPROVED" /\ proposals[id].status = "PROPOSED" =>
             \E r \in inflight \ inflight' : /\ r.route = "approve" /\ r.id = id
                                             /\ r.shown = proposals[id].payload
      ]_<<proposals, amendments>>

(* What a reviewer is told stays true, whatever the other desks and the late *)
(* requests do, as long as the database is the same one: an approval stands, *)
(* a rejected proposal never touches its invoice, and an applied one has its *)
(* amendment stored.                                                         *)
BannerIsTrue ==
    \A d \in Desks : LET b == banner[d] IN
        b.kind \in {"APPROVED", "REJECTED", "APPLIED"} /\ b.database = resets =>
            LET stored == \E a \in amendments : a.proposal_id = b.id IN
            /\ b.id \in Ids
            /\ b.kind = "APPROVED" => proposals[b.id].status \in {"APPROVED", "APPLIED"}
            /\ b.kind = "REJECTED" => proposals[b.id].status = "REJECTED" /\ ~stored
            /\ b.kind = "APPLIED"  => proposals[b.id].status = "APPLIED" /\ stored

(* No replica stays blocked: every submitted form ends in a redirect, though *)
(* requests and answers are lost and the ERP may never answer.               *)
EveryFormEnds == \A d \in Desks : call[d].at # "idle" ~> call[d].at = "idle"

=============================================================================
