----------------------------- MODULE ReviewProofs -----------------------------
(***************************************************************************)
(* Theorems about the review UI, for any number of desks, proposals,       *)
(* forms, lost and late requests, and deletions of the database.           *)
(***************************************************************************)
EXTENDS ReviewSystem, ReviewPage, ApprovalProofs

(* What an answer or a banner says of a proposal. *)
Done == {"APPROVED", "REJECTED", "APPLIED"}
KindOf(outcome) ==
    IF outcome \in {"APPROVED", "REJECTED"} THEN outcome
    ELSE IF outcome \in {"APPLIED", "ALREADY_APPLIED"} THEN "APPLIED" ELSE "error"

Holds(kind, id) ==
    /\ id \in Ids
    /\ kind = "APPROVED" => proposals[id].status \in {"APPROVED", "APPLIED"}
    /\ kind \in {"REJECTED", "APPLIED"} => proposals[id].status = kind

-----------------------------------------------------------------------------
(* The invariant.                                                            *)

ErpInv == GateInv /\ IsFiniteSet(amendments)

(* A page and the form being handled carry the hash of what was shown.       *)
DeskInv ==
    /\ DOMAIN page = Desks /\ DOMAIN call = Desks
    /\ DOMAIN clicks = Desks /\ DOMAIN banner = Desks
    /\ \A d \in Desks :
        /\ clicks[d] \in 0..MaxClicks
        /\ call[d].at \in {"idle", "guard", "send", "waiting"}
        /\ call[d].at # "idle" => call[d].route \in Routes /\ clicks[d] > 0
        /\ page[d] # NoPage => page[d].payload_hash = PayloadHash(page[d].shown)
        /\ call[d].at = "guard" => call[d].payload_hash = PayloadHash(call[d].shown)

(* A desk has at most one request or answer under way for its last form, and *)
(* an answer is true of the proposal the desk waits for.                     *)
RequestsInv ==
    /\ \A r \in inflight :
        /\ r.desk \in Desks /\ r.route \in Routes /\ r.number \in 1..clicks[r.desk]
        /\ r.number = clicks[r.desk] =>
               /\ call[r.desk].at \in {"idle", "waiting"}
               /\ call[r.desk].at = "waiting" => call[r.desk].id = r.id
    /\ \A r, q \in inflight : r.desk = q.desk /\ r.number = q.number => r = q

AnswersInv ==
    /\ \A a \in answers :
        /\ a.desk \in Desks /\ Awaited(a)
        /\ KindOf(a.outcome) \in Done => Holds(KindOf(a.outcome), call[a.desk].id)
    /\ \A a, b \in answers : a.desk = b.desk => a = b
    /\ \A a \in answers, r \in inflight : a.desk = r.desk => r.number # a.number

BannerInv ==
    /\ resets \in Nat
    /\ \A d \in Desks :
        /\ banner[d].kind \in Done \cup {"none", "error"}
        /\ banner[d].kind \in Done =>
               /\ banner[d].database \in 0..resets
               /\ banner[d].database = resets => Holds(banner[d].kind, banner[d].id)

(* Once the guard has passed, what was shown is what the proposal has.       *)
ShownInv ==
    ~ResetMidHandler =>
        /\ \A d \in Desks : call[d].at = "send" =>
               call[d].id \in Ids /\ call[d].shown = proposals[call[d].id].payload
        /\ \A r \in inflight : r.id \in Ids /\ r.shown = proposals[r.id].payload

ReviewInv == ErpInv /\ DeskInv /\ RequestsInv /\ AnswersInv /\ BannerInv /\ ShownInv

-----------------------------------------------------------------------------
(* The ERP's part in a step: its invariant is kept, and what holds of a      *)
(* proposal goes on holding.                                                 *)

Onward ==
    /\ \A kind, id : Holds(kind, id) => Holds(kind, id)'
    /\ \A id \in Ids : id \in Ids' /\ proposals'[id].payload = proposals[id].payload

LEMMA VerdictsStand ==
    ASSUME TypeOK, TypeOK', VerdictStep
    PROVE  Onward
<1>1. /\ Ids = 1..Len(proposals) /\ Ids' = 1..Len(proposals')
      /\ Len(proposals) \in Nat /\ Len(proposals') \in Nat
  BY LenProperties DEF TypeOK, Ids
<1>2. \A id \in Ids : id \in Ids' /\ RowMovesOn(proposals[id], proposals'[id])
  BY <1>1 DEF VerdictStep
<1>3. \A id \in Ids : proposals'[id].payload = proposals[id].payload
  BY <1>2 DEF RowMovesOn
<1>4. ASSUME NEW kind, NEW id, Holds(kind, id) PROVE Holds(kind, id)'
  <2>1. id \in Ids /\ id \in Ids' /\ RowMovesOn(proposals[id], proposals'[id])
    BY <1>2, <1>4 DEF Holds
  <2> QED
    BY <1>4, <2>1 DEF Holds, RowMovesOn
<1> QED
  BY <1>2, <1>3, <1>4 DEF Onward

LEMMA NothingHandled ==
    ASSUME ErpInv, UNCHANGED vars
    PROVE  ErpInv' /\ Onward
<1>1. proposals' = proposals /\ amendments' = amendments
  BY DEF vars
<1>2. GateInv'
  BY <1>1 DEF ErpInv, GateInv, TypeOK, RowsCoherent, OnlyApprovedIsStored, BackedByApproval,
              AppliedExactlyOnce, Ids
<1> QED
  BY <1>1, <1>2 DEF ErpInv, Onward, Holds, Ids

LEMMA ProposalRaised ==
    ASSUME ErpInv, NEW r \in Requests, Propose(r)
    PROVE  ErpInv' /\ Onward
<1>1. PICK row \in Proposal : proposals' = Append(proposals, row)
  BY ProposedRow DEF ErpInv, GateInv
<1>2. /\ proposals' \in Seq(Proposal)
      /\ Len(proposals) \in Nat /\ Len(proposals') = Len(proposals) + 1
      /\ \A j \in Ids : proposals'[j] = proposals[j]
  BY <1>1, RowAppended DEF ErpInv, GateInv
<1>3. TypeOK'
  BY <1>2 DEF ErpInv, GateInv, TypeOK, Propose
<1>4. \A j \in Ids : proposals[j] \in Proposal
  BY DEF ErpInv, GateInv, TypeOK, Ids
<1>5. VerdictStep
  BY <1>2, <1>4, RowStays DEF VerdictStep
<1>6. GateInv' /\ amendments' = amendments
  BY <1>3, ProposeKeepsInv DEF ErpInv, Propose
<1> QED
  BY <1>3, <1>5, <1>6, VerdictsStand DEF ErpInv, GateInv

LEMMA ApprovalHandled ==
    ASSUME ErpInv, NEW id \in Ids, NEW who \in Reviewers, Approve(id, who)
    PROVE  ErpInv' /\ Onward /\ proposals'[id].status = "APPROVED"
<1>1. PICK row \in Proposal :
          /\ proposals' = [proposals EXCEPT ![id] = row]
          /\ row = [proposals[id] EXCEPT !.status = "APPROVED", !.approved_by = who,
                            !.approved_hash = proposals[id].payload_hash]
          /\ proposals[id] \in Proposal /\ proposals[id].status = "PROPOSED"
  BY ApprovedRow DEF ErpInv, GateInv
<1>2. /\ row.status = "APPROVED" /\ row.payload = proposals[id].payload
      /\ row.payload_hash = proposals[id].payload_hash
      /\ row.invoice_number = proposals[id].invoice_number
      /\ row.approved_by = who /\ row.approved_hash = row.payload_hash
      /\ row.rejected_by = proposals[id].rejected_by
  BY <1>1 DEF Proposal
<1>3. row.rejected_by = Nobody /\ amendments' = amendments
  BY <1>1, <1>2 DEF ErpInv, GateInv, RowsCoherent, Approve
<1>4. GateInv'
  BY <1>1, <1>2, <1>3, VerdictKeepsInv DEF ErpInv
<1>5. VerdictStep
  BY <1>1, <1>2, ReplacementMovesOn DEF RowMovesOn, ErpInv, GateInv
<1>6. proposals'[id] = row
  BY <1>1, RowReplaced DEF ErpInv, GateInv
<1> QED
  BY <1>2, <1>3, <1>4, <1>5, <1>6, VerdictsStand DEF ErpInv, GateInv

LEMMA RejectionHandled ==
    ASSUME ErpInv, NEW id \in Ids, NEW who \in Reviewers, Reject(id, who)
    PROVE  ErpInv' /\ Onward /\ proposals'[id].status = "REJECTED"
<1>1. PICK row \in Proposal :
          /\ proposals' = [proposals EXCEPT ![id] = row]
          /\ row = [proposals[id] EXCEPT !.status = "REJECTED", !.rejected_by = who]
          /\ proposals[id] \in Proposal /\ proposals[id].status = "PROPOSED"
  BY RejectedRow DEF ErpInv, GateInv
<1>2. /\ row.status = "REJECTED" /\ row.payload = proposals[id].payload
      /\ row.payload_hash = proposals[id].payload_hash
      /\ row.invoice_number = proposals[id].invoice_number
  BY <1>1 DEF Proposal
<1>3. amendments' = amendments
  BY DEF Reject
<1>4. GateInv'
  BY <1>1, <1>2, <1>3, VerdictKeepsInv DEF ErpInv
<1>5. VerdictStep
  BY <1>1, <1>2, ReplacementMovesOn DEF RowMovesOn, ErpInv, GateInv
<1>6. proposals'[id] = row
  BY <1>1, RowReplaced DEF ErpInv, GateInv
<1> QED
  BY <1>2, <1>3, <1>4, <1>5, <1>6, VerdictsStand DEF ErpInv, GateInv

LEMMA ApplyHandled ==
    ASSUME ErpInv, NEW id \in Ids, NEW p, Apply(id, p, Cardinality(amendments) + 1)
    PROVE  ErpInv' /\ Onward /\ proposals'[id].status = "APPLIED"
<1> DEFINE t == Cardinality(amendments) + 1
<1>1. PICK row \in Proposal :
          /\ proposals' = [proposals EXCEPT ![id] = row]
          /\ row = [proposals[id] EXCEPT !.status = "APPLIED"]
          /\ proposals[id] \in Proposal /\ proposals[id].status = "APPROVED"
  BY AppliedRow DEF ErpInv, GateInv
<1>2. /\ row.status = "APPLIED" /\ row.payload = proposals[id].payload
      /\ row.payload_hash = proposals[id].payload_hash
      /\ row.invoice_number = proposals[id].invoice_number
      /\ row.approved_by = proposals[id].approved_by
      /\ row.approved_hash = proposals[id].approved_hash
  BY <1>1 DEF Proposal
<1>3. PayloadHash(p) = PayloadHash(proposals[id].payload)
  BY <1>1, ApplyChecks DEF ErpInv, GateInv, RowsCoherent, Apply
<1>4. p \in Payload /\ proposals[id].invoice_number \in Invoices
  BY <1>1, <1>3, HashInjective DEF Proposal
<1>5. t \in Nat
  BY FS_CardinalityType DEF ErpInv
<1>6. /\ proposals' \in Seq(Proposal) /\ proposals'[id] = row
      /\ id \in Nat \ {0}
  BY <1>1, RowReplaced, LenProperties DEF ErpInv, GateInv, TypeOK, Ids
<1>7. PICK x : /\ amendments' = amendments \cup {x}
               /\ x = [proposal_id |-> id, invoice_number |-> proposals[id].invoice_number,
                       payload |-> p, applied_at |-> t]
  BY DEF Apply
<1>8. x \in Amendment
  BY <1>4, <1>5, <1>6, <1>7 DEF Amendment
<1>9. TypeOK'
  BY <1>6, <1>7, <1>8 DEF TypeOK, ErpInv, GateInv
<1>10. IsFiniteSet(amendments')
  BY <1>7, FS_AddElement DEF ErpInv
<1>11. GateInv'
  BY <1>9, ApplyKeepsInv DEF ErpInv
<1>12. VerdictStep
  BY <1>1, <1>2, ReplacementMovesOn DEF RowMovesOn, ErpInv, GateInv
<1> QED
  BY <1>2, <1>6, <1>9, <1>10, <1>11, <1>12, VerdictsStand DEF ErpInv, GateInv

-----------------------------------------------------------------------------
(* How a form ends.                                                          *)

LEMMA Told ==
    ASSUME DeskInv, NEW d \in Desks, NEW kind, NEW code, Tell(d, kind, code)
    PROVE  /\ call'[d] = Idle
           /\ banner'[d] = [kind |-> kind, code |-> code, id |-> call[d].id,
                            database |-> resets]
           /\ \A e \in Desks \ {d} : call'[e] = call[e] /\ banner'[e] = banner[e]
           /\ DOMAIN call' = Desks /\ DOMAIN banner' = Desks
BY DEF Tell, DeskInv

(* A form ends without a POST of it being under way, or while one is awaited *)
(* that has been answered or is given up.                                    *)
LEMMA FormEnds ==
    ASSUME ReviewInv, ErpInv', Onward, NEW d \in Desks, NEW kind, NEW code,
           Tell(d, kind, code), kind \in Done \cup {"none", "error"},
           kind \in Done => Holds(kind, call[d].id),
           call[d].at \in {"guard", "waiting"},
           answers' \subseteq answers, \A a \in answers' : a.desk # d,
           UNCHANGED <<page, clicks, inflight, resets>>
    PROVE  ReviewInv'
<1>1. /\ call'[d] = Idle
      /\ banner'[d] = [kind |-> kind, code |-> code, id |-> call[d].id, database |-> resets]
      /\ \A e \in Desks \ {d} : call'[e] = call[e] /\ banner'[e] = banner[e]
      /\ DOMAIN call' = Desks /\ DOMAIN banner' = Desks
  BY Told DEF ReviewInv
<1>2. DeskInv'
  BY <1>1 DEF ReviewInv, DeskInv, Idle
<1>3. RequestsInv'
  BY <1>1 DEF ReviewInv, RequestsInv, Idle
<1>4. AnswersInv'
  BY <1>1 DEF ReviewInv, AnswersInv, Awaited, Onward
<1>5. BannerInv'
  BY <1>1 DEF ReviewInv, BannerInv, Onward
<1>6. ShownInv'
  BY <1>1 DEF ReviewInv, ShownInv, Onward, Idle
<1> QED
  BY <1>2, <1>3, <1>4, <1>5, <1>6 DEF ReviewInv

-----------------------------------------------------------------------------
(* One lemma per action.                                                     *)

LEMMA RaiseKeepsInv ==
    ASSUME ReviewInv, NEW r \in Requests, Raise(r)
    PROVE  ReviewInv'
<1>1. ErpInv' /\ Onward
  BY ProposalRaised DEF Raise, ReviewInv
<1>2. UNCHANGED <<page, call, clicks, banner, inflight, answers, resets>>
  BY DEF Raise, deskVars, wireVars
<1>3. DeskInv' /\ RequestsInv'
  BY <1>2 DEF ReviewInv, DeskInv, RequestsInv
<1>4. AnswersInv' /\ BannerInv' /\ ShownInv'
  BY <1>1, <1>2 DEF ReviewInv, AnswersInv, BannerInv, ShownInv, Awaited, Onward
<1> QED
  BY <1>1, <1>3, <1>4 DEF ReviewInv

LEMMA DrawKeepsInv ==
    ASSUME ReviewInv, NEW d \in Desks, NEW id \in Ids, Draw(d, id)
    PROVE  ReviewInv'
<1>1. ErpInv' /\ Onward
  BY NothingHandled DEF Draw, ReviewInv
<1>2. UNCHANGED <<call, clicks, banner, inflight, answers, resets>>
  BY DEF Draw, wireVars
<1>3. proposals[id].payload_hash = PayloadHash(proposals[id].payload)
  BY DEF ReviewInv, ErpInv, GateInv, RowsCoherent
<1>4. /\ DOMAIN page' = Desks
      /\ page'[d].payload_hash = PayloadHash(page'[d].shown)
      /\ \A e \in Desks \ {d} : page'[e] = page[e]
  BY <1>3 DEF Draw, ReviewInv, DeskInv
<1>5. DeskInv'
  BY <1>2, <1>4 DEF ReviewInv, DeskInv
<1>6. RequestsInv' /\ AnswersInv' /\ BannerInv' /\ ShownInv'
  BY <1>1, <1>2 DEF ReviewInv, RequestsInv, AnswersInv, BannerInv, ShownInv, Awaited, Onward
<1> QED
  BY <1>1, <1>5, <1>6 DEF ReviewInv

LEMMA ClickKeepsInv ==
    ASSUME ReviewInv, NEW d \in Desks, NEW route \in Routes, Click(d, route)
    PROVE  ReviewInv'
<1>1. ErpInv' /\ Onward
  BY NothingHandled DEF Click, ReviewInv
<1>2. /\ UNCHANGED <<page, inflight, answers, resets>>
      /\ call[d] = Idle /\ page[d] # NoPage /\ clicks[d] < MaxClicks
      /\ DOMAIN clicks' = Desks /\ DOMAIN call' = Desks /\ DOMAIN banner' = Desks
      /\ clicks'[d] = clicks[d] + 1 /\ banner'[d] = NoBanner
      /\ call'[d] = [at |-> "guard", route |-> route, id |-> page[d].id,
                     payload_hash |-> page[d].payload_hash, shown |-> page[d].shown]
      /\ \A e \in Desks \ {d} :
             clicks'[e] = clicks[e] /\ call'[e] = call[e] /\ banner'[e] = banner[e]
  BY DEF Click, wireVars, ReviewInv, DeskInv
<1>3. clicks[d] \in Nat /\ MaxClicks \in Nat
  BY ReviewAssumption DEF ReviewInv, DeskInv
<1>4. DeskInv'
  BY <1>2, <1>3 DEF ReviewInv, DeskInv
<1>5. \A r \in inflight : r.desk \in Desks => clicks[r.desk] \in Nat
  BY DEF ReviewInv, DeskInv
<1>6. RequestsInv'
  BY <1>2, <1>3, <1>5 DEF ReviewInv, RequestsInv
<1>7. \A a \in answers : a.desk # d
  BY <1>2 DEF ReviewInv, AnswersInv, Awaited, Idle
<1>8. AnswersInv'
  BY <1>1, <1>2, <1>7 DEF ReviewInv, AnswersInv, Awaited, Onward
<1>9. BannerInv' /\ ShownInv'
  BY <1>1, <1>2 DEF ReviewInv, BannerInv, ShownInv, Onward, NoBanner, Done
<1> QED
  BY <1>1, <1>4, <1>6, <1>8, <1>9 DEF ReviewInv

LEMMA GuardKeepsInv ==
    ASSUME ReviewInv, NEW d \in Desks, Guard(d)
    PROVE  ReviewInv'
<1>1. ErpInv' /\ Onward /\ UNCHANGED <<page, clicks, inflight, answers, resets>>
  BY NothingHandled DEF Guard, ReviewInv, wireVars
<1>2. call[d].at = "guard" /\ \A a \in answers : a.desk # d
  BY DEF Guard, ReviewInv, AnswersInv, Awaited
<1>3. ASSUME NEW code, Tell(d, "error", code)
      PROVE  ReviewInv'
  BY <1>1, <1>2, <1>3, FormEnds DEF Done
<1>4. ASSUME call[d].id \in Ids, proposals[call[d].id].payload_hash = call[d].payload_hash,
             call' = [call EXCEPT ![d] = [at |-> "send", route |-> @.route, id |-> call[d].id,
                                          payload |-> proposals[call[d].id].payload,
                                          shown |-> @.shown]],
             UNCHANGED banner
      PROVE  ReviewInv'
  <2>1. /\ DOMAIN call' = Desks
        /\ call'[d] = [at |-> "send", route |-> call[d].route, id |-> call[d].id,
                       payload |-> proposals[call[d].id].payload, shown |-> call[d].shown]
        /\ \A e \in Desks \ {d} : call'[e] = call[e]
    BY <1>4 DEF ReviewInv, DeskInv
  <2>2. call[d].shown = proposals[call[d].id].payload
    BY <1>2, <1>4, HashInjective DEF ReviewInv, DeskInv, ErpInv, GateInv, RowsCoherent
  <2>3. DeskInv'
    BY <1>1, <1>2, <1>4, <2>1 DEF ReviewInv, DeskInv
  <2>4. RequestsInv'
    BY <1>1, <1>2, <2>1 DEF ReviewInv, RequestsInv
  <2>5. AnswersInv'
    BY <1>1, <1>2, <2>1 DEF ReviewInv, AnswersInv, Awaited, Onward
  <2>6. BannerInv'
    BY <1>1, <1>4 DEF ReviewInv, BannerInv, Onward
  <2>7. ShownInv'
    BY <1>1, <1>4, <2>1, <2>2 DEF ReviewInv, ShownInv, Onward
  <2> QED
    BY <1>1, <2>3, <2>4, <2>5, <2>6, <2>7 DEF ReviewInv
<1> QED
  BY <1>3, <1>4 DEF Guard

LEMMA SendKeepsInv ==
    ASSUME ReviewInv, NEW d \in Desks, Send(d)
    PROVE  ReviewInv'
<1>1. ErpInv' /\ Onward /\ UNCHANGED <<page, clicks, banner, answers, resets>>
  BY NothingHandled DEF Send, ReviewInv
<1>2. call[d].at = "send" /\ \A a \in answers : a.desk # d
  BY DEF Send, ReviewInv, AnswersInv, Awaited
<1>3. PICK r : /\ inflight' = inflight \cup {r}
               /\ r = [desk |-> d, number |-> clicks[d], route |-> call[d].route,
                       id |-> call[d].id, payload |-> call[d].payload, shown |-> call[d].shown]
  BY DEF Send
<1>4. /\ r.desk = d /\ r.number = clicks[d] /\ r.route = call[d].route
      /\ r.id = call[d].id /\ r.shown = call[d].shown
  BY <1>3
<1>5. /\ DOMAIN call' = Desks
      /\ call'[d] = [at |-> "waiting", route |-> call[d].route, id |-> call[d].id]
      /\ \A e \in Desks \ {d} : call'[e] = call[e]
  BY DEF Send, ReviewInv, DeskInv
<1>6. DeskInv'
  BY <1>1, <1>2, <1>5 DEF ReviewInv, DeskInv
<1>7. \A q \in inflight : q.desk = d => q.number # clicks[d]
  BY <1>2 DEF ReviewInv, RequestsInv
<1>8. clicks[d] \in 1..clicks[d] /\ call[d].route \in Routes
  BY <1>2 DEF ReviewInv, DeskInv
<1>9. RequestsInv'
  BY <1>1, <1>3, <1>4, <1>5, <1>7, <1>8 DEF ReviewInv, RequestsInv
<1>10. AnswersInv'
  BY <1>1, <1>2, <1>3, <1>4, <1>5 DEF ReviewInv, AnswersInv, Awaited, Onward
<1>11. BannerInv' /\ ShownInv'
  BY <1>1, <1>2, <1>3, <1>4, <1>5 DEF ReviewInv, BannerInv, ShownInv, Onward
<1> QED
  BY <1>1, <1>6, <1>9, <1>10, <1>11 DEF ReviewInv

LEMMA ReceiveKeepsInv ==
    ASSUME ReviewInv, NEW d \in Desks, Receive(d) \/ GiveUp(d) \/ GuardUnreachable(d)
    PROVE  ReviewInv'
<1>1. ErpInv' /\ Onward /\ UNCHANGED <<page, clicks, inflight, resets>>
  BY NothingHandled DEF Receive, GiveUp, GuardUnreachable, ReviewInv, wireVars
<1>2. CASE Receive(d)
  <2>1. PICK a \in answers : /\ a.desk = d /\ Tell(d, KindOf(a.outcome), a.outcome)
                             /\ answers' = answers \ {a}
    BY <1>2 DEF Receive, KindOf
  <2>2. KindOf(a.outcome) \in Done \cup {"none", "error"}
    BY DEF KindOf, Done
  <2>3. KindOf(a.outcome) \in Done => Holds(KindOf(a.outcome), call[d].id)
    BY <2>1 DEF ReviewInv, AnswersInv
  <2>4. answers' \subseteq answers /\ \A b \in answers' : b.desk # d
    BY <2>1 DEF ReviewInv, AnswersInv
  <2>5. call[d].at \in {"guard", "waiting"}
    BY <1>2 DEF Receive
  <2> QED
    BY <1>1, <2>1, <2>2, <2>3, <2>4, <2>5, FormEnds
<1>3. CASE GiveUp(d)
  <2>1. /\ Tell(d, "error", "ERP_UNREACHABLE") /\ call[d].at \in {"guard", "waiting"}
        /\ answers' \subseteq answers /\ \A b \in answers' : b.desk # d
    BY <1>3 DEF GiveUp
  <2> QED
    BY <1>1, <2>1, FormEnds DEF Done
<1>4. CASE GuardUnreachable(d)
  <2>1. /\ Tell(d, "error", "ERP_UNREACHABLE") /\ call[d].at \in {"guard", "waiting"}
        /\ answers' \subseteq answers /\ \A b \in answers' : b.desk # d
    BY <1>4 DEF GuardUnreachable, wireVars, ReviewInv, AnswersInv, Awaited
  <2> QED
    BY <1>1, <2>1, FormEnds DEF Done
<1> QED
  BY <1>2, <1>3, <1>4

(* What handling a request does to the ERP, and that its answer is true.     *)
LEMMA RequestHandled ==
    ASSUME ReviewInv, NEW r \in inflight, Handle(r)
    PROVE  /\ ErpInv' /\ Onward
           /\ \A kind : kind = KindOf(OutcomeOf(r)) /\ kind \in Done => Holds(kind, r.id)'
<1>1. r.desk \in Reviewers /\ DefaultReviewer \in Reviewers /\ r.route \in Routes
  BY ReviewAssumption DEF ReviewInv, RequestsInv
<1>2. CASE r.route = "approve" /\ Approve(r.id, r.desk)
  <2>1. r.id \in Ids /\ OutcomeOf(r) = "APPROVED"
    BY <1>2 DEF Approve, VerdictOutcome, OutcomeOf
  <2>2. ErpInv' /\ Onward /\ proposals'[r.id].status = "APPROVED"
    BY <1>1, <1>2, <2>1, ApprovalHandled DEF ReviewInv
  <2>3. KindOf(OutcomeOf(r)) = "APPROVED" /\ r.id \in Ids'
    BY <2>1, <2>2 DEF KindOf, Onward
  <2> QED
    BY <2>2, <2>3 DEF Holds
<1>3. CASE r.route = "reject" /\ Reject(r.id, DefaultReviewer)
  <2>1. r.id \in Ids /\ OutcomeOf(r) = "REJECTED"
    BY <1>3 DEF Reject, VerdictOutcome, OutcomeOf
  <2>2. ErpInv' /\ Onward /\ proposals'[r.id].status = "REJECTED"
    BY <1>1, <1>3, <2>1, RejectionHandled DEF ReviewInv
  <2>3. KindOf(OutcomeOf(r)) = "REJECTED" /\ r.id \in Ids'
    BY <2>1, <2>2 DEF KindOf, Onward
  <2> QED
    BY <2>2, <2>3 DEF Holds
<1>4. CASE r.route = "apply" /\ Apply(r.id, r.payload, Cardinality(amendments) + 1)
  <2>1. r.id \in Ids /\ OutcomeOf(r) = "APPLIED"
    BY <1>4 DEF Apply, ApplyOutcome, OutcomeOf
  <2>2. ErpInv' /\ Onward /\ proposals'[r.id].status = "APPLIED"
    BY <1>4, <2>1, ApplyHandled DEF ReviewInv
  <2>3. KindOf(OutcomeOf(r)) = "APPLIED" /\ r.id \in Ids'
    BY <2>1, <2>2 DEF KindOf, Onward
  <2> QED
    BY <2>2, <2>3 DEF Holds
<1>5. CASE OutcomeOf(r) \notin {"APPROVED", "REJECTED", "APPLIED"} /\ UNCHANGED vars
  <2>1. ErpInv' /\ Onward
    BY <1>5, NothingHandled DEF ReviewInv
  <2>2. KindOf(OutcomeOf(r)) \in Done => OutcomeOf(r) = "ALREADY_APPLIED"
    BY <1>5 DEF KindOf, Done
  <2>3. OutcomeOf(r) = "ALREADY_APPLIED" => Holds("APPLIED", r.id)
    <3>1. CASE r.route = "apply"
      BY <3>1, ConflictCodes DEF OutcomeOf, ApplyOutcome, Holds
    <3>2. CASE r.route # "apply"
      BY <1>1, <3>2 DEF OutcomeOf, VerdictOutcome, Transition, Routes
    <3> QED
      BY <3>1, <3>2
  <2>4. OutcomeOf(r) = "ALREADY_APPLIED" => KindOf(OutcomeOf(r)) = "APPLIED"
    BY DEF KindOf
  <2> QED
    BY <2>1, <2>2, <2>3, <2>4 DEF Onward
<1> QED
  BY <1>2, <1>3, <1>4, <1>5 DEF Handle

LEMMA HandleKeepsInv ==
    ASSUME ReviewInv, NEW r \in inflight, Handle(r)
    PROVE  ReviewInv'
<1> PICK told : told = OutcomeOf(r)
  OBVIOUS
<1>1. /\ ErpInv' /\ Onward
      /\ KindOf(told) \in Done => Holds(KindOf(told), r.id)'
  BY RequestHandled
<1>2. UNCHANGED <<page, call, clicks, banner, resets>> /\ inflight' = inflight \ {r}
  BY DEF Handle, deskVars
<1>3. PICK a : /\ answers' = answers \cup {b \in {a} : Awaited(b)}
               /\ a = [desk |-> r.desk, number |-> r.number, outcome |-> told]
  BY DEF Handle
<1>4. a.desk = r.desk /\ a.number = r.number /\ a.outcome = told
  BY <1>3
<1>5. answers' = answers \/ (answers' = answers \cup {a} /\ Awaited(a))
  BY <1>3
<1>6. DeskInv' /\ RequestsInv'
  BY <1>2 DEF ReviewInv, DeskInv, RequestsInv
<1>7. BannerInv' /\ ShownInv'
  BY <1>1, <1>2 DEF ReviewInv, BannerInv, ShownInv, Onward
<1>8. AnswersInv'
  <2>1. CASE answers' = answers
    BY <1>1, <1>2, <2>1 DEF ReviewInv, AnswersInv, Awaited, Onward
  <2>2. CASE answers' = answers \cup {a} /\ Awaited(a)
    <3>1. r.desk \in Desks /\ r.number = clicks[r.desk] /\ call[r.desk].at = "waiting"
          /\ call[r.desk].id = r.id
      BY <1>4, <2>2 DEF ReviewInv, RequestsInv, Awaited
    <3>2. \A b \in answers : b.desk # r.desk
      BY <3>1 DEF ReviewInv, AnswersInv, Awaited
    <3>3. \A q \in inflight' : q.desk = r.desk => q.number # r.number
      BY <1>2 DEF ReviewInv, RequestsInv
    <3>4. ASSUME NEW b \in answers'
          PROVE  /\ b.desk \in Desks /\ Awaited(b)'
                 /\ KindOf(b.outcome) \in Done => Holds(KindOf(b.outcome), call[b.desk].id)'
      <4>1. CASE b \in answers
        BY <1>1, <1>2, <4>1 DEF ReviewInv, AnswersInv, Awaited, Onward
      <4>2. CASE b = a
        BY <1>1, <1>2, <1>4, <2>2, <3>1, <4>2 DEF Awaited
      <4> QED
        BY <2>2, <4>1, <4>2
    <3>5. \A b, c \in answers' : b.desk = c.desk => b = c
      BY <1>4, <2>2, <3>2 DEF ReviewInv, AnswersInv
    <3>6. \A b \in answers', q \in inflight' : b.desk = q.desk => q.number # b.number
      BY <1>2, <1>4, <2>2, <3>3 DEF ReviewInv, AnswersInv
    <3> QED
      BY <3>4, <3>5, <3>6 DEF AnswersInv
  <2> QED
    BY <1>5, <2>1, <2>2
<1> QED
  BY <1>1, <1>6, <1>7, <1>8 DEF ReviewInv

LEMMA LoseKeepsInv ==
    ASSUME ReviewInv, NEW r \in inflight, Lose(r)
    PROVE  ReviewInv'
<1>1. ErpInv' /\ Onward
  BY NothingHandled DEF Lose, ReviewInv
<1>2. /\ UNCHANGED <<page, call, clicks, banner, answers, resets>>
      /\ inflight' = inflight \ {r}
  BY DEF Lose, deskVars
<1>3. DeskInv' /\ RequestsInv'
  BY <1>2 DEF ReviewInv, DeskInv, RequestsInv
<1>4. AnswersInv' /\ BannerInv' /\ ShownInv'
  BY <1>1, <1>2 DEF ReviewInv, AnswersInv, BannerInv, ShownInv, Awaited, Onward
<1> QED
  BY <1>1, <1>3, <1>4 DEF ReviewInv

(* With the database everything on the wire is gone, and every banner is of  *)
(* an earlier one.                                                           *)
LEMMA EmptyErp ==
    ASSUME proposals = <<>>, amendments = {}
    PROVE  ErpInv
BY FS_EmptySet DEF ErpInv, GateInv, TypeOK, RowsCoherent, OnlyApprovedIsStored,
                   BackedByApproval, AppliedExactlyOnce, Ids

LEMMA ResetKeepsInv ==
    ASSUME ReviewInv, Reset
    PROVE  ReviewInv'
<1>1. /\ UNCHANGED <<page, call, clicks, banner>> /\ inflight' = {} /\ answers' = {}
      /\ resets' = resets + 1 /\ proposals' = <<>> /\ amendments' = {}
      /\ ~ResetMidHandler => \A d \in Desks : call[d].at # "send"
  BY DEF Reset, deskVars
<1>2. ErpInv'
  <2>1. /\ <<>> \in Seq(Proposal) /\ DOMAIN <<>> = {} /\ IsFiniteSet({})
    BY FS_EmptySet
  <2> QED
    BY <1>1, <2>1 DEF ErpInv, GateInv, TypeOK, RowsCoherent, OnlyApprovedIsStored,
                      AppliedExactlyOnce, Ids
<1>3. DeskInv' /\ RequestsInv' /\ AnswersInv' /\ ShownInv'
  BY <1>1 DEF ReviewInv, DeskInv, RequestsInv, AnswersInv, ShownInv
<1>4. BannerInv'
  BY <1>1 DEF ReviewInv, BannerInv
<1> QED
  BY <1>2, <1>3, <1>4 DEF ReviewInv

-----------------------------------------------------------------------------
LEMMA ReviewStep ==
    ASSUME ReviewInv, [ReviewNext]_reviewVars
    PROVE  ReviewInv'
<1>1. ASSUME UNCHANGED reviewVars PROVE ReviewInv'
  <2>1. ErpInv' /\ Onward /\ UNCHANGED <<page, call, clicks, banner, inflight, answers, resets>>
    BY <1>1, NothingHandled DEF reviewVars, deskVars, wireVars, ReviewInv
  <2> QED
    BY <2>1 DEF ReviewInv, DeskInv, RequestsInv, AnswersInv, BannerInv, ShownInv, Awaited, Onward
<1>2. ASSUME NEW r \in Requests, Raise(r) PROVE ReviewInv'
  BY <1>2, RaiseKeepsInv
<1>3. ASSUME NEW d \in Desks, NEW id \in Ids, Draw(d, id) PROVE ReviewInv'
  BY <1>3, DrawKeepsInv
<1>4. ASSUME NEW d \in Desks, NEW route \in Routes, Click(d, route) PROVE ReviewInv'
  BY <1>4, ClickKeepsInv
<1>5. ASSUME NEW d \in Desks, Guard(d) PROVE ReviewInv'
  BY <1>5, GuardKeepsInv
<1>6. ASSUME NEW d \in Desks, Send(d) PROVE ReviewInv'
  BY <1>6, SendKeepsInv
<1>7. ASSUME NEW d \in Desks, Receive(d) \/ GiveUp(d) \/ GuardUnreachable(d) PROVE ReviewInv'
  BY <1>7, ReceiveKeepsInv
<1>8. ASSUME NEW r \in inflight, Handle(r) PROVE ReviewInv'
  BY <1>8, HandleKeepsInv
<1>9. ASSUME NEW r \in inflight, Lose(r) PROVE ReviewInv'
  BY <1>9, LoseKeepsInv
<1>10. ASSUME Reset PROVE ReviewInv'
  BY <1>10, ResetKeepsInv
<1> QED
  BY <1>1, <1>2, <1>3, <1>4, <1>5, <1>6, <1>7, <1>8, <1>9, <1>10 DEF ReviewNext

LEMMA ReviewInvariant == ReviewSpec => []ReviewInv
<1>1. ReviewInit => ReviewInv
  <2> SUFFICES ASSUME ReviewInit PROVE ReviewInv
    OBVIOUS
  <2>1. ErpInv
    BY EmptyErp DEF ReviewInit, Init
  <2>2. DeskInv
    BY ReviewAssumption DEF ReviewInit, DeskInv, Idle
  <2>3. RequestsInv /\ AnswersInv /\ ShownInv
    BY DEF ReviewInit, RequestsInv, AnswersInv, ShownInv, Idle
  <2>4. BannerInv
    BY DEF ReviewInit, BannerInv, NoBanner, Done
  <2> QED
    BY <2>1, <2>2, <2>3, <2>4 DEF ReviewInv
<1>2. ReviewInv /\ [ReviewNext]_reviewVars => ReviewInv'
  BY ReviewStep
<1> QED
  BY <1>1, <1>2, PTL DEF ReviewSpec

(* The UI's bookkeeping: every request on the wire is of a form that was     *)
(* submitted, and no answer outlives the wait for it.                        *)
THEOREM ReviewTypes == ReviewSpec => []ReviewTypeOK
<1>1. ReviewInv => ReviewTypeOK
  BY DEF ReviewInv, ErpInv, GateInv, DeskInv, RequestsInv, AnswersInv, BannerInv, Done,
         ReviewTypeOK
<1> QED
  BY <1>1, ReviewInvariant, PTL

(* What a reviewer was told stays true as long as the database is the same,  *)
(* for any number of desks and whatever is lost, late or repeated.           *)
THEOREM BannersAreTrue == ReviewSpec => []BannerIsTrue
<1>1. ReviewInv => BannerIsTrue
  <2> SUFFICES ASSUME ReviewInv, NEW d \in Desks,
                      banner[d].kind \in Done, banner[d].database = resets
               PROVE  LET b == banner[d]
                          stored == \E a \in amendments : a.proposal_id = b.id IN
                      /\ b.id \in Ids
                      /\ b.kind = "APPROVED" => proposals[b.id].status \in {"APPROVED", "APPLIED"}
                      /\ b.kind = "REJECTED" => proposals[b.id].status = "REJECTED" /\ ~stored
                      /\ b.kind = "APPLIED"  => proposals[b.id].status = "APPLIED" /\ stored
    BY DEF BannerIsTrue, Done
  <2>1. Holds(banner[d].kind, banner[d].id)
    BY DEF ReviewInv, BannerInv
  <2>2. \A id \in Ids : proposals[id].status = "APPLIED"
                           <=> \E a \in amendments : a.proposal_id = id
    BY DEF ReviewInv, ErpInv, GateInv, AppliedExactlyOnce
  <2> QED
    BY <2>1, <2>2 DEF Holds
<1> QED
  BY <1>1, ReviewInvariant, PTL

(* If the database is not deleted between a guard and its POST, a proposal   *)
(* is approved only through a page that showed the payload it has.           *)
THEOREM ApprovedAsShown ==
    ASSUME ~ResetMidHandler
    PROVE  ReviewSpec => ApprovedWhatWasShown
<1> DEFINE Step == \A id \in Ids \cap Ids' :
                       proposals'[id].status = "APPROVED" /\ proposals[id].status = "PROPOSED" =>
                           \E r \in inflight \ inflight' :
                               /\ r.route = "approve" /\ r.id = id
                               /\ r.shown = proposals[id].payload
<1>1. ReviewInv /\ [ReviewNext]_reviewVars => [Step]_<<proposals, amendments>>
  <2> SUFFICES ASSUME ReviewInv, ReviewNext, NEW id \in Ids \cap Ids',
                      proposals'[id].status = "APPROVED", proposals[id].status = "PROPOSED"
               PROVE  \E r \in inflight \ inflight' :
                          /\ r.route = "approve" /\ r.id = id
                          /\ r.shown = proposals[id].payload
    BY DEF reviewVars, vars
  <2>1. proposals' # proposals
    OBVIOUS
  <2>2. ASSUME NEW r \in Requests, Raise(r) PROVE FALSE
    <3>1. PICK row \in Proposal : proposals' = Append(proposals, row)
      BY <2>2, ProposedRow DEF Raise, ReviewInv, ErpInv, GateInv
    <3> QED
      BY <3>1, RowAppended DEF ReviewInv, ErpInv, GateInv
  <2>3. ASSUME Reset PROVE FALSE
    BY <2>3 DEF Reset, Ids
  <2>4. PICK r \in inflight : Handle(r)
    BY <2>1, <2>2, <2>3 DEF ReviewNext, Draw, Click, Guard, GuardUnreachable, Send, Receive,
                            GiveUp, Lose, vars
  <2>5. r \notin inflight'
    BY <2>4 DEF Handle
  <2>6. r.route = "approve" /\ Approve(r.id, r.desk)
    <3>1. CASE r.route = "reject" /\ Reject(r.id, DefaultReviewer)
      <4>1. r.id \in Ids /\ DefaultReviewer \in Reviewers
        BY <3>1, ReviewAssumption DEF Reject, VerdictOutcome
      <4>2. proposals'[r.id].status = "REJECTED"
        BY <3>1, <4>1, RejectionHandled DEF ReviewInv
      <4>3. PICK row \in Proposal : proposals' = [proposals EXCEPT ![r.id] = row]
        BY <3>1, <4>1, RejectedRow DEF ReviewInv, ErpInv, GateInv
      <4> QED
        BY <4>1, <4>2, <4>3, RowReplaced DEF ReviewInv, ErpInv, GateInv
    <3>2. CASE r.route = "apply" /\ Apply(r.id, r.payload, Cardinality(amendments) + 1)
      <4>1. r.id \in Ids
        BY <3>2 DEF Apply, ApplyOutcome
      <4>2. proposals'[r.id].status = "APPLIED"
        BY <3>2, <4>1, ApplyHandled DEF ReviewInv
      <4>3. PICK row \in Proposal : proposals' = [proposals EXCEPT ![r.id] = row]
        BY <3>2, <4>1, AppliedRow DEF ReviewInv, ErpInv, GateInv
      <4> QED
        BY <4>1, <4>2, <4>3, RowReplaced DEF ReviewInv, ErpInv, GateInv
    <3> QED
      BY <2>1, <2>4, <3>1, <3>2 DEF Handle, vars
  <2>7. r.id = id
    <3>1. r.id \in Ids /\ r.desk \in Reviewers
      BY <2>6, ReviewAssumption DEF Approve, VerdictOutcome, ReviewInv, RequestsInv
    <3>2. PICK row \in Proposal : proposals' = [proposals EXCEPT ![r.id] = row]
      BY <2>6, <3>1, ApprovedRow DEF ReviewInv, ErpInv, GateInv
    <3> QED
      BY <3>1, <3>2, RowReplaced DEF ReviewInv, ErpInv, GateInv
  <2>8. r.shown = proposals[r.id].payload
    BY DEF ReviewInv, ShownInv
  <2> QED
    BY <2>5, <2>6, <2>7, <2>8
<1>2. [][Step]_<<proposals, amendments>> => ApprovedWhatWasShown
  BY PTL DEF ApprovedWhatWasShown
<1> QED
  BY <1>1, <1>2, ReviewInvariant, PTL DEF ReviewSpec

-----------------------------------------------------------------------------
(* The detail page (ReviewPage).  Its row is the proposal as it was when the *)
(* page was fetched, and the proposal has only moved on since, by any number *)
(* of steps.                                                                 *)

HasMovedOn(old, new) ==
    /\ new.invoice_number = old.invoice_number /\ new.payload = old.payload
    /\ old.status = "APPROVED" => new.status \in {"APPROVED", "APPLIED"}
    /\ old.status \in {"REJECTED", "APPLIED"} => new = old

PageInv ==
    /\ view.state \in {"none", "fetching", "drawn"}
    /\ view.state # "none" =>
           /\ view.id \in Ids /\ view.row \in Proposal
           /\ HasMovedOn(view.row, proposals[view.id])
    /\ view.state = "drawn" =>
           /\ view.warnings = Warnings(view.row.payload, view.invoice)
           /\ view.actions = ActionsFor(view.row.status)
           /\ view.invoice.read => view.invoice.content = view.served

LEMMA MovedOnFurther ==
    ASSUME NEW a \in Proposal, NEW b \in Proposal, NEW c \in Proposal,
           HasMovedOn(a, b), RowMovesOn(b, c)
    PROVE  HasMovedOn(a, c)
<1>1. CASE b.status \in {"REJECTED", "APPLIED"}
  BY <1>1 DEF HasMovedOn, RowMovesOn
<1>2. CASE b.status = "APPROVED"
  BY <1>2 DEF HasMovedOn, RowMovesOn
<1>3. CASE b.status = "PROPOSED"
  BY <1>3 DEF HasMovedOn, RowMovesOn
<1> QED
  BY <1>1, <1>2, <1>3 DEF Proposal, Statuses

LEMMA PageFollows ==
    ASSUME TypeOK, TypeOK', PageInv, [VerdictStep]_vars, UNCHANGED view
    PROVE  PageInv'
<1>1. CASE view.state = "none"
  BY <1>1 DEF PageInv
<1>2. CASE view.state # "none"
  <2>1. view.id \in Ids /\ view.row \in Proposal /\ HasMovedOn(view.row, proposals[view.id])
    BY <1>2 DEF PageInv
  <2>2. view.id \in Ids' /\ RowMovesOn(proposals[view.id], proposals'[view.id])
    <3>1. CASE VerdictStep
      <4>1. /\ Ids = 1..Len(proposals) /\ Ids' = 1..Len(proposals')
            /\ Len(proposals) \in Nat /\ Len(proposals') \in Nat
        BY LenProperties DEF TypeOK, Ids
      <4> QED
        BY <2>1, <3>1, <4>1 DEF VerdictStep
    <3>2. CASE UNCHANGED vars
      <4>1. proposals[view.id] \in Proposal /\ proposals' = proposals
        BY <2>1, <3>2 DEF TypeOK, Ids, vars
      <4> QED
        BY <2>1, <4>1, RowStays DEF Ids
    <3> QED
      BY <3>1, <3>2
  <2>3. proposals[view.id] \in Proposal /\ proposals'[view.id] \in Proposal
    BY <2>1, <2>2 DEF TypeOK, Ids
  <2>4. HasMovedOn(view.row, proposals'[view.id])
    BY <2>1, <2>2, <2>3, MovedOnFurther
  <2> QED
    BY <2>1, <2>2, <2>4 DEF PageInv
<1> QED
  BY <1>1, <1>2

LEMMA PageInvariant == PageSpec => []PageInv /\ []GateInv /\ []ReadingsInv
<1>1. PageInit => Init /\ PageInv
  BY DEF PageInit, PageInv, NoView
<1>2. [PageNext]_pageVars => [Next]_vars
  BY DEF PageNext, pageVars, ReadProposal, ReadInvoice, ReadFails, DrawFrom
<1>3. TypeOK /\ TypeOK' /\ PageInv /\ [PageNext]_pageVars /\ [VerdictStep]_vars => PageInv'
  <2> SUFFICES ASSUME TypeOK, TypeOK', PageInv, [PageNext]_pageVars, [VerdictStep]_vars
               PROVE  PageInv'
    OBVIOUS
  <2>1. ASSUME NEW id \in Ids, ReadProposal(id) PROVE PageInv'
    <3>1. view' = [state |-> "fetching", id |-> id, row |-> proposals[id]]
          /\ proposals' = proposals
      BY <2>1 DEF ReadProposal, vars
    <3>2. proposals[id] \in Proposal
      BY DEF TypeOK, Ids
    <3>3. HasMovedOn(proposals[id], proposals[id])
      BY <3>2 DEF HasMovedOn
    <3> QED
      BY <3>1, <3>2, <3>3 DEF PageInv, Ids
  <2>2. ASSUME NEW invoice, view.state = "fetching", DrawFrom(invoice),
               invoice.read => invoice.content = EffectiveInvoice(view.row.invoice_number)
        PROVE  PageInv'
    <3>1. /\ view'.state = "drawn" /\ view'.id = view.id /\ view'.row = view.row
          /\ view'.invoice = invoice
          /\ view'.served = EffectiveInvoice(view.row.invoice_number)
          /\ view'.warnings = Warnings(view.row.payload, invoice)
          /\ view'.actions = ActionsFor(view.row.status)
          /\ proposals' = proposals
      BY <2>2 DEF DrawFrom, vars
    <3> QED
      BY <2>2, <3>1 DEF PageInv, Ids
  <2>3. CASE ReadInvoice
    BY <2>2, <2>3 DEF ReadInvoice, ReadAs
  <2>4. CASE ReadFails
    BY <2>2, <2>4 DEF ReadFails, Unreadable
  <2>5. CASE UNCHANGED view
    BY <2>5, PageFollows
  <2> QED
    BY <2>1, <2>3, <2>4, <2>5 DEF PageNext, pageVars
<1>4. PageSpec => Spec
  BY <1>1, <1>2, PTL DEF PageSpec, Spec
<1> QED
  BY <1>1, <1>3, <1>4, TypeCorrect, GateInvariant, ReadingsInvariant, VerdictsAreFinal, PTL
     DEF PageSpec, VerdictIsFinal

(* The two judgements of an amount and of a block reason, the page's and the *)
(* ERP's.                                                                    *)
LEMMA AmountsJudgedAlike ==
    ASSUME NEW p, IsAmend(p), NEW document, document[FieldOf(p)] # Absent
    PROVE  SameAmount(document[FieldOf(p)], p.from)
               <=> StaleConflict(document, p) = NoConflict
BY DEF IsAmend, AmendQuantity, AmendPrice, RejectInvoice, ReleaseBlock, SameAmount,
       SameDecimal, StaleConflict, NoConflict

LEMMA ReasonsJudgedAlike ==
    ASSUME TypeOK, ReadingsInv, NEW inv \in Invoices, NEW p \in ReleasePayload,
           NEW reason, reason = EffectiveInvoice(inv)[BlockField]
    PROVE  /\ reason = p.released_block_reason => SameReason(reason, p.released_block_reason)
           /\ \/ reason = p.released_block_reason
              \/ Stripped[p.released_block_reason] # p.released_block_reason
              \/ p.released_block_reason = Blank
              \/ ~SameReason(reason, p.released_block_reason)
<1>1. p.released_block_reason \in Texts
  BY DEF ReleasePayload
<1>2. BlockField \in Fields
  BY DEF Fields
<1>3. reason \in {Base[i][BlockField] : i \in Invoices} \cup {NoBlock, RejectedBlockReason}
  BY <1>2, ServedField
<1>4. reason \in Texts => Stripped[reason] = reason /\ reason # NoBlock
  BY <1>3, ReasonsAssumption
<1> QED
  BY <1>1, <1>4 DEF SameReason

(* What a drawn page knows while its field still reads as drawn.             *)
LEMMA PageKnows ==
    ASSUME GateInv, ReadingsInv, PageInv, StillReads
    PROVE  /\ view.id \in Ids /\ proposals[view.id].payload = Payload0 /\ Payload0 \in Payload
           /\ proposals[view.id].invoice_number = view.row.invoice_number
           /\ view.row.invoice_number \in Invoices
           /\ view.invoice.content[FieldOf(Payload0)]
                  = EffectiveInvoice(view.row.invoice_number)[FieldOf(Payload0)]
           /\ "refused" \in view.warnings <=> StaleRow(Payload0, view.invoice)
BY DEF StillReads, Drawn, PageInv, Payload0, HasMovedOn, Proposal, Warnings

LEMMA PayloadKinds ==
    ASSUME NEW p \in Payload
    PROVE  /\ p \in ReleasePayload <=> p.correction_type = ReleaseBlock
           /\ IsAmend(p) \/ p.correction_type \in {ReleaseBlock, RejectInvoice}
           /\ p.correction_type = ReleaseBlock => FieldOf(p) = BlockField
BY DEF Payload, AmendPayload, ReleasePayload, RejectPayload, IsAmend, FieldOf,
       AmendQuantity, AmendPrice, ReleaseBlock, RejectInvoice

(* A warning is no false alarm: what the page says the ERP would refuse, it  *)
(* refuses, whatever other desks did to other fields since.                  *)
THEOREM WarningsAreRefused == PageSpec => []WarnedIsRefused
<1>1. GateInv /\ ReadingsInv /\ PageInv => WarnedIsRefused
  <2> SUFFICES ASSUME GateInv, ReadingsInv, PageInv, StillReads, "refused" \in view.warnings,
                      proposals[view.id].status # "APPLIED", Accepted
               PROVE  FALSE
    BY DEF WarnedIsRefused
  <2> DEFINE document == EffectiveInvoice(view.row.invoice_number)
  <2>1. /\ view.id \in Ids /\ Payload0 \in Payload
        /\ proposals[view.id].invoice_number = view.row.invoice_number
        /\ view.row.invoice_number \in Invoices
        /\ view.invoice.content[FieldOf(Payload0)] = document[FieldOf(Payload0)]
        /\ StaleRow(Payload0, view.invoice)
    BY PageKnows
  <2>2. ApplyOutcome(view.id, Payload0) = "APPLIED"
    BY <2>1, ConflictCodes DEF Accepted, ApplyOutcome
  <2>3. StaleConflict(document, Payload0) = NoConflict
    BY <2>1, <2>2, ApplyChecks
  <2> HIDE DEF document
  <2>4. CASE IsAmend(Payload0)
    <3>1. document[FieldOf(Payload0)] # Absent /\ ~SameAmount(document[FieldOf(Payload0)], Payload0.from)
      BY <2>1, <2>4 DEF StaleRow, IsAmend, AmendQuantity, AmendPrice, ReleaseBlock
    <3> QED
      BY <2>3, <2>4, <3>1, AmountsJudgedAlike
  <2>5. CASE Payload0.correction_type = ReleaseBlock
    <3>1. /\ document[BlockField] = Payload0.released_block_reason
          /\ Payload0 \in ReleasePayload /\ FieldOf(Payload0) = BlockField
      BY <2>1, <2>3, <2>5, PayloadKinds DEF StaleConflict, ReleaseBlock, RejectInvoice, NoConflict
    <3>2. SameReason(document[BlockField], Payload0.released_block_reason)
      BY <2>1, <3>1, ReasonsJudgedAlike DEF document, GateInv
    <3> QED
      BY <2>1, <2>5, <3>1, <3>2 DEF StaleRow, IsAmend, AmendQuantity, AmendPrice, ReleaseBlock
  <2>6. CASE Payload0.correction_type = RejectInvoice
    BY <2>1, <2>6 DEF StaleRow, IsAmend, AmendQuantity, AmendPrice, ReleaseBlock, RejectInvoice
  <2> QED
    BY <2>1, <2>4, <2>5, <2>6, PayloadKinds
<1> QED
  BY <1>1, PageInvariant, PTL

(* A page without a warning hides no conflict: the apply it offers is        *)
(* accepted, if the corrected line exists and a released reason is spelled   *)
(* exactly.                                                                  *)
THEOREM UnwarnedAreAccepted == PageSpec => []UnwarnedIsAccepted
<1>1. GateInv /\ ReadingsInv /\ PageInv => UnwarnedIsAccepted
  <2> SUFFICES ASSUME GateInv, ReadingsInv, PageInv, StillReads, view.warnings = {},
                      "APPLY" \in view.actions,
                      ~(/\ IsAmend(Payload0)
                        /\ Base[view.row.invoice_number][FieldOf(Payload0)] = Absent),
                      ~(/\ Payload0.correction_type = ReleaseBlock
                        /\ \/ Stripped[Payload0.released_block_reason]
                                  # Payload0.released_block_reason
                           \/ Payload0.released_block_reason = Blank)
               PROVE  Accepted
    BY DEF UnwarnedIsAccepted
  <2> DEFINE document == EffectiveInvoice(view.row.invoice_number)
             row == proposals[view.id]
  <2>1. /\ view.id \in Ids /\ Payload0 \in Payload /\ row.payload = Payload0
        /\ row.invoice_number = view.row.invoice_number
        /\ view.row.invoice_number \in Invoices
        /\ view.invoice.content[FieldOf(Payload0)] = document[FieldOf(Payload0)]
        /\ ~StaleRow(Payload0, view.invoice) /\ view.invoice.read
    BY PageKnows DEF StillReads
  <2>2. row.status \in {"APPROVED", "APPLIED"}
    <3>1. view.row.status = "APPROVED"
      BY DEF StillReads, Drawn, PageInv, ActionsFor
    <3> QED
      BY <3>1 DEF StillReads, Drawn, PageInv, HasMovedOn
  <2>3. PayloadHash(Payload0) = row.approved_hash
    BY <2>1, <2>2 DEF GateInv, RowsCoherent
  <2>4. StaleConflict(document, Payload0) = NoConflict
    <3> HIDE DEF document
    <3>1. CASE IsAmend(Payload0)
      <4>1. document[FieldOf(Payload0)] # Absent
        <5>1. FieldOf(Payload0) \in Fields
          BY <2>1, FieldOfIsField
        <5>2. Base[view.row.invoice_number][FieldOf(Payload0)] # Absent
          BY <3>1
        <5>3. Absent \notin Values
          BY CorrectionsAssumption
        <5> QED
          BY <2>1, <5>1, <5>2, <5>3, ServedField DEF document, GateInv
      <4>2. SameAmount(document[FieldOf(Payload0)], Payload0.from)
        BY <2>1, <3>1, <4>1 DEF StaleRow
      <4> QED
        BY <3>1, <4>1, <4>2, AmountsJudgedAlike
    <3>2. CASE Payload0.correction_type = ReleaseBlock
      <4>1. /\ Payload0 \in ReleasePayload /\ FieldOf(Payload0) = BlockField
            /\ SameReason(document[BlockField], Payload0.released_block_reason)
        BY <2>1, <3>2, PayloadKinds DEF StaleRow
      <4>2. document[BlockField] = Payload0.released_block_reason
        BY <2>1, <3>2, <4>1, ReasonsJudgedAlike DEF document, GateInv
      <4> QED
        BY <3>2, <4>2 DEF StaleConflict, RejectInvoice, ReleaseBlock
    <3>3. CASE Payload0.correction_type = RejectInvoice
      BY <3>3 DEF StaleConflict
    <3> QED
      BY <2>1, <3>1, <3>2, <3>3, PayloadKinds
  <2> QED
    BY <2>1, <2>2, <2>3, <2>4 DEF Accepted, ApplyOutcome, Permitted, Transition
<1> QED
  BY <1>1, PageInvariant, PTL

=============================================================================
