------------------------------- MODULE Approval -------------------------------
(***************************************************************************)
(* The ERP's approval gate: the only write path of the system              *)
(* (mock_erp/repository.py behind mock_erp/write_api.py).                  *)
(*                                                                         *)
(* A proposal is PROPOSED by the agent, APPROVED or REJECTED by a human,   *)
(* and an approved one is APPLIED, which stores an amendment.  Documents   *)
(* are never written: a read lays the stored amendments over the immutable *)
(* base in the order of their applied_at, a reading of the wall clock.     *)
(*                                                                         *)
(* Every route is an `async def` with no await in it and every write is    *)
(* one SQLite transaction, so a request is one step; the tables survive a  *)
(* restart of the process, which therefore changes nothing here.  A        *)
(* refused request changes nothing either and is a stuttering step; its    *)
(* answer is the value of the ...Outcome operators.                        *)
(***************************************************************************)
EXTENDS Corrections, FiniteSets, SequencesExt

CONSTANTS
    Reviewers,           \* names a verdict can be recorded under
    Requests,            \* the [invoice, payload] bodies posted to ProposeCorrection
    MaxProposals,        \* bound: proposals ever created
    ClockStepsBack       \* whether the wall clock may be set back between two applies

Nobody  == "nobody"
NoHash  == [unset |-> TRUE]      \* approved_hash IS NULL
Statuses == {"PROPOSED", "APPROVED", "REJECTED", "APPLIED"}

ASSUME ApprovalAssumption ==
    /\ Requests \subseteq [invoice_number : Invoices, payload : Payload]
    /\ MaxProposals \in Nat
    /\ ClockStepsBack \in BOOLEAN
    /\ Nobody \notin Reviewers

VARIABLES
    proposals,     \* the proposals table; row i is PR-00000i (AUTOINCREMENT)
    amendments     \* the amendments table

vars == <<proposals, amendments>>

Hashes == [sha256_of : Payload]

Proposal == [invoice_number : Invoices, payload : Payload, payload_hash : Hashes,
             status : Statuses, approved_by : Reviewers \cup {Nobody},
             approved_hash : Hashes \cup {NoHash}, rejected_by : Reviewers \cup {Nobody}]

Amendment == [proposal_id : Nat \ {0}, invoice_number : Invoices,
              payload : Payload, applied_at : Nat]

-----------------------------------------------------------------------------
(* Reading: amendments_for_invoice and _effective_invoice.                   *)

Writers(rows, inv, f) == {a \in rows : /\ a.invoice_number = inv
                                       /\ FieldOf(a.payload) = f
                                       /\ TakesEffect(inv, a.payload)}

Earliest(rows) == CHOOSE a \in rows : \A b \in rows : a.applied_at <= b.applied_at  \* a slip
Latest(rows) == CHOOSE a \in rows : \A b \in rows : b.applied_at <= a.applied_at

(* The document as a read serves it when the table holds these rows: each   *)
(* field holds what the amendment with the latest applied_at wrote into it. *)
(* ReadPathAgrees, below, checks this against the loop the code runs.       *)
Served(rows, inv) ==
    [f \in Fields |-> IF Writers(rows, inv, f) = {} THEN Base[inv][f]
                      ELSE WrittenValue(Latest(Writers(rows, inv, f)).payload)]

EffectiveInvoice(inv) == Served(amendments, inv)

-----------------------------------------------------------------------------
(* The write routes.                                                         *)

Ids == DOMAIN proposals

(* ALLOWED_TRANSITIONS *)
TransitionRevised(action) == CASE action = "APPROVE" -> <<"PROPOSED", "APPROVED">>
                               [] action = "REJECT"  -> <<"APPROVED", "REJECTED">>  \* a slip
                               [] action = "APPLY"   -> <<"APPROVED", "APPLIED">>
Transition(action) == CASE action = "APPROVE" -> <<"PROPOSED", "APPROVED">>
                        [] action = "REJECT"  -> <<"PROPOSED", "REJECTED">>
                        [] action = "APPLY"   -> <<"APPROVED", "APPLIED">>

Permitted(id, action) == proposals[id].status = Transition(action)[1]

(* POST /ProposeCorrection.  The invoice must be known; that the payload     *)
(* names the same invoice is not checked.                                    *)
Propose(r) ==
    /\ Len(proposals) < MaxProposals
    /\ proposals' = Append(proposals,
           [invoice_number |-> r.invoice_number, payload |-> r.payload,
            payload_hash |-> PayloadHash(r.payload), status |-> "PROPOSED",
            approved_by |-> Nobody, approved_hash |-> NoHash, rejected_by |-> Nobody])
    /\ UNCHANGED amendments

(* Answer of POST /approval/proposals/{id}/approve and /reject. *)
VerdictOutcome(id, action) ==
    IF id \notin Ids THEN "PROPOSAL_NOT_FOUND"
    ELSE IF ~Permitted(id, action) THEN "ILLEGAL_TRANSITION"
    ELSE Transition(action)[2]

Approve(id, who) ==
    /\ VerdictOutcome(id, "APPROVE") = "APPROVED"
    /\ proposals' = [proposals EXCEPT ![id] = [@ EXCEPT !.status = "APPROVED",
                                                       !.approved_by = who,
                                                       !.approved_hash = proposals[id].payload_hash]]
    /\ UNCHANGED amendments

Reject(id, who) ==
    /\ VerdictOutcome(id, "REJECT") = "REJECTED"
    /\ proposals' = [proposals EXCEPT ![id] = [@ EXCEPT !.status = "REJECTED",
                                                       !.rejected_by = who]]
    /\ UNCHANGED amendments

(* Answer of POST /ApplyCorrection: the checks of repository.apply in order. *)
ApplyAnyPayload(id, p) ==                 \* a slip: the hash is not compared
    IF id \notin Ids THEN "PROPOSAL_NOT_FOUND"
    ELSE IF ~Permitted(id, "APPLY") THEN "ILLEGAL_TRANSITION"
    ELSE IF StaleConflict(EffectiveInvoice(proposals[id].invoice_number), p) # NoConflict
    THEN "STALE_PROPOSAL" ELSE "APPLIED"
ApplyAgain(id, p) ==                      \* a slip: an applied proposal is applied again
    IF id \notin Ids THEN "PROPOSAL_NOT_FOUND"
    ELSE IF proposals[id].status \notin {"APPROVED", "APPLIED"} THEN "ILLEGAL_TRANSITION"
    ELSE IF PayloadHash(p) # proposals[id].approved_hash THEN "PAYLOAD_MISMATCH"
    ELSE IF StaleConflict(EffectiveInvoice(proposals[id].invoice_number), p) # NoConflict
    THEN "STALE_PROPOSAL" ELSE "APPLIED"
ApplyOverBase(id, p) ==                   \* a slip: compared with the loaded document
    IF id \notin Ids THEN "PROPOSAL_NOT_FOUND"
    ELSE IF ~Permitted(id, "APPLY") THEN "ILLEGAL_TRANSITION"
    ELSE IF PayloadHash(p) # proposals[id].approved_hash THEN "PAYLOAD_MISMATCH"
    ELSE IF StaleConflict(Base[proposals[id].invoice_number], p) # NoConflict
    THEN "STALE_PROPOSAL" ELSE "APPLIED"
ApplyOutcome(id, p) ==
    IF id \notin Ids THEN "PROPOSAL_NOT_FOUND"
    ELSE LET row == proposals[id]
             conflict == StaleConflict(EffectiveInvoice(row.invoice_number), p) IN
    IF row.status = "APPLIED" /\ PayloadHash(p) = row.approved_hash THEN "ALREADY_APPLIED"
    ELSE IF ~Permitted(id, "APPLY") THEN "ILLEGAL_TRANSITION"
    ELSE IF PayloadHash(p) # row.approved_hash THEN "PAYLOAD_MISMATCH"
    ELSE IF conflict # NoConflict THEN conflict
    ELSE "APPLIED"

(* datetime.now(UTC) when an amendment is stored.  Two applies are separated *)
(* by a committed transaction, so no reading repeats; unless the clock was   *)
(* set back in between, a later apply reads a later time.                    *)
ClockReading(t) == \A a \in amendments :
    IF ClockStepsBack THEN t # a.applied_at ELSE t > a.applied_at

Apply(id, p, t) ==
    /\ ApplyOutcome(id, p) = "APPLIED"
    /\ ClockReading(t)
    /\ amendments' = amendments \cup
           {[proposal_id |-> id, invoice_number |-> proposals[id].invoice_number,
             payload |-> p, applied_at |-> t]}
    /\ proposals' = [proposals EXCEPT ![id] = [@ EXCEPT !.status = "APPLIED"]]

-----------------------------------------------------------------------------
Init == proposals = <<>> /\ amendments = {}

(* Readings of the clock matter only by their order: as many as there can be *)
(* amendments are enough to tell every order apart.                          *)
Times == 1..MaxProposals

Next ==
    \/ \E r \in Requests : Propose(r)
    \/ \E id \in Ids, who \in Reviewers : Approve(id, who)
    \/ \E id \in Ids, who \in Reviewers : Reject(id, who)
    \/ \E id \in Ids, r \in Requests, t \in Times : Apply(id, r.payload, t)

Spec == Init /\ [][Next]_vars

-----------------------------------------------------------------------------
(* Properties.                                                               *)

TypeOK ==
    /\ proposals \in Seq(Proposal)
    /\ amendments \subseteq Amendment

BackedByApproval(a) ==
    /\ a.proposal_id \in Ids
    /\ LET row == proposals[a.proposal_id] IN
       /\ row.status = "APPLIED"
       /\ row.approved_by \in Reviewers /\ row.rejected_by = Nobody
       /\ row.invoice_number = a.invoice_number
       /\ row.payload = a.payload
       /\ row.approved_hash = PayloadHash(a.payload)

(* Every stored amendment belongs to a proposal a human approved, for that   *)
(* proposal's invoice, and is the payload whose hash the approver's verdict  *)
(* was recorded over: nothing unapproved, altered or rejected reaches a      *)
(* document (repository.apply's transition and hash checks).                 *)
OnlyApprovedIsStored == \A a \in amendments : BackedByApproval(a)

(* A proposal is APPLIED exactly when one amendment of it is stored: the two *)
(* tables agree, and no retry of the apply stores a second amendment.        *)
AppliedExactlyOnce ==
    \A id \in Ids :
        LET rows == {a \in amendments : a.proposal_id = id} IN
        /\ proposals[id].status = "APPLIED" <=> rows # {}
        /\ \A a, b \in rows : a = b

(* No approved decision is silently undone: in the order reads lay the       *)
(* amendments over the base, each one fits the document just before it.      *)
(* The check is made when the amendment is applied, the order is decided by  *)
(* applied_at whenever anybody reads; this relates the two.                  *)
EarlierThan(a) == {b \in amendments : b.applied_at < a.applied_at}

NoLostUpdate ==
    \A a \in amendments :
        StaleConflict(Served(EarlierThan(a), a.invoice_number), a.payload) = NoConflict

(* What a verdict was given on never changes after it, a verdict is never    *)
(* revised, and no proposal disappears.                                      *)
RowMovesOn(old, new) ==
    /\ new.invoice_number = old.invoice_number
    /\ new.payload = old.payload /\ new.payload_hash = old.payload_hash
    /\ old.status = "PROPOSED" => new.status \in {"PROPOSED", "APPROVED", "REJECTED"}
    /\ old.status = "APPROVED" => /\ new.status \in {"APPROVED", "APPLIED"}
                                  /\ new.approved_by = old.approved_by
                                  /\ new.approved_hash = old.approved_hash
    /\ old.status \in {"REJECTED", "APPLIED"} => new = old

VerdictStep == /\ Len(proposals') >= Len(proposals)
               /\ \A id \in Ids : RowMovesOn(proposals[id], proposals'[id])

VerdictIsFinal == [][VerdictStep]_vars

(* A correction that was just applied is what reads serve: the review UI     *)
(* announces "Applied. The invoice now reflects the correction."             *)
AppliedIsServed ==
    [][\A a \in amendments' \ amendments :
          Served(amendments', a.invoice_number)[FieldOf(a.payload)]
              = WrittenValue(a.payload)]_vars

(* The loop the read path runs, over the rows in the order of applied_at,    *)
(* serves what Served defines field by field.                                *)
InOrder(rows) ==
    CHOOSE s \in [1..Cardinality(rows) -> rows] :
        /\ {s[i] : i \in DOMAIN s} = rows
        /\ \A i, j \in DOMAIN s : i < j => s[i].applied_at < s[j].applied_at

ReadPathAgrees ==
    \A inv \in Invoices :
        LET rows == InOrder({a \in amendments : a.invoice_number = inv})
            payloads == [n \in DOMAIN rows |-> rows[n].payload] IN
        ApplyAmendments(inv, payloads) = EffectiveInvoice(inv)

(* The gate implements documents corrected in place by granted requests.     *)
StageOf(status) == CASE status = "PROPOSED" -> "open"
                     [] status = "APPROVED" -> "granted"
                     [] status = "REJECTED" -> "refused"
                     [] status = "APPLIED"  -> "done"

requestsBar == [id \in Ids |-> [invoice_number |-> proposals[id].invoice_number,
                                payload |-> proposals[id].payload,
                                stage |-> StageOf(proposals[id].status)]]
documentBar == [inv \in Invoices |-> EffectiveInvoice(inv)]

Gate == INSTANCE DocumentGate WITH requests <- requestsBar, document <- documentBar

ImplementsGate == Gate!GateSpec

=============================================================================
