---------------------------- MODULE ApprovalProofs ----------------------------
(***************************************************************************)
(* Theorems about the approval gate, for every set of invoices, documents, *)
(* payload texts and reviewers, and any number of proposals.               *)
(***************************************************************************)
EXTENDS Approval, Induction, SequenceTheorems, FiniteSetTheorems, TLAPS

(* What the verdict columns of a row hold at each status; together with     *)
(* TypeOK it is what makes OnlyApprovedIsStored inductive.                  *)
RowsCoherent ==
    \A id \in Ids :
        LET row == proposals[id] IN
        /\ row.payload_hash = PayloadHash(row.payload)
        /\ row.status # "REJECTED" => row.rejected_by = Nobody
        /\ row.status \in {"APPROVED", "APPLIED"} =>
               row.approved_by \in Reviewers /\ row.approved_hash = row.payload_hash

(* The hash tells payloads apart. *)
LEMMA HashInjective ==
    ASSUME NEW p, NEW q, PayloadHash(p) = PayloadHash(q)
    PROVE  p = q
BY DEF PayloadHash

(* The answers of the staleness check are no other answer of an apply.       *)
LEMMA ConflictCodes ==
    ASSUME NEW document, NEW p
    PROVE  StaleConflict(document, p)
               \in {NoConflict, "STALE_PROPOSAL", "UNKNOWN_INVOICE_ITEM"}
BY DEF StaleConflict

(* What an applied request has established: its proposal is approved, and    *)
(* its payload has the hash that was approved and fits the document.         *)
LEMMA ApplyChecks ==
    ASSUME NEW id \in Ids, NEW p, ApplyOutcome(id, p) = "APPLIED"
    PROVE  /\ proposals[id].status = "APPROVED"
           /\ PayloadHash(p) = proposals[id].approved_hash
           /\ StaleConflict(EffectiveInvoice(proposals[id].invoice_number), p) = NoConflict
BY ConflictCodes DEF ApplyOutcome, Permitted, Transition

LEMMA VerdictChecks ==
    ASSUME NEW id \in Ids
    PROVE  /\ VerdictOutcome(id, "APPROVE") = "APPROVED" => proposals[id].status = "PROPOSED"
           /\ VerdictOutcome(id, "REJECT") = "REJECTED" => proposals[id].status = "PROPOSED"
BY DEF VerdictOutcome, Permitted, Transition

-----------------------------------------------------------------------------
(* How a step changes the table of proposals: one row is appended, or one    *)
(* row is replaced and the others are left alone.                            *)

LEMMA RowAppended ==
    ASSUME TypeOK, NEW row \in Proposal, proposals' = Append(proposals, row)
    PROVE  /\ proposals' \in Seq(Proposal)
           /\ Len(proposals) \in Nat
           /\ Ids = 1..Len(proposals) /\ Ids' = 1..(Len(proposals) + 1)
           /\ Len(proposals') = Len(proposals) + 1
           /\ proposals'[Len(proposals) + 1] = row
           /\ \A j \in Ids : proposals'[j] = proposals[j]
BY DEF TypeOK, Ids

LEMMA RowReplaced ==
    ASSUME TypeOK, NEW id \in Ids, NEW row \in Proposal,
           proposals' = [proposals EXCEPT ![id] = row]
    PROVE  /\ proposals' \in Seq(Proposal)
           /\ Ids' = Ids /\ Len(proposals') = Len(proposals)
           /\ proposals'[id] = row
           /\ \A j \in Ids \ {id} : proposals'[j] = proposals[j]
<1>1. proposals \in Seq(Proposal) /\ id \in 1..Len(proposals)
  BY LenProperties DEF TypeOK, Ids
<1>2. /\ proposals' \in Seq(Proposal)
      /\ Len(proposals') = Len(proposals)
      /\ \A j \in 1..Len(proposals) : proposals'[j] = IF j = id THEN row ELSE proposals[j]
  BY <1>1, ExceptSeq
<1> QED
  BY <1>1, <1>2, LenProperties DEF Ids

(* The row each action writes. *)
LEMMA ProposedRow ==
    ASSUME TypeOK, NEW r \in Requests, Propose(r)
    PROVE  \E row \in Proposal :
               /\ proposals' = Append(proposals, row)
               /\ row.invoice_number = r.invoice_number /\ row.payload = r.payload
               /\ row.status = "PROPOSED" /\ row.rejected_by = Nobody
               /\ row.payload_hash = PayloadHash(row.payload)
BY ApprovalAssumption DEF Propose, Proposal, Hashes, PayloadHash, Statuses

LEMMA ApprovedRow ==
    ASSUME TypeOK, NEW id \in Ids, NEW who \in Reviewers, Approve(id, who)
    PROVE  \E row \in Proposal :
               /\ proposals' = [proposals EXCEPT ![id] = row]
               /\ row = [proposals[id] EXCEPT !.status = "APPROVED", !.approved_by = who,
                                 !.approved_hash = proposals[id].payload_hash]
               /\ proposals[id] \in Proposal /\ proposals[id].status = "PROPOSED"
<1>1. proposals[id] \in Proposal
  BY DEF TypeOK, Ids
<1>2. [proposals[id] EXCEPT !.status = "APPROVED", !.approved_by = who,
                            !.approved_hash = proposals[id].payload_hash] \in Proposal
  BY <1>1 DEF Proposal, Statuses
<1> QED
  BY <1>1, <1>2, VerdictChecks DEF Approve

LEMMA RejectedRow ==
    ASSUME TypeOK, NEW id \in Ids, NEW who \in Reviewers, Reject(id, who)
    PROVE  \E row \in Proposal :
               /\ proposals' = [proposals EXCEPT ![id] = row]
               /\ row = [proposals[id] EXCEPT !.status = "REJECTED", !.rejected_by = who]
               /\ proposals[id] \in Proposal /\ proposals[id].status = "PROPOSED"
<1>1. proposals[id] \in Proposal
  BY DEF TypeOK, Ids
<1>2. [proposals[id] EXCEPT !.status = "REJECTED", !.rejected_by = who] \in Proposal
  BY <1>1 DEF Proposal, Statuses
<1> QED
  BY <1>1, <1>2, VerdictChecks DEF Reject

LEMMA AppliedRow ==
    ASSUME TypeOK, NEW id \in Ids, NEW p, NEW t, Apply(id, p, t)
    PROVE  \E row \in Proposal :
               /\ proposals' = [proposals EXCEPT ![id] = row]
               /\ row = [proposals[id] EXCEPT !.status = "APPLIED"]
               /\ proposals[id] \in Proposal /\ proposals[id].status = "APPROVED"
<1>1. proposals[id] \in Proposal
  BY DEF TypeOK, Ids
<1>2. [proposals[id] EXCEPT !.status = "APPLIED"] \in Proposal
  BY <1>1 DEF Proposal, Statuses
<1> QED
  BY <1>1, <1>2, ApplyChecks DEF Apply

-----------------------------------------------------------------------------
(* Type correctness. *)
THEOREM TypeCorrect == Spec => []TypeOK
<1>1. Init => TypeOK
  BY DEF Init, TypeOK
<1>2. TypeOK /\ [Next]_vars => TypeOK'
  <2> SUFFICES ASSUME TypeOK, [Next]_vars PROVE TypeOK'
    OBVIOUS
  <2>1. ASSUME NEW r \in Requests, Propose(r) PROVE TypeOK'
    BY <2>1, ProposedRow, RowAppended DEF TypeOK, Propose
  <2>2. ASSUME NEW id \in Ids, NEW who \in Reviewers, Approve(id, who) PROVE TypeOK'
    BY <2>2, ApprovedRow, RowReplaced DEF TypeOK, Approve
  <2>3. ASSUME NEW id \in Ids, NEW who \in Reviewers, Reject(id, who) PROVE TypeOK'
    BY <2>3, RejectedRow, RowReplaced DEF TypeOK, Reject
  <2>4. ASSUME NEW id \in Ids, NEW r \in Requests, NEW t \in Times, Apply(id, r.payload, t)
        PROVE  TypeOK'
    <3>1. proposals' \in Seq(Proposal)
      BY <2>4, AppliedRow, RowReplaced
    <3>2. id \in Nat \ {0} /\ proposals[id].invoice_number \in Invoices
      BY <2>4, AppliedRow, LenProperties DEF TypeOK, Ids, Proposal
    <3>3. r.payload \in Payload /\ t \in Nat
      BY ApprovalAssumption DEF Times
    <3>4. amendments' \subseteq Amendment
      BY <2>4, <3>2, <3>3 DEF TypeOK, Apply, Amendment
    <3> QED
      BY <3>1, <3>4 DEF TypeOK
  <2>5. CASE UNCHANGED vars
    BY <2>5 DEF TypeOK, vars
  <2> QED
    BY <2>1, <2>2, <2>3, <2>4, <2>5 DEF Next
<1> QED
  BY <1>1, <1>2, PTL DEF Spec

-----------------------------------------------------------------------------
(* The safety of the gate.                                                   *)

GateInv == TypeOK /\ RowsCoherent /\ OnlyApprovedIsStored /\ AppliedExactlyOnce

(* A verdict or a proposal touches only rows that have no amendment stored,  *)
(* so it keeps the invariant if it keeps the rows coherent.                  *)
LEMMA VerdictKeepsInv ==
    ASSUME GateInv, NEW id \in Ids, NEW row \in Proposal,
           proposals' = [proposals EXCEPT ![id] = row], amendments' = amendments,
           proposals[id].status = "PROPOSED", row.status \in {"APPROVED", "REJECTED"},
           row.payload = proposals[id].payload,
           row.payload_hash = proposals[id].payload_hash,
           row.status = "APPROVED" => /\ row.approved_by \in Reviewers
                                      /\ row.approved_hash = row.payload_hash
                                      /\ row.rejected_by = Nobody
    PROVE  GateInv'
<1>1. /\ proposals' \in Seq(Proposal) /\ Ids' = Ids
      /\ proposals'[id] = row
      /\ \A j \in Ids \ {id} : proposals'[j] = proposals[j]
  BY RowReplaced DEF GateInv
<1>2. TypeOK'
  BY <1>1 DEF GateInv, TypeOK
<1>3. RowsCoherent'
  BY <1>1 DEF GateInv, RowsCoherent
<1>4. \A a \in amendments : a.proposal_id # id
  BY DEF GateInv, OnlyApprovedIsStored, BackedByApproval
<1>5. OnlyApprovedIsStored'
  BY <1>1, <1>4 DEF GateInv, OnlyApprovedIsStored, BackedByApproval
<1>6. AppliedExactlyOnce'
  BY <1>1, <1>4 DEF GateInv, AppliedExactlyOnce
<1> QED
  BY <1>2, <1>3, <1>5, <1>6 DEF GateInv

LEMMA ProposeKeepsInv ==
    ASSUME GateInv, TypeOK', NEW r \in Requests, Propose(r)
    PROVE  GateInv'
<1>1. PICK row \in Proposal :
          /\ proposals' = Append(proposals, row)
          /\ row.status = "PROPOSED" /\ row.rejected_by = Nobody
          /\ row.payload_hash = PayloadHash(row.payload)
  BY ProposedRow DEF GateInv
<1> DEFINE n == Len(proposals) + 1
<1>2. /\ Len(proposals) \in Nat
      /\ Ids = 1..Len(proposals) /\ Ids' = 1..n
      /\ proposals'[n] = row
      /\ \A j \in Ids : proposals'[j] = proposals[j]
  BY <1>1, RowAppended DEF GateInv
<1>3. Ids' = Ids \cup {n} /\ n \notin Ids /\ amendments' = amendments
  BY <1>2 DEF Propose
<1> HIDE DEF n
<1>4. RowsCoherent'
  BY <1>1, <1>2, <1>3 DEF GateInv, RowsCoherent
<1>5. OnlyApprovedIsStored'
  BY <1>2, <1>3 DEF GateInv, OnlyApprovedIsStored, BackedByApproval
<1>6. \A a \in amendments : a.proposal_id # n
  BY <1>3 DEF GateInv, OnlyApprovedIsStored, BackedByApproval
<1>7. AppliedExactlyOnce'
  BY <1>1, <1>2, <1>3, <1>6 DEF GateInv, AppliedExactlyOnce
<1> QED
  BY <1>4, <1>5, <1>7 DEF GateInv

LEMMA ApplyKeepsInv ==
    ASSUME GateInv, TypeOK', NEW id \in Ids, NEW p, NEW t, Apply(id, p, t)
    PROVE  GateInv'
<1> DEFINE x == [proposal_id |-> id, invoice_number |-> proposals[id].invoice_number,
                 payload |-> p, applied_at |-> t]
<1>1. PICK row \in Proposal :
          /\ proposals' = [proposals EXCEPT ![id] = row]
          /\ row = [proposals[id] EXCEPT !.status = "APPLIED"]
          /\ proposals[id] \in Proposal /\ proposals[id].status = "APPROVED"
  BY AppliedRow DEF GateInv
<1>2. /\ Ids' = Ids /\ proposals'[id] = row
      /\ \A j \in Ids \ {id} : proposals'[j] = proposals[j]
  BY <1>1, RowReplaced DEF GateInv
<1>3. /\ row.status = "APPLIED" /\ row.payload = proposals[id].payload
      /\ row.payload_hash = proposals[id].payload_hash
      /\ row.invoice_number = proposals[id].invoice_number
      /\ row.approved_by = proposals[id].approved_by
      /\ row.approved_hash = proposals[id].approved_hash
      /\ row.rejected_by = proposals[id].rejected_by
  BY <1>1 DEF Proposal
<1>4. amendments' = amendments \cup {x}
  BY DEF Apply
<1>5. /\ PayloadHash(p) = row.approved_hash
      /\ row.approved_by \in Reviewers /\ row.rejected_by = Nobody
      /\ row.payload_hash = PayloadHash(row.payload)
      /\ row.approved_hash = row.payload_hash
  BY <1>1, <1>3, ApplyChecks DEF GateInv, RowsCoherent, Apply
<1>6. row.payload = p
  BY <1>5, HashInjective
<1>7. RowsCoherent'
  BY <1>2, <1>3, <1>5 DEF GateInv, RowsCoherent
<1>8. \A a \in amendments : a.proposal_id # id
  BY <1>1 DEF GateInv, OnlyApprovedIsStored, BackedByApproval
<1>9. OnlyApprovedIsStored'
  <2>1. ASSUME NEW a \in amendments PROVE BackedByApproval(a)'
    <3>1. a.proposal_id \in Ids \ {id} /\ BackedByApproval(a)
      BY <1>8 DEF GateInv, OnlyApprovedIsStored, BackedByApproval
    <3> QED
      BY <3>1, <1>2 DEF BackedByApproval
  <2>2. ASSUME NEW a, a = x PROVE BackedByApproval(a)'
    BY <2>2, <1>2, <1>3, <1>5, <1>6 DEF BackedByApproval
  <2> QED
    BY <2>1, <2>2, <1>4 DEF OnlyApprovedIsStored
<1>10. AppliedExactlyOnce'
  <2>1. x.proposal_id = id
    OBVIOUS
  <2> HIDE DEF x
  <2>2. ASSUME NEW j \in Ids \ {id}
        PROVE  {a \in amendments' : a.proposal_id = j} = {a \in amendments : a.proposal_id = j}
    BY <1>4, <2>1
  <2>3. {a \in amendments' : a.proposal_id = id} = {x}
    BY <1>4, <1>8, <2>1
  <2> QED
    BY <1>2, <1>3, <2>2, <2>3 DEF GateInv, AppliedExactlyOnce
<1> QED
  BY <1>7, <1>9, <1>10 DEF GateInv

LEMMA GateInvariant == Spec => []GateInv
<1>1. Init => GateInv
  BY DEF Init, GateInv, TypeOK, RowsCoherent, OnlyApprovedIsStored, BackedByApproval,
         AppliedExactlyOnce, Ids
<1>2. GateInv /\ TypeOK' /\ [Next]_vars => GateInv'
  <2> SUFFICES ASSUME GateInv, TypeOK', [Next]_vars PROVE GateInv'
    OBVIOUS
  <2>1. ASSUME NEW r \in Requests, Propose(r) PROVE GateInv'
    BY <2>1, ProposeKeepsInv
  <2>2. ASSUME NEW id \in Ids, NEW who \in Reviewers, Approve(id, who) PROVE GateInv'
    <3>1. PICK row \in Proposal :
              /\ proposals' = [proposals EXCEPT ![id] = row]
              /\ row = [proposals[id] EXCEPT !.status = "APPROVED", !.approved_by = who,
                                !.approved_hash = proposals[id].payload_hash]
              /\ proposals[id] \in Proposal /\ proposals[id].status = "PROPOSED"
      BY <2>2, ApprovedRow DEF GateInv
    <3>2. /\ row.status = "APPROVED" /\ row.payload = proposals[id].payload
          /\ row.payload_hash = proposals[id].payload_hash
          /\ row.approved_by = who /\ row.approved_hash = row.payload_hash
          /\ row.rejected_by = proposals[id].rejected_by
      BY <3>1 DEF Proposal
    <3>3. row.rejected_by = Nobody /\ amendments' = amendments
      BY <2>2, <3>1, <3>2 DEF GateInv, RowsCoherent, Approve
    <3> QED
      BY <3>1, <3>2, <3>3, VerdictKeepsInv
  <2>3. ASSUME NEW id \in Ids, NEW who \in Reviewers, Reject(id, who) PROVE GateInv'
    <3>1. PICK row \in Proposal :
              /\ proposals' = [proposals EXCEPT ![id] = row]
              /\ row = [proposals[id] EXCEPT !.status = "REJECTED", !.rejected_by = who]
              /\ proposals[id] \in Proposal /\ proposals[id].status = "PROPOSED"
      BY <2>3, RejectedRow DEF GateInv
    <3>2. /\ row.status = "REJECTED" /\ row.payload = proposals[id].payload
          /\ row.payload_hash = proposals[id].payload_hash
      BY <3>1 DEF Proposal
    <3> QED
      BY <2>3, <3>1, <3>2, VerdictKeepsInv DEF Reject
  <2>4. ASSUME NEW id \in Ids, NEW r \in Requests, NEW t \in Times, Apply(id, r.payload, t)
        PROVE  GateInv'
    BY <2>4, ApplyKeepsInv
  <2>5. CASE UNCHANGED vars
    BY <2>5 DEF vars, GateInv, TypeOK, RowsCoherent, OnlyApprovedIsStored, BackedByApproval,
                AppliedExactlyOnce, Ids
  <2> QED
    BY <2>1, <2>2, <2>3, <2>4, <2>5 DEF Next
<1> QED
  BY <1>1, <1>2, TypeCorrect, PTL DEF Spec

(* Nothing unapproved, altered or rejected is ever stored as an amendment.   *)
THEOREM ApprovedOnly == Spec => []OnlyApprovedIsStored
BY GateInvariant, PTL DEF GateInv

(* The status of a proposal and the table of amendments never disagree.      *)
THEOREM AppliedOnce == Spec => []AppliedExactlyOnce
BY GateInvariant, PTL DEF GateInv

-----------------------------------------------------------------------------
(* No action revises a verdict.                                              *)

LEMMA RowStays ==
    ASSUME NEW row \in Proposal
    PROVE  RowMovesOn(row, row)
BY DEF RowMovesOn, Proposal, Statuses

LEMMA ReplacementMovesOn ==
    ASSUME TypeOK, NEW id \in Ids, NEW row \in Proposal,
           proposals' = [proposals EXCEPT ![id] = row],
           RowMovesOn(proposals[id], row)
    PROVE  VerdictStep
<1>1. /\ Len(proposals') = Len(proposals) /\ proposals'[id] = row
      /\ \A j \in Ids \ {id} : proposals'[j] = proposals[j]
  BY RowReplaced
<1>2. Len(proposals) \in Nat /\ \A j \in Ids : proposals[j] \in Proposal
  BY LenProperties DEF TypeOK, Ids
<1>3. ASSUME NEW j \in Ids PROVE RowMovesOn(proposals[j], proposals'[j])
  <2>1. CASE j = id
    BY <1>1, <2>1
  <2>2. CASE j # id
    BY <1>1, <1>2, <2>2, RowStays
  <2> QED
    BY <2>1, <2>2
<1> QED
  BY <1>1, <1>2, <1>3 DEF VerdictStep

(* What a verdict was given on, and the verdict, stand for ever; a proposal  *)
(* moves only along ALLOWED_TRANSITIONS.                                     *)
THEOREM VerdictsAreFinal == Spec => VerdictIsFinal
<1>1. TypeOK /\ [Next]_vars => [VerdictStep]_vars
  <2> SUFFICES ASSUME TypeOK, Next PROVE VerdictStep
    OBVIOUS
  <2>1. ASSUME NEW r \in Requests, Propose(r) PROVE VerdictStep
    <3>1. PICK row \in Proposal : proposals' = Append(proposals, row)
      BY <2>1, ProposedRow
    <3>2. /\ Len(proposals) \in Nat /\ Len(proposals') = Len(proposals) + 1
          /\ \A j \in Ids : proposals'[j] = proposals[j]
      BY <3>1, RowAppended
    <3>3. \A j \in Ids : proposals[j] \in Proposal
      BY DEF TypeOK, Ids
    <3> QED
      BY <3>2, <3>3, RowStays DEF VerdictStep
  <2>2. ASSUME NEW id \in Ids, NEW who \in Reviewers, Approve(id, who) PROVE VerdictStep
    <3>1. PICK row \in Proposal :
              /\ proposals' = [proposals EXCEPT ![id] = row]
              /\ row = [proposals[id] EXCEPT !.status = "APPROVED", !.approved_by = who,
                                !.approved_hash = proposals[id].payload_hash]
              /\ proposals[id] \in Proposal /\ proposals[id].status = "PROPOSED"
      BY <2>2, ApprovedRow
    <3>2. RowMovesOn(proposals[id], row)
      BY <3>1 DEF RowMovesOn, Proposal
    <3> QED
      BY <3>1, <3>2, ReplacementMovesOn
  <2>3. ASSUME NEW id \in Ids, NEW who \in Reviewers, Reject(id, who) PROVE VerdictStep
    <3>1. PICK row \in Proposal :
              /\ proposals' = [proposals EXCEPT ![id] = row]
              /\ row = [proposals[id] EXCEPT !.status = "REJECTED", !.rejected_by = who]
              /\ proposals[id] \in Proposal /\ proposals[id].status = "PROPOSED"
      BY <2>3, RejectedRow
    <3>2. RowMovesOn(proposals[id], row)
      BY <3>1 DEF RowMovesOn, Proposal
    <3> QED
      BY <3>1, <3>2, ReplacementMovesOn
  <2>4. ASSUME NEW id \in Ids, NEW r \in Requests, NEW t \in Times, Apply(id, r.payload, t)
        PROVE  VerdictStep
    <3>1. PICK row \in Proposal :
              /\ proposals' = [proposals EXCEPT ![id] = row]
              /\ row = [proposals[id] EXCEPT !.status = "APPLIED"]
              /\ proposals[id] \in Proposal /\ proposals[id].status = "APPROVED"
      BY <2>4, AppliedRow
    <3>2. RowMovesOn(proposals[id], row)
      BY <3>1 DEF RowMovesOn, Proposal
    <3> QED
      BY <3>1, <3>2, ReplacementMovesOn
  <2> QED
    BY <2>1, <2>2, <2>3, <2>4 DEF Next
<1> QED
  BY <1>1, TypeCorrect, PTL DEF Spec, VerdictIsFinal

-----------------------------------------------------------------------------
(* Under a clock that is never set back, no applied correction is undone     *)
(* and the gate implements documents corrected in place (DocumentGate).      *)
(* Both rest on one fact about the read path: an amendment stored with the   *)
(* latest applied_at changes the served document exactly as one iteration    *)
(* of the overlay loop changes it.                                           *)

(* With a clock that is never set back, an amendment is stored later than    *)
(* every amendment already there.                                            *)
LEMMA ReadingIsLatest ==
    ASSUME ~ClockStepsBack, NEW t, ClockReading(t)
    PROVE  \A a \in amendments : t > a.applied_at
BY DEF ClockReading

(* The amendment an apply stores. *)
LEMMA StoredAmendment ==
    ASSUME NEW id, NEW p, NEW t, Apply(id, p, t)
    PROVE  \E x : /\ amendments' = amendments \cup {x}
                  /\ x.applied_at = t /\ x.payload = p
                  /\ x.invoice_number = proposals[id].invoice_number
<1> DEFINE x == [proposal_id |-> id, invoice_number |-> proposals[id].invoice_number,
                 payload |-> p, applied_at |-> t]
<1>1. amendments' = amendments \cup {x}
  BY DEF Apply
<1>2. x.applied_at = t /\ x.payload = p /\ x.invoice_number = proposals[id].invoice_number
  OBVIOUS
<1> QED
  BY <1>1, <1>2

LEMMA FieldOfIsField ==
    ASSUME NEW p \in Payload
    PROVE  FieldOf(p) \in Fields
BY DEF FieldOf, Fields, Payload, AmendPayload, ReleasePayload, RejectPayload,
       AmendQuantity, AmendPrice, ReleaseBlock, RejectInvoice

(* Laying the newest amendment over the rows amends the served document.     *)
LEMMA NewestAmends ==
    ASSUME NEW rows \in SUBSET Amendment, NEW x \in Amendment,
           \A a \in rows : x.applied_at > a.applied_at,
           NEW inv \in Invoices
    PROVE  Served(rows \cup {x}, inv) =
               IF x.invoice_number = inv THEN Amended(inv, Served(rows, inv), x.payload)
                                         ELSE Served(rows, inv)
<1> DEFINE writes(f) == /\ x.invoice_number = inv /\ FieldOf(x.payload) = f
                        /\ TakesEffect(inv, x.payload)
<1>1. x \in Amendment /\ x.payload \in Payload /\ x.applied_at \in Nat
  BY DEF Amendment
<1>2. FieldOf(x.payload) \in Fields
  BY <1>1, FieldOfIsField
<1>3. ASSUME NEW f \in Fields, writes(f)
      PROVE  Served(rows \cup {x}, inv)[f] = WrittenValue(x.payload)
  <2> DEFINE W == Writers(rows \cup {x}, inv, f)
  <2>1. x \in W /\ \A b \in W : b = x \/ x.applied_at > b.applied_at
    BY <1>3 DEF Writers
  <2>2. \A b \in W : b.applied_at \in Nat
    BY DEF Writers, Amendment
  <2> HIDE DEF W
  <2>3. \A b \in W : (\A c \in W : c.applied_at <= b.applied_at) => b = x
    BY <2>1, <2>2
  <2>4. \A b \in W : b.applied_at <= x.applied_at
    BY <2>1, <2>2, <1>1
  <2>5. Latest(W) = x
    BY <2>1, <2>3, <2>4 DEF Latest
  <2> QED
    BY <2>1, <2>5 DEF Served, W
<1>4. ASSUME NEW f \in Fields, ~writes(f)
      PROVE  Served(rows \cup {x}, inv)[f] = Served(rows, inv)[f]
  <2>1. Writers(rows \cup {x}, inv, f) = Writers(rows, inv, f)
    BY <1>4 DEF Writers
  <2> QED
    BY <2>1 DEF Served
<1>5. \A r : Served(r, inv) = [f \in Fields |-> Served(r, inv)[f]]
  BY DEF Served
<1>6. CASE x.invoice_number = inv /\ TakesEffect(inv, x.payload)
  <2> DEFINE amended == [Served(rows, inv) EXCEPT ![FieldOf(x.payload)]
                             = WrittenValue(x.payload)]
  <2>1. amended = [f \in Fields |-> IF f = FieldOf(x.payload) THEN WrittenValue(x.payload)
                                    ELSE Served(rows, inv)[f]]
    BY DEF Served
  <2>2. \A f \in Fields : Served(rows \cup {x}, inv)[f] = amended[f]
    BY <1>3, <1>4, <1>6, <2>1
  <2>3. Served(rows \cup {x}, inv) = amended
    BY <1>5, <2>1, <2>2
  <2> QED
    BY <1>6, <2>3 DEF Amended
<1>7. CASE ~(x.invoice_number = inv /\ TakesEffect(inv, x.payload))
  <2>1. \A f \in Fields : Served(rows \cup {x}, inv)[f] = Served(rows, inv)[f]
    BY <1>4, <1>7
  <2>2. Served(rows \cup {x}, inv) = Served(rows, inv)
    BY <1>5, <2>1
  <2> QED
    BY <1>7, <2>2 DEF Amended
<1> QED
  BY <1>6, <1>7

(* No approved decision is silently undone.  Each amendment was checked      *)
(* against the document the rows before it served; no later amendment slips  *)
(* in before it, so that document is still the one it follows.               *)
THEOREM NoUpdateIsLost ==
    ASSUME ~ClockStepsBack
    PROVE  Spec => []NoLostUpdate
<1>1. Init => NoLostUpdate
  BY DEF Init, NoLostUpdate
<1>2. TypeOK /\ TypeOK' /\ NoLostUpdate /\ [Next]_vars => NoLostUpdate'
  <2> SUFFICES ASSUME TypeOK, TypeOK', NoLostUpdate, [Next]_vars PROVE NoLostUpdate'
    OBVIOUS
  <2>1. CASE amendments' = amendments
    BY <2>1 DEF NoLostUpdate, EarlierThan
  <2>2. ASSUME NEW id \in Ids, NEW r \in Requests, NEW t \in Times, Apply(id, r.payload, t)
        PROVE  NoLostUpdate'
    <3>1. PICK x : /\ amendments' = amendments \cup {x}
                   /\ x.applied_at = t /\ x.payload = r.payload
                   /\ x.invoice_number = proposals[id].invoice_number
      BY <2>2, StoredAmendment
    <3>2. \A a \in amendments : x.applied_at > a.applied_at
      BY <2>2, <3>1, ReadingIsLatest DEF Apply
    <3>3. x \in Amendment /\ \A a \in amendments : a.applied_at \in Nat
      BY <3>1 DEF TypeOK, Amendment
    <3>4. x.applied_at \in Nat
      BY <3>3 DEF Amendment
    <3>5. ASSUME NEW a \in amendments
          PROVE  {b \in amendments' : b.applied_at < a.applied_at} = EarlierThan(a)
      BY <3>1, <3>2, <3>3, <3>4 DEF EarlierThan
    <3>6. {b \in amendments' : b.applied_at < x.applied_at} = amendments
      BY <3>1, <3>2, <3>3, <3>4
    <3>7. StaleConflict(Served(amendments, x.invoice_number), x.payload) = NoConflict
      BY <2>2, <3>1, ApplyChecks DEF Apply, EffectiveInvoice
    <3>8. ASSUME NEW a \in amendments'
          PROVE  StaleConflict(Served({b \in amendments' : b.applied_at < a.applied_at},
                                      a.invoice_number), a.payload) = NoConflict
      <4>1. CASE a \in amendments
        BY <4>1, <3>5 DEF NoLostUpdate
      <4>2. CASE a = x
        BY <4>2, <3>6, <3>7
      <4> QED
        BY <4>1, <4>2, <3>1
    <3> QED
      BY <3>8 DEF NoLostUpdate, EarlierThan
  <2> QED
    BY <2>1, <2>2 DEF Next, Propose, Approve, Reject, vars
<1> QED
  BY <1>1, <1>2, TypeCorrect, PTL DEF Spec

-----------------------------------------------------------------------------
(* What a read serves.  The clock readings of the amendments are distinct,   *)
(* so the rows have one order and every field one latest writer.             *)

ReadingsInv ==
    /\ IsFiniteSet(amendments)
    /\ \A a \in amendments : a.applied_at <= MaxProposals
    /\ \A a, b \in amendments : a.applied_at = b.applied_at => a = b

LEMMA ReadingsInvariant == Spec => []ReadingsInv
<1>1. Init => ReadingsInv
  BY FS_EmptySet DEF Init, ReadingsInv
<1>2. TypeOK /\ ReadingsInv /\ [Next]_vars => ReadingsInv'
  <2> SUFFICES ASSUME TypeOK, ReadingsInv, [Next]_vars PROVE ReadingsInv'
    OBVIOUS
  <2>1. CASE amendments' = amendments
    BY <2>1 DEF ReadingsInv
  <2>2. ASSUME NEW id \in Ids, NEW r \in Requests, NEW t \in Times, Apply(id, r.payload, t)
        PROVE  ReadingsInv'
    <3>1. PICK x : amendments' = amendments \cup {x} /\ x.applied_at = t
      BY <2>2, StoredAmendment
    <3>2. \A a \in amendments : a.applied_at \in Nat /\ a.applied_at # t
      BY <2>2 DEF TypeOK, Amendment, Apply, ClockReading
    <3>3. t <= MaxProposals
      BY ApprovalAssumption DEF Times
    <3>4. IsFiniteSet(amendments')
      BY <3>1, FS_AddElement DEF ReadingsInv
    <3> QED
      BY <3>1, <3>2, <3>3, <3>4 DEF ReadingsInv
  <2> QED
    BY <2>1, <2>2 DEF Next, Propose, Approve, Reject, vars
<1> QED
  BY <1>1, <1>2, TypeCorrect, PTL DEF Spec

(* Some amendment is the latest of those stored up to a reading m.           *)
LEMMA LatestIsRow ==
    ASSUME NEW rows \in SUBSET Amendment, rows # {}, NEW m \in Nat,
           \A a \in rows : a.applied_at <= m
    PROVE  /\ Latest(rows) \in rows
           /\ \A a \in rows : a.applied_at <= Latest(rows).applied_at
<1>1. \A a \in rows : a.applied_at \in Nat /\ m - a.applied_at \in Nat
  BY DEF Amendment
<1> DEFINE T == {m - a.applied_at : a \in rows}
<1>2. PICK x \in T : \A y \in T : x <= y
  BY <1>1, LeastElement
<1>3. PICK a \in rows : x = m - a.applied_at
  OBVIOUS
<1>4. \A b \in rows : m - a.applied_at <= m - b.applied_at
  BY <1>2, <1>3
<1>5. \A b \in rows : b.applied_at <= a.applied_at
  BY <1>1, <1>4
<1> QED
  BY <1>5 DEF Latest

LEMMA WrittenIsValue ==
    ASSUME NEW p \in Payload, WrittenValue(p) # NotANumber
    PROVE  /\ WrittenValue(p) \in Values
           /\ FieldOf(p) = BlockField => WrittenValue(p) \in {NoBlock, RejectedBlockReason}
<1>1. BlockField \notin {"quantity", "unit_price"} \X ItemNumbers
  BY DEF BlockField
<1>2. CASE p \in AmendPayload
  <2>1. p.to \in Texts /\ IsAmend(p) /\ p.inv_item_number \in ItemNumbers
    BY <1>2 DEF AmendPayload, IsAmend
  <2>2. WrittenValue(p) = DecimalOf[p.to]
    BY <2>1 DEF WrittenValue
  <2>3. FieldOf(p) # BlockField
    BY <1>1, <1>2, <2>1 DEF FieldOf, IsAmend
  <2> QED
    BY <2>1, <2>2, <2>3, CorrectionsAssumption
<1>3. CASE p \in ReleasePayload \cup RejectPayload
  <2>1. ~IsAmend(p)
    BY <1>3 DEF ReleasePayload, RejectPayload, IsAmend, ReleaseBlock, RejectInvoice,
                AmendQuantity, AmendPrice
  <2> QED
    BY <2>1, CorrectionsAssumption DEF WrittenValue
<1> QED
  BY <1>2, <1>3 DEF Payload

(* A field holds what was loaded, or a value written over what was loaded.   *)
LEMMA ServedField ==
    ASSUME TypeOK, ReadingsInv, NEW inv \in Invoices, NEW f \in Fields
    PROVE  \/ EffectiveInvoice(inv)[f] = Base[inv][f]
           \/ /\ Base[inv][f] # Absent /\ EffectiveInvoice(inv)[f] \in Values
              /\ f = BlockField => EffectiveInvoice(inv)[f] \in {NoBlock, RejectedBlockReason}
<1> DEFINE W == Writers(amendments, inv, f)
<1>1. CASE W = {}
  BY <1>1 DEF EffectiveInvoice, Served
<1>2. CASE W # {}
  <2>1. W \subseteq Amendment /\ \A a \in W : a.applied_at <= MaxProposals
    BY DEF Writers, TypeOK, ReadingsInv
  <2>2. Latest(W) \in W
    <3> HIDE DEF W
    <3> QED
      BY <1>2, <2>1, LatestIsRow, ApprovalAssumption
  <2>3. /\ FieldOf(Latest(W).payload) = f /\ TakesEffect(inv, Latest(W).payload)
        /\ Latest(W).payload \in Payload
    BY <2>1, <2>2 DEF Writers, Amendment
  <2>4. EffectiveInvoice(inv)[f] = WrittenValue(Latest(W).payload)
    BY <1>2 DEF EffectiveInvoice, Served
  <2> HIDE DEF W
  <2> QED
    BY <2>3, <2>4, WrittenIsValue DEF TakesEffect
<1> QED
  BY <1>1, <1>2

(* Rows that can be enumerated in the order of their readings.               *)
Enumerates(s, rows) ==
    /\ s \in [1..Cardinality(rows) -> rows]
    /\ {s[i] : i \in DOMAIN s} = rows
    /\ \A i, j \in DOMAIN s : i < j => s[i].applied_at < s[j].applied_at

LEMMA LatestLast ==
    ASSUME NEW rows \in SUBSET Amendment, IsFiniteSet(rows), NEW x \in rows,
           \A a \in rows : a.applied_at <= x.applied_at,
           \A a, b \in rows : a.applied_at = b.applied_at => a = b,
           NEW s, Enumerates(s, rows \ {x})
    PROVE  \E r : Enumerates(r, rows)
<1> DEFINE k == Cardinality(rows \ {x})
           r == [i \in 1..(k + 1) |-> IF i = k + 1 THEN x ELSE s[i]]
<1>1. k \in Nat /\ Cardinality(rows) = k + 1
  <2>1. IsFiniteSet(rows \ {x}) /\ Cardinality(rows \ {x}) = Cardinality(rows) - 1
    BY FS_RemoveElement
  <2>2. Cardinality(rows \ {x}) \in Nat /\ Cardinality(rows) \in Nat
    BY <2>1, FS_CardinalityType
  <2> QED
    BY <2>1, <2>2
<1>2. \A i \in 1..k : s[i] \in rows \ {x} /\ r[i] = s[i]
  <2>1. \A i \in 1..k : i \in 1..(k + 1) /\ i # k + 1
    BY <1>1
  <2>2. \A i \in 1..k : s[i] \in rows \ {x}
    BY DEF Enumerates
  <2> HIDE DEF k
  <2> QED
    BY <2>1, <2>2
<1>3. r[k + 1] = x /\ DOMAIN r = 1..(k + 1) /\ DOMAIN s = 1..k
  BY <1>1 DEF Enumerates
<1>4. \A a \in rows \ {x} : a.applied_at < x.applied_at
  BY DEF Amendment
<1> HIDE DEF k, r
<1>5. \A i \in 1..(k + 1) : i = k + 1 \/ i \in 1..k
  BY <1>1
<1>6. r \in [1..(k + 1) -> rows]
  BY <1>2, <1>3, <1>5 DEF r
<1>7. {r[i] : i \in DOMAIN r} = rows
  <2>1. \A a \in rows : \E i \in 1..(k + 1) : r[i] = a
    <3> TAKE a \in rows
    <3>1. CASE a = x
      BY <1>1, <1>3, <3>1
    <3>2. CASE a # x
      <4>1. PICK i \in 1..k : s[i] = a
        <5>1. a \in {s[i] : i \in DOMAIN s}
          BY <3>2 DEF Enumerates
        <5> QED
          BY <1>3, <5>1
      <4>2. i \in 1..(k + 1)
        BY <1>1
      <4> QED
        BY <1>2, <4>1, <4>2
    <3> QED
      BY <3>1, <3>2
  <2> QED
    BY <1>3, <1>6, <2>1
<1>8. ASSUME NEW i \in 1..(k + 1), NEW j \in 1..(k + 1), i < j
      PROVE  r[i].applied_at < r[j].applied_at
  <2>1. i \in 1..k
    BY <1>1, <1>8
  <2>2. CASE j = k + 1
    BY <1>2, <1>3, <1>4, <2>1, <2>2
  <2>3. CASE j \in 1..k
    BY <1>2, <1>3, <1>8, <2>1, <2>3 DEF Enumerates
  <2> QED
    BY <1>5, <2>2, <2>3
<1> QED
  BY <1>1, <1>3, <1>6, <1>7, <1>8 DEF Enumerates

LEMMA RowsHaveOrder ==
    ASSUME TypeOK, ReadingsInv, NEW rows \in SUBSET amendments
    PROVE  Enumerates(InOrder(rows), rows)
<1> DEFINE T == {n \in Nat : \A R \in SUBSET amendments :
                     Cardinality(R) = n => \E s : Enumerates(s, R)}
<1>1. \A R \in SUBSET amendments : IsFiniteSet(R) /\ Cardinality(R) \in Nat
  BY FS_Subset, FS_CardinalityType DEF ReadingsInv
<1>2. 0 \in T
  <2> SUFFICES ASSUME NEW R \in SUBSET amendments, Cardinality(R) = 0
               PROVE  \E s : Enumerates(s, R)
    OBVIOUS
  <2>1. R = {} /\ 1..Cardinality(R) = {}
    BY <1>1, FS_EmptySet
  <2> DEFINE s == [i \in {} |-> i]
  <2>2. Enumerates(s, R)
    BY <2>1 DEF Enumerates
  <2> QED
    BY <2>2
<1>3. ASSUME NEW n \in T PROVE n + 1 \in T
  <2> SUFFICES ASSUME NEW R \in SUBSET amendments, Cardinality(R) = n + 1
               PROVE  \E s : Enumerates(s, R)
    OBVIOUS
  <2>1. R \in SUBSET Amendment /\ R # {}
    BY <1>1, FS_EmptySet DEF TypeOK
  <2>2. PICK x \in R : \A a \in R : a.applied_at <= x.applied_at
    BY <2>1, LatestIsRow, ApprovalAssumption DEF ReadingsInv
  <2>3. Cardinality(R \ {x}) = n
    BY <1>1, FS_RemoveElement
  <2>4. PICK s : Enumerates(s, R \ {x})
    BY <2>3
  <2> HIDE DEF T
  <2> QED
    BY <1>1, <2>1, <2>2, <2>4, LatestLast DEF ReadingsInv
<1>4. T = Nat
  <2>1. T \subseteq Nat
    OBVIOUS
  <2> HIDE DEF T
  <2> QED
    BY <1>2, <1>3, <2>1, SetInduction
<1>5. \E s : Enumerates(s, rows)
  BY <1>1, <1>4
<1>6. PICK s : Enumerates(s, rows)
  BY <1>5
<1> QED
  BY <1>6 DEF Enumerates, InOrder

(* The loop over the rows of an invoice, after i of them, holds what these   *)
(* i rows serve: each is later than the ones before it (NewestAmends).       *)
LEMMA LoopServes ==
    ASSUME NEW rows \in SUBSET Amendment, NEW inv \in Invoices,
           \A a \in rows : a.invoice_number = inv,
           Cardinality(rows) \in Nat, NEW s, Enumerates(s, rows)
    PROVE  ApplyAmendments(inv, [n \in DOMAIN s |-> s[n].payload]) = Served(rows, inv)
<1> DEFINE n == Cardinality(rows)
           payloads == [i \in DOMAIN s |-> s[i].payload]
           First(i) == {s[j] : j \in 1..i}
           G == [i \in 0..n |-> Served(First(i), inv)]
           Loop(F) == F = [i \in 0..Len(payloads) |->
                              IF i = 0 THEN Base[inv] ELSE Amended(inv, F[i - 1], payloads[i])]
<1>1. DOMAIN s = 1..n /\ n \in Nat /\ \A i \in 1..n : s[i] \in rows
  BY DEF Enumerates
<1>2. Len(payloads) = n /\ \A i \in 1..n : payloads[i] = s[i].payload
  <2>1. payloads \in [1..n -> {s[i].payload : i \in 1..n}]
    BY <1>1
  <2> HIDE DEF payloads
  <2>2. payloads \in Seq({s[i].payload : i \in 1..n})
    BY <1>1, <2>1, SeqDef
  <2>3. Len(payloads) = n
    BY <1>1, <2>1, <2>2, LenProperties
  <2> QED
    BY <1>1, <2>3 DEF payloads
<1>3. First(0) = {} /\ First(n) = rows
  BY <1>1 DEF Enumerates
<1>4. Served({}, inv) = Base[inv]
  BY CorrectionsAssumption DEF Served, Writers, Document
<1>5. ASSUME NEW i \in 1..n
      PROVE  Served(First(i), inv) = Amended(inv, Served(First(i - 1), inv), payloads[i])
  <2>1. First(i) = First(i - 1) \cup {s[i]}
    <3>1. \A j \in 1..i : j = i \/ j \in 1..(i - 1)
      BY <1>1
    <3>2. i \in 1..i /\ \A j \in 1..(i - 1) : j \in 1..i
      BY <1>1
    <3> QED
      BY <3>1, <3>2
  <2>2. First(i - 1) \in SUBSET rows
    BY <1>1
  <2>3. \A a \in First(i - 1) : s[i].applied_at > a.applied_at
    <3>1. \A j \in 1..(i - 1) : j < i /\ j \in DOMAIN s /\ i \in DOMAIN s
      BY <1>1
    <3>2. \A j \in 1..(i - 1) : s[j].applied_at < s[i].applied_at
      BY <3>1 DEF Enumerates
    <3>3. \A j \in 1..(i - 1) : s[j].applied_at \in Nat /\ s[i].applied_at \in Nat
      BY <1>1, <3>1 DEF Amendment
    <3> QED
      BY <3>2, <3>3
  <2>4. s[i] \in Amendment /\ s[i].invoice_number = inv
    BY <1>1
  <2> HIDE DEF First
  <2> QED
    BY <1>2, <2>1, <2>2, <2>3, <2>4, NewestAmends
<1>6. Loop(G)
  <2> HIDE DEF First, payloads
  <2>1. \A i \in 1..n : i - 1 \in 0..n
    BY <1>1
  <2>2. ASSUME NEW i \in 0..n
        PROVE  G[i] = IF i = 0 THEN Base[inv] ELSE Amended(inv, G[i - 1], payloads[i])
    <3>1. CASE i = 0
      BY <1>3, <1>4, <3>1
    <3>2. CASE i # 0
      <4>1. i \in 1..n /\ i - 1 \in 0..n
        BY <1>1, <3>2
      <4>2. G[i] = Served(First(i), inv) /\ G[i - 1] = Served(First(i - 1), inv)
        BY <4>1
      <4> QED
        BY <1>5, <3>2, <4>1, <4>2
    <3> QED
      BY <3>1, <3>2
  <2> QED
    BY <1>2, <2>2
<1> DEFINE F == CHOOSE f : Loop(f)
<1>7. Loop(F)
  <2> HIDE DEF Loop
  <2> QED
    BY <1>6
<1>8. \A i \in 0..n : F[i] = G[i]
  <2> DEFINE T == {i \in Nat : F[i] = G[i]}
  <2> HIDE DEF payloads, First
  <2>1. \A i \in 0..n : /\ F[i] = IF i = 0 THEN Base[inv] ELSE Amended(inv, F[i - 1], payloads[i])
                        /\ G[i] = IF i = 0 THEN Base[inv] ELSE Amended(inv, G[i - 1], payloads[i])
    <3> HIDE DEF F, G
    <3> QED
      BY <1>2, <1>6, <1>7
  <2> HIDE DEF F, G
  <2>2. 0 \in T
    BY <1>1, <2>1
  <2>3. ASSUME NEW i \in 1..n, i - 1 \in T PROVE i \in T
    <3>1. i # 0 /\ i \in 0..n /\ i \in Nat
      BY <1>1
    <3> QED
      BY <2>1, <2>3, <3>1
  <2> HIDE DEF T
  <2>4. 0..n \subseteq T
    BY <1>1, <2>2, <2>3, InductionUpTo
  <2> QED
    BY <2>4 DEF T
<1>9. ApplyAmendments(inv, payloads) = F[n]
  BY <1>2 DEF ApplyAmendments
<1>10. F[n] = Served(rows, inv)
  <2>1. n \in 0..n
    BY <1>1
  <2> HIDE DEF F
  <2> QED
    BY <1>3, <1>8, <2>1
<1> QED
  BY <1>9, <1>10

(* The loop of the read path serves what Served says field by field, for     *)
(* any number of amendments: each field holds what its latest writer wrote.  *)
THEOREM ReadsAgree == Spec => []ReadPathAgrees
<1>1. TypeOK /\ ReadingsInv => ReadPathAgrees
  <2> SUFFICES ASSUME TypeOK, ReadingsInv, NEW inv \in Invoices
               PROVE  LET rows == InOrder({a \in amendments : a.invoice_number = inv})
                          payloads == [n \in DOMAIN rows |-> rows[n].payload] IN
                      ApplyAmendments(inv, payloads) = EffectiveInvoice(inv)
    BY DEF ReadPathAgrees
  <2> DEFINE R == {a \in amendments : a.invoice_number = inv}
  <2>1. R \in SUBSET Amendment /\ R \in SUBSET amendments /\ \A a \in R : a.invoice_number = inv
    BY DEF TypeOK
  <2>2. Cardinality(R) \in Nat
    BY <2>1, FS_Subset, FS_CardinalityType DEF ReadingsInv
  <2>3. \A f \in Fields : Writers(R, inv, f) = Writers(amendments, inv, f)
    BY DEF Writers
  <2>4. Served(R, inv) = EffectiveInvoice(inv)
    BY <2>3 DEF Served, EffectiveInvoice
  <2> HIDE DEF R
  <2>5. Enumerates(InOrder(R), R)
    BY <2>1, RowsHaveOrder
  <2>6. ApplyAmendments(inv, [n \in DOMAIN InOrder(R) |-> InOrder(R)[n].payload])
            = EffectiveInvoice(inv)
    BY <2>1, <2>2, <2>4, <2>5, LoopServes
  <2> QED
    BY <2>6 DEF R
<1> QED
  BY <1>1, TypeCorrect, ReadingsInvariant, PTL

-----------------------------------------------------------------------------
(* The refinement.                                                           *)

(* The two modules read payloads and documents the same way. *)
LEMMA SameCorrections ==
    /\ \A d, p : Gate!StaleConflict(d, p) = StaleConflict(d, p)
    /\ \A inv, d, p : Gate!Amended(inv, d, p) = Amended(inv, d, p)
    /\ Gate!NoConflict = NoConflict
    /\ Gate!Payload = Payload
BY DEF StaleConflict, Gate!StaleConflict, Amended, Gate!Amended, TakesEffect,
       Gate!TakesEffect, FieldOf, Gate!FieldOf, WrittenValue, Gate!WrittenValue,
       IsAmend, Gate!IsAmend, SameDecimal, Gate!SameDecimal, NoConflict, Gate!NoConflict,
       NaN, Gate!NaN, Absent, Gate!Absent, NotANumber, Gate!NotANumber,
       NoBlock, Gate!NoBlock, RejectedBlockReason, Gate!RejectedBlockReason,
       BlockField, Gate!BlockField, AmendQuantity, Gate!AmendQuantity,
       AmendPrice, Gate!AmendPrice, ReleaseBlock, Gate!ReleaseBlock,
       RejectInvoice, Gate!RejectInvoice, Payload, Gate!Payload,
       AmendPayload, Gate!AmendPayload, ReleasePayload, Gate!ReleasePayload,
       RejectPayload, Gate!RejectPayload

RequestOf(row) == [invoice_number |-> row.invoice_number, payload |-> row.payload,
                   stage |-> StageOf(row.status)]

(* The abstract requests are a sequence, one for each row. *)
LEMMA RequestsBar ==
    ASSUME TypeOK
    PROVE  /\ Len(requestsBar) = Len(proposals)
           /\ Ids = 1..Len(proposals)
           /\ \E S : requestsBar \in Seq(S)
           /\ \A id \in Ids : requestsBar[id] = RequestOf(proposals[id])
<1>1. Len(proposals) \in Nat /\ Ids = 1..Len(proposals)
  BY LenProperties DEF TypeOK, Ids
<1> DEFINE S == {RequestOf(proposals[id]) : id \in Ids}
<1>2. requestsBar \in [1..Len(proposals) -> S]
  BY <1>1 DEF requestsBar, RequestOf
<1>3. requestsBar \in Seq(S)
  BY <1>1, <1>2, SeqDef
<1>4. DOMAIN requestsBar = 1..Len(proposals)
  BY <1>1 DEF requestsBar
<1>5. DOMAIN requestsBar = 1..Len(requestsBar) /\ Len(requestsBar) \in Nat
  BY <1>3, LenProperties
<1>6. Len(requestsBar) = Len(proposals)
  BY <1>1, <1>4, <1>5
<1> QED
  BY <1>1, <1>3, <1>6 DEF requestsBar, RequestOf

LEMMA InitialGate == Init => Gate!GateInit
<1> SUFFICES ASSUME Init PROVE Gate!GateInit
  OBVIOUS
<1>1. requestsBar = <<>>
  BY DEF Init, requestsBar, Ids
<1>2. \A inv \in Invoices : Served(amendments, inv) = Base[inv]
  <2> SUFFICES ASSUME NEW inv \in Invoices PROVE Served(amendments, inv) = Base[inv]
    OBVIOUS
  <2>1. \A f \in Fields : Writers(amendments, inv, f) = {}
    BY DEF Init, Writers
  <2>2. Served(amendments, inv) = [f \in Fields |-> Base[inv][f]]
    BY <2>1 DEF Served
  <2>3. Base[inv] \in [Fields -> Values \cup {Absent}]
    BY CorrectionsAssumption DEF Document
  <2> QED
    BY <2>2, <2>3
<1>3. documentBar = Base
  BY <1>2, CorrectionsAssumption DEF documentBar, EffectiveInvoice
<1> QED
  BY <1>1, <1>3 DEF Gate!GateInit

(* A proposal is a request made. *)
LEMMA ProposeMaps ==
    ASSUME TypeOK, TypeOK', NEW r \in Requests, Propose(r)
    PROVE  Gate!MakeRequest(r.invoice_number, r.payload)
<1>1. PICK row \in Proposal : /\ proposals' = Append(proposals, row)
                              /\ row.invoice_number = r.invoice_number
                              /\ row.payload = r.payload /\ row.status = "PROPOSED"
  BY ProposedRow
<1> DEFINE n == Len(proposals) + 1
           new == [invoice_number |-> r.invoice_number, payload |-> r.payload,
                   stage |-> "open"]
           appended == Append(requestsBar, new)
<1>2. /\ Len(proposals) \in Nat
      /\ Ids = 1..Len(proposals) /\ Ids' = 1..n
      /\ proposals'[n] = row
      /\ \A j \in Ids : proposals'[j] = proposals[j]
  BY <1>1, RowAppended
<1>3. PICK S : requestsBar \in Seq(S)
  BY RequestsBar
<1>4. requestsBar \in Seq(S \cup {new}) /\ new \in S \cup {new}
  BY <1>3, SeqMonotonic, S \subseteq S \cup {new}
<1> HIDE DEF new
<1>5. /\ appended \in Seq(S \cup {new})
      /\ DOMAIN appended = 1..n
      /\ appended[n] = new
      /\ \A j \in Ids : appended[j] = requestsBar[j]
  BY <1>2, <1>4, RequestsBar, LenProperties
<1>6. requestsBar' = [id \in 1..n |-> RequestOf(proposals'[id])]
  BY <1>2 DEF requestsBar, RequestOf
<1>7. \A id \in 1..n : appended[id] = RequestOf(proposals'[id])
  <2>1. RequestOf(row) = new
    BY <1>1 DEF RequestOf, StageOf, new
  <2> QED
    BY <1>2, <1>5, <2>1, RequestsBar
<1>8. appended = [id \in 1..n |-> appended[id]]
  BY <1>5, LenProperties
<1>9. requestsBar' = appended
  BY <1>6, <1>7, <1>8
<1>10. documentBar' = documentBar
  BY DEF Propose, documentBar, EffectiveInvoice
<1> QED
  BY <1>9, <1>10 DEF Gate!MakeRequest, new

(* Replacing the status of a row is moving its request to another stage.     *)
LEMMA StageMoves ==
    ASSUME TypeOK, NEW id \in Ids, NEW row \in Proposal,
           proposals' = [proposals EXCEPT ![id] = row],
           row.invoice_number = proposals[id].invoice_number,
           row.payload = proposals[id].payload
    PROVE  requestsBar' = [requestsBar EXCEPT ![id].stage = StageOf(row.status)]
<1>1. /\ Ids' = Ids /\ proposals'[id] = row
      /\ \A j \in Ids \ {id} : proposals'[j] = proposals[j]
  BY RowReplaced
<1>2. requestsBar' = [j \in Ids |-> IF j = id THEN RequestOf(row) ELSE RequestOf(proposals[j])]
  BY <1>1 DEF requestsBar, RequestOf
<1>3. RequestOf(row) = [RequestOf(proposals[id]) EXCEPT !.stage = StageOf(row.status)]
  BY DEF RequestOf
<1>4. requestsBar = [j \in Ids |-> RequestOf(proposals[j])]
  BY DEF requestsBar, RequestOf
<1>5. [requestsBar EXCEPT ![id].stage = StageOf(row.status)]
        = [j \in Ids |-> IF j = id THEN [RequestOf(proposals[id]) EXCEPT !.stage = StageOf(row.status)]
                         ELSE RequestOf(proposals[j])]
  BY <1>4
<1> QED
  BY <1>2, <1>3, <1>5

LEMMA ApproveMaps ==
    ASSUME TypeOK, NEW id \in Ids, NEW who \in Reviewers, Approve(id, who)
    PROVE  Gate!Decide(id, "granted")
<1>1. PICK row \in Proposal :
          /\ proposals' = [proposals EXCEPT ![id] = row]
          /\ row = [proposals[id] EXCEPT !.status = "APPROVED", !.approved_by = who,
                            !.approved_hash = proposals[id].payload_hash]
          /\ proposals[id] \in Proposal /\ proposals[id].status = "PROPOSED"
  BY ApprovedRow
<1>2. /\ row.status = "APPROVED" /\ row.payload = proposals[id].payload
      /\ row.invoice_number = proposals[id].invoice_number
  BY <1>1 DEF Proposal
<1>3. requestsBar' = [requestsBar EXCEPT ![id].stage = StageOf(row.status)]
  BY <1>1, <1>2, StageMoves
<1>4. requestsBar[id].stage = "open" /\ StageOf(row.status) = "granted"
  <2>1. requestsBar[id] = RequestOf(proposals[id])
    BY RequestsBar
  <2> QED
    BY <1>1, <1>2, <2>1 DEF StageOf, RequestOf
<1>5. documentBar' = documentBar
  BY DEF Approve, documentBar, EffectiveInvoice
<1> QED
  BY <1>3, <1>4, <1>5 DEF Gate!Decide

LEMMA RejectMaps ==
    ASSUME TypeOK, NEW id \in Ids, NEW who \in Reviewers, Reject(id, who)
    PROVE  Gate!Decide(id, "refused")
<1>1. PICK row \in Proposal :
          /\ proposals' = [proposals EXCEPT ![id] = row]
          /\ row = [proposals[id] EXCEPT !.status = "REJECTED", !.rejected_by = who]
          /\ proposals[id] \in Proposal /\ proposals[id].status = "PROPOSED"
  BY RejectedRow
<1>2. /\ row.status = "REJECTED" /\ row.payload = proposals[id].payload
      /\ row.invoice_number = proposals[id].invoice_number
  BY <1>1 DEF Proposal
<1>3. requestsBar' = [requestsBar EXCEPT ![id].stage = StageOf(row.status)]
  BY <1>1, <1>2, StageMoves
<1>4. requestsBar[id].stage = "open" /\ StageOf(row.status) = "refused"
  <2>1. requestsBar[id] = RequestOf(proposals[id])
    BY RequestsBar
  <2> QED
    BY <1>1, <1>2, <2>1 DEF StageOf, RequestOf
<1>5. documentBar' = documentBar
  BY DEF Reject, documentBar, EffectiveInvoice
<1> QED
  BY <1>3, <1>4, <1>5 DEF Gate!Decide

(* An apply carries out the granted request as it was written: the payload   *)
(* sent along has the approved hash, so it is the payload of the request.    *)
LEMMA ApplyMaps ==
    ASSUME ~ClockStepsBack, GateInv, TypeOK',
           NEW id \in Ids, NEW p, NEW t, Apply(id, p, t)
    PROVE  Gate!Correct(id)
<1> DEFINE inv == proposals[id].invoice_number
<1>1. PICK row \in Proposal :
          /\ proposals' = [proposals EXCEPT ![id] = row]
          /\ row = [proposals[id] EXCEPT !.status = "APPLIED"]
          /\ proposals[id] \in Proposal /\ proposals[id].status = "APPROVED"
  BY AppliedRow DEF GateInv
<1>2. /\ row.status = "APPLIED" /\ row.payload = proposals[id].payload
      /\ row.invoice_number = inv /\ inv \in Invoices
  BY <1>1 DEF Proposal
<1>3. requestsBar' = [requestsBar EXCEPT ![id].stage = StageOf(row.status)]
  BY <1>1, <1>2, StageMoves DEF GateInv
<1>4. requestsBar[id] = RequestOf(proposals[id])
  BY RequestsBar DEF GateInv
<1>5. /\ requestsBar[id].stage = "granted" /\ StageOf(row.status) = "done"
      /\ requestsBar[id].invoice_number = inv
      /\ requestsBar[id].payload = proposals[id].payload
  BY <1>1, <1>2, <1>4 DEF StageOf, RequestOf
<1>6. p = proposals[id].payload
  <2>1. PayloadHash(p) = PayloadHash(proposals[id].payload)
    BY <1>1, ApplyChecks DEF GateInv, RowsCoherent, Apply
  <2> QED
    BY <2>1, HashInjective
<1>7. StaleConflict(documentBar[inv], p) = NoConflict
  BY <1>2, ApplyChecks DEF Apply, documentBar
<1>8. PICK x : /\ amendments' = amendments \cup {x}
               /\ x.applied_at = t /\ x.payload = p /\ x.invoice_number = inv
  BY StoredAmendment
<1>9. \A a \in amendments : x.applied_at > a.applied_at
  BY <1>8, ReadingIsLatest DEF Apply
<1>10. x \in Amendment /\ amendments \in SUBSET Amendment
  BY <1>8 DEF GateInv, TypeOK
<1>11. \A i \in Invoices :
          Served(amendments', i) = IF i = inv THEN Amended(inv, Served(amendments, i), p)
                                              ELSE Served(amendments, i)
  BY <1>8, <1>9, <1>10, NewestAmends
<1>12. documentBar' = [documentBar EXCEPT ![inv] = Amended(inv, documentBar[inv], p)]
  BY <1>2, <1>11 DEF documentBar, EffectiveInvoice
<1> HIDE DEF inv
<1> QED
  BY <1>3, <1>5, <1>6, <1>7, <1>12, SameCorrections DEF Gate!Correct

(* The gate implements documents corrected in place by granted requests:     *)
(* the overlay of stored amendments cannot be told from a document written   *)
(* directly, and the hash check is all it takes for the payload sent with an *)
(* apply to be the one a human granted.                                      *)
THEOREM GateIsImplemented ==
    ASSUME ~ClockStepsBack
    PROVE  Spec => ImplementsGate
<1>1. Init => Gate!GateInit
  BY InitialGate
<1>2. GateInv /\ TypeOK' /\ [Next]_vars => [Gate!GateNext]_(Gate!gateVars)
  <2> SUFFICES ASSUME GateInv, TypeOK', [Next]_vars
               PROVE  [Gate!GateNext]_(Gate!gateVars)
    OBVIOUS
  <2>1. ASSUME NEW id \in Ids PROVE id \in DOMAIN requestsBar
    BY DEF requestsBar
  <2>2. ASSUME NEW r \in Requests, Propose(r) PROVE Gate!GateNext
    <3>1. r.invoice_number \in Invoices /\ r.payload \in Gate!Payload
      BY ApprovalAssumption, SameCorrections
    <3> QED
      BY <2>2, <3>1, ProposeMaps DEF GateInv, Gate!GateNext
  <2>3. ASSUME NEW id \in Ids, NEW who \in Reviewers, Approve(id, who) PROVE Gate!GateNext
    BY <2>1, <2>3, ApproveMaps DEF GateInv, Gate!GateNext
  <2>4. ASSUME NEW id \in Ids, NEW who \in Reviewers, Reject(id, who) PROVE Gate!GateNext
    BY <2>1, <2>4, RejectMaps DEF GateInv, Gate!GateNext
  <2>5. ASSUME NEW id \in Ids, NEW r \in Requests, NEW t \in Times, Apply(id, r.payload, t)
        PROVE  Gate!GateNext
    BY <2>1, <2>5, ApplyMaps DEF Gate!GateNext
  <2>6. CASE UNCHANGED vars
    BY <2>6 DEF vars, Gate!gateVars, requestsBar, documentBar, Ids, EffectiveInvoice
  <2> QED
    BY <2>2, <2>3, <2>4, <2>5, <2>6 DEF Next
<1> QED
  BY <1>1, <1>2, GateInvariant, TypeCorrect, PTL DEF Spec, ImplementsGate, Gate!GateSpec

===============================================================================
