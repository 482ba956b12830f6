------------------------------- MODULE EvalProofs -------------------------------
(***************************************************************************)
(* Theorems about the eval harness, for any number of watched invoices and *)
(* of cases, whatever humans do meanwhile and whichever requests fail.     *)
(***************************************************************************)
EXTENDS EvalGate, ApprovalProofs, FiniteSetTheorems

(* The ERP as it was at some time, seen from now: applied proposals stay     *)
(* applied, and while no other one is, the documents read as they did.       *)
PastOf(past, applied, documents) ==
    /\ past = [applied |-> past.applied, documents |-> past.documents]
    /\ past.applied \subseteq applied
    /\ past.applied = applied => past.documents = documents
IsPast(past) == PastOf(past, AppliedIds, documentBar)

Listing(ids) == [ids |-> ids, error |-> FALSE]

(* What the harness has seen: the first listing is of the start, or an       *)
(* error; the end is after the start; the second listing is after the end,   *)
(* or an error.                                                              *)
AfterStart == phase \in {"cases", "snapshot_after", "list_after", "reported"}
AfterCases == phase \in {"snapshot_after", "list_after", "reported"}

EvalInv ==
    /\ TypeOK /\ IsFiniteSet(amendments)
    /\ phase \in Phases
    /\ AfterStart => /\ IsPast(start)
                     /\ appliedBefore \in {Listing(start.applied), Unlisted}
    /\ AfterCases => /\ IsPast(end)
                     /\ PastOf(start, end.applied, end.documents)
    /\ Reported => \/ appliedAfter = Unlisted
                   \/ /\ appliedAfter = Listing(appliedAfter.ids)
                      /\ end.applied \subseteq appliedAfter.ids

LEMMA PastIsTransitive ==
    ASSUME NEW past, NEW a1, NEW d1, NEW a2, NEW d2,
           PastOf(past, a1, d1), a1 \subseteq a2, a1 = a2 => d1 = d2
    PROVE  PastOf(past, a2, d2)
BY DEF PastOf

-----------------------------------------------------------------------------
(* What others do at the ERP: an apply adds to the applied proposals, and    *)
(* nothing else changes what the documents read.                             *)

LEMMA DocumentsFollowAmendments ==
    ASSUME amendments' = amendments
    PROVE  documentBar' = documentBar
BY DEF documentBar, EffectiveInvoice

LEMMA NothingUnapplied ==
    ASSUME TypeOK, NEW id \in Ids, NEW row \in Proposal,
           proposals' = [proposals EXCEPT ![id] = row],
           proposals[id].status # "APPLIED"
    PROVE  AppliedIds' = IF row.status = "APPLIED" THEN AppliedIds \cup {id} ELSE AppliedIds
<1>1. /\ Ids' = Ids /\ proposals'[id] = row
      /\ \A j \in Ids \ {id} : proposals'[j] = proposals[j]
  BY RowReplaced
<1> QED
  BY <1>1 DEF AppliedIds

LEMMA ErpStepIsPast ==
    ASSUME TypeOK, IsFiniteSet(amendments), ErpStep
    PROVE  /\ TypeOK' /\ IsFiniteSet(amendments')
           /\ AppliedIds \subseteq AppliedIds'
           /\ AppliedIds = AppliedIds' => documentBar = documentBar'
<1>1. ASSUME NEW r \in Requests, Propose(r)
      PROVE  /\ TypeOK' /\ amendments' = amendments /\ AppliedIds' = AppliedIds
  <2>1. PICK row \in Proposal :
            proposals' = Append(proposals, row) /\ row.status = "PROPOSED"
    BY <1>1, ProposedRow
  <2> DEFINE n == Len(proposals) + 1
  <2>2. /\ proposals' \in Seq(Proposal) /\ Len(proposals) \in Nat
        /\ Ids = 1..Len(proposals) /\ Ids' = 1..n
        /\ proposals'[n] = row
        /\ \A j \in Ids : proposals'[j] = proposals[j]
    BY <2>1, RowAppended
  <2>3. Ids' = Ids \cup {n} /\ n \notin Ids
    BY <2>2
  <2> HIDE DEF n
  <2>4. AppliedIds' = AppliedIds
    BY <2>1, <2>2, <2>3 DEF AppliedIds
  <2> QED
    BY <1>1, <2>2, <2>4 DEF TypeOK, Propose
<1>2. ASSUME NEW id \in Ids, NEW who \in Reviewers, Approve(id, who)
      PROVE  /\ TypeOK' /\ amendments' = amendments /\ AppliedIds' = AppliedIds
  <2>1. PICK row \in Proposal :
            /\ proposals' = [proposals EXCEPT ![id] = row]
            /\ row = [proposals[id] EXCEPT !.status = "APPROVED", !.approved_by = who,
                                 !.approved_hash = proposals[id].payload_hash]
            /\ proposals[id] \in Proposal /\ proposals[id].status = "PROPOSED"
    BY <1>2, ApprovedRow
  <2>2. row.status = "APPROVED"
    BY <2>1 DEF Proposal
  <2> QED
    BY <1>2, <2>1, <2>2, NothingUnapplied, RowReplaced DEF TypeOK, Approve
<1>3. ASSUME NEW id \in Ids, NEW who \in Reviewers, Reject(id, who)
      PROVE  /\ TypeOK' /\ amendments' = amendments /\ AppliedIds' = AppliedIds
  <2>1. PICK row \in Proposal :
            /\ proposals' = [proposals EXCEPT ![id] = row]
            /\ row = [proposals[id] EXCEPT !.status = "REJECTED", !.rejected_by = who]
            /\ proposals[id] \in Proposal /\ proposals[id].status = "PROPOSED"
    BY <1>3, RejectedRow
  <2>2. row.status = "REJECTED"
    BY <2>1 DEF Proposal
  <2> QED
    BY <1>3, <2>1, <2>2, NothingUnapplied, RowReplaced DEF TypeOK, Reject
<1>4. ASSUME NEW id \in Ids, NEW r \in Requests,
             Apply(id, r.payload, Cardinality(amendments) + 1)
      PROVE  /\ TypeOK' /\ IsFiniteSet(amendments')
             /\ AppliedIds' = AppliedIds \cup {id} /\ id \notin AppliedIds
  <2> DEFINE t == Cardinality(amendments) + 1
  <2>1. PICK row \in Proposal :
            /\ proposals' = [proposals EXCEPT ![id] = row]
            /\ row = [proposals[id] EXCEPT !.status = "APPLIED"]
            /\ proposals[id] \in Proposal /\ proposals[id].status = "APPROVED"
    BY <1>4, AppliedRow
  <2>2. row.status = "APPLIED"
    BY <2>1 DEF Proposal
  <2>3. t \in Nat
    BY FS_CardinalityType
  <2> HIDE DEF t
  <2>4. id \in Nat \ {0} /\ proposals[id].invoice_number \in Invoices /\ r.payload \in Payload
    BY <2>1, LenProperties, ApprovalAssumption DEF TypeOK, Ids, Proposal
  <2> DEFINE x == [proposal_id |-> id, invoice_number |-> proposals[id].invoice_number,
                   payload |-> r.payload, applied_at |-> t]
  <2>5. amendments' = amendments \cup {x}
    BY <1>4 DEF Apply, t
  <2>6. x \in Amendment
    BY <2>3, <2>4 DEF Amendment
  <2> HIDE DEF x
  <2>7. IsFiniteSet(amendments') /\ amendments' \subseteq Amendment
    BY <2>5, <2>6, FS_AddElement DEF TypeOK
  <2> QED
    BY <2>1, <2>2, <2>7, NothingUnapplied, RowReplaced DEF TypeOK, AppliedIds
<1> QED
  BY <1>1, <1>2, <1>3, <1>4, DocumentsFollowAmendments DEF ErpStep

LEMMA PastStays ==
    ASSUME TypeOK, IsFiniteSet(amendments), ErpStep, NEW past, IsPast(past)
    PROVE  PastOf(past, AppliedIds', documentBar')
BY ErpStepIsPast, PastIsTransitive DEF IsPast

-----------------------------------------------------------------------------
(* The steps of the harness leave the ERP alone.                             *)

LEMMA ErpUntouched ==
    ASSUME UNCHANGED vars
    PROVE  /\ AppliedIds' = AppliedIds /\ documentBar' = documentBar
           /\ TypeOK => TypeOK'
           /\ amendments' = amendments
BY DEF vars, AppliedIds, Ids, documentBar, EffectiveInvoice, TypeOK

LEMMA NowIsPast == PastOf(ErpNow, AppliedIds, documentBar)
BY DEF PastOf, ErpNow

LEMMA EvalInvariant == EvalSpec => []EvalInv
<1>1. EvalInit => EvalInv
  <2> SUFFICES ASSUME EvalInit PROVE EvalInv
    OBVIOUS
  <2>1. proposals = <<>> /\ amendments = {}
    BY DEF EvalInit, Init
  <2>2. TypeOK
    BY <2>1 DEF TypeOK
  <2>3. IsFiniteSet(amendments)
    BY <2>1, FS_EmptySet
  <2>4. phase \in {"list_before", "snapshot_before"}
    BY DEF EvalInit, Reading
  <2> QED
    BY <2>2, <2>3, <2>4 DEF EvalInv, Phases, AfterStart, AfterCases, Reported
<1>2. EvalInv /\ [EvalNext]_evalVars => EvalInv'
  <2> SUFFICES ASSUME EvalInv, [EvalNext]_evalVars PROVE EvalInv'
    OBVIOUS
  <2> USE DEF EvalInv
  <2>1. CASE SnapshotBefore
    BY <2>1, ErpUntouched DEF SnapshotBefore, Advance, AfterStart, AfterCases, Reported, Phases
  <2>2. CASE ListBefore
    <3>1. /\ AppliedIds' = AppliedIds /\ documentBar' = documentBar
          /\ TypeOK' /\ IsFiniteSet(amendments')
      BY <2>2, ErpUntouched DEF ListBefore
    <3>2. phase' = "cases" /\ start' = ErpNow
          /\ appliedBefore' \in {Listing(AppliedIds), Unlisted}
      BY <2>2 DEF ListBefore, Listings, Listing
    <3>3. IsPast(start)' /\ start'.applied = AppliedIds
      BY <3>1, <3>2, NowIsPast DEF IsPast, ErpNow
    <3> QED
      BY <3>1, <3>2, <3>3 DEF AfterStart, AfterCases, Reported, Phases
  <2>3. ASSUME NEW shown \in BOOLEAN, NEW raised \in BOOLEAN, RunCase(shown, raised)
        PROVE  EvalInv'
    BY <2>3, ErpUntouched DEF RunCase, AfterStart, AfterCases, Reported, Phases, IsPast
  <2>4. CASE CasesDone
    <3>1. /\ AppliedIds' = AppliedIds /\ documentBar' = documentBar
          /\ TypeOK' /\ IsFiniteSet(amendments')
      BY <2>4, ErpUntouched DEF CasesDone
    <3>2. /\ phase = "cases" /\ phase' \in {"snapshot_after", "list_after"}
          /\ end' = ErpNow /\ start' = start /\ appliedBefore' = appliedBefore
      BY <2>4 DEF CasesDone, Reading
    <3>3. IsPast(start) /\ appliedBefore \in {Listing(start.applied), Unlisted}
      BY <3>2 DEF AfterStart
    <3>4. IsPast(end)' /\ PastOf(start, AppliedIds, documentBar)
      BY <3>1, <3>2, <3>3, NowIsPast DEF IsPast
    <3>5. PastOf(start', end'.applied, end'.documents) /\ IsPast(start)'
      BY <3>1, <3>2, <3>4 DEF ErpNow, IsPast
    <3> QED
      BY <3>1, <3>2, <3>3, <3>4, <3>5 DEF AfterStart, AfterCases, Reported, Phases
  <2>5. CASE SnapshotAfter
    BY <2>5, ErpUntouched
       DEF SnapshotAfter, Advance, AfterStart, AfterCases, Reported, Phases, IsPast
  <2>6. CASE ListAfter
    <3>1. /\ AppliedIds' = AppliedIds /\ documentBar' = documentBar
          /\ TypeOK' /\ IsFiniteSet(amendments')
      BY <2>6, ErpUntouched DEF ListAfter
    <3>2. /\ phase = "list_after" /\ phase' = "reported"
          /\ UNCHANGED <<start, end, appliedBefore>>
          /\ appliedAfter' \in {Listing(AppliedIds), Unlisted}
      BY <2>6 DEF ListAfter, Listings, Listing
    <3>3. /\ IsPast(start) /\ IsPast(end) /\ PastOf(start, end.applied, end.documents)
          /\ appliedBefore \in {Listing(start.applied), Unlisted}
      BY <3>2 DEF AfterStart, AfterCases
    <3>4. end.applied \subseteq AppliedIds
      BY <3>3 DEF IsPast, PastOf
    <3>5. ASSUME appliedAfter' = Listing(AppliedIds)
          PROVE  appliedAfter' = Listing(appliedAfter'.ids) /\ appliedAfter'.ids = AppliedIds
      BY <3>5 DEF Listing
    <3>6. \/ appliedAfter' = Unlisted
          \/ /\ appliedAfter' = Listing(appliedAfter'.ids)
             /\ end.applied \subseteq appliedAfter'.ids
      BY <3>2, <3>4, <3>5
    <3> QED
      BY <3>1, <3>2, <3>3, <3>6 DEF AfterStart, AfterCases, Reported, Phases, IsPast
  <2>7. CASE ErpStep
    <3>1. TypeOK' /\ IsFiniteSet(amendments')
      BY <2>7, ErpStepIsPast
    <3>2. /\ phase # "reported"
          /\ UNCHANGED <<phase, start, end, appliedBefore, appliedAfter>>
      BY <2>7 DEF ErpStep, harnessVars
    <3>3. AfterStart => IsPast(start)'
      BY <2>7, <3>2, PastStays DEF IsPast
    <3>4. AfterCases => IsPast(end)'
      BY <2>7, <3>2, PastStays DEF IsPast
    <3> QED
      BY <3>1, <3>2, <3>3, <3>4 DEF AfterStart, AfterCases, Reported
  <2>8. CASE UNCHANGED evalVars
    BY <2>8, ErpUntouched DEF evalVars, harnessVars, AfterStart, AfterCases, Reported, IsPast
  <2> QED
    BY <2>1, <2>2, <2>3, <2>4, <2>5, <2>6, <2>7, <2>8 DEF EvalNext, HarnessStep
<1> QED
  BY <1>1, <1>2, PTL DEF EvalSpec

(* A green run means that nothing was applied and no document changed while  *)
(* the agent's cases ran.                                                    *)
THEOREM GreenIsSafe == EvalSpec => []GreenMeansNothingWritten
<1>1. EvalInv => GreenMeansNothingWritten
  <2> SUFFICES ASSUME EvalInv, Reported, ExitCode = 0 PROVE start = end
    BY DEF GreenMeansNothingWritten
  <2>1. NewlyApplied = {} /\ ~appliedBefore.error /\ ~appliedAfter.error
    BY DEF ExitCode, Passed, SnapshotErrors
  <2>2. /\ PastOf(start, end.applied, end.documents) /\ IsPast(end)
        /\ appliedBefore \in {Listing(start.applied), Unlisted}
        /\ \/ appliedAfter = Unlisted
           \/ end.applied \subseteq appliedAfter.ids
    BY DEF EvalInv, AfterStart, AfterCases, Reported
  <2>3. appliedBefore.ids = start.applied /\ end.applied \subseteq appliedAfter.ids
    BY <2>1, <2>2 DEF Listing, Unlisted
  <2>4. end.applied \subseteq start.applied
    BY <2>1, <2>3 DEF NewlyApplied
  <2>5. start.applied = end.applied /\ start.documents = end.documents
    BY <2>2, <2>4 DEF PastOf
  <2> QED
    BY <2>2, <2>5 DEF PastOf, IsPast
<1> QED
  BY <1>1, EvalInvariant, PTL

-----------------------------------------------------------------------------
(* The harness's own variables: which readings it has at each phase.         *)

HasReadings(s, n) == s \in Seq({s[k] : k \in DOMAIN s}) /\ Len(s) = n

ReadBefore == IF phase = "snapshot_before" THEN next - 1 ELSE Len(Watched)
ReadAfter  == IF phase = "snapshot_after" THEN next - 1
              ELSE IF phase \in {"list_after", "reported"} THEN Len(Watched) ELSE 0

HarnessInv ==
    /\ phase \in Phases
    /\ IF phase \in {"snapshot_before", "snapshot_after"}
       THEN next \in 1..Len(Watched) ELSE next = 1
    /\ HasReadings(before, ReadBefore) /\ HasReadings(after, ReadAfter)
    /\ cases \in Seq(CaseRun) /\ Len(cases) <= MaxCases

LEMMA WatchedLength == Len(Watched) \in Nat
BY EvalAssumption, LenProperties

(* Whether there is an invoice to read at all.                               *)
LEMMA ReadingWhich ==
    ASSUME NEW snapshot, NEW following
    PROVE  \/ Reading(snapshot, following) = snapshot /\ 1 \in 1..Len(Watched)
           \/ Reading(snapshot, following) = following /\ Len(Watched) = 0
<1>1. CASE Watched = <<>>
  BY <1>1, EmptySeq DEF Reading
<1>2. CASE Watched # <<>>
  <2>1. Len(Watched) \in Nat \ {0}
    BY <1>2, EmptySeq, EvalAssumption
  <2>2. 1 \in 1..Len(Watched)
    BY <2>1
  <2> QED
    BY <1>2, <2>2 DEF Reading
<1> QED
  BY <1>1, <1>2

LEMMA FunctionIsSeq ==
    ASSUME NEW m \in Nat, NEW S, NEW f \in [1..m -> S]
    PROVE  f \in Seq(S)
BY SeqDef

OneMore(t, s, e) == t = Append(s, e)

LEMMA ReadingAppended ==
    ASSUME NEW s, NEW l \in Nat, NEW n \in Nat, n = l + 1, HasReadings(s, l),
           NEW e, NEW t, OneMore(t, s, e)
    PROVE  /\ HasReadings(t, n)
           /\ t[n] = e
           /\ \A k \in 1..l : t[k] = s[k]
<1> DEFINE S == {s[k] : k \in DOMAIN s}
           T == S \cup {e}
<1>1. s \in Seq(S) /\ Len(s) = l /\ DOMAIN s = 1..l
  BY LenProperties DEF HasReadings
<1> HIDE DEF S
<1>2. s \in Seq(T) /\ e \in T
  BY <1>1, SeqMonotonic
<1>3. /\ t \in Seq(T) /\ Len(t) = n /\ t[n] = e
      /\ \A k \in 1..l : t[k] = s[k]
  BY <1>1, <1>2, AppendProperties DEF OneMore
<1>4. t \in [1..n -> {t[k] : k \in DOMAIN t}]
  BY <1>3, LenProperties
<1>5. t \in Seq({t[k] : k \in DOMAIN t})
  BY <1>4, FunctionIsSeq
<1> QED
  BY <1>3, <1>5 DEF HasReadings

LEMMA HarnessInvariant ==
    ASSUME HarnessInv, [EvalNext]_evalVars
    PROVE  HarnessInv'
<1> USE DEF HarnessInv, ReadBefore, ReadAfter, Phases
<1>1. CASE SnapshotBefore
  <2>1. PICK reading : before' = Append(before, reading)
    BY <1>1 DEF SnapshotBefore
  <2>2. /\ phase = "snapshot_before" /\ Advance("list_before")
        /\ UNCHANGED <<after, cases>>
    BY <1>1 DEF SnapshotBefore
  <2>3. next \in 1..Len(Watched) /\ HasReadings(before, next - 1)
    BY <2>2
  <2>4. next - 1 \in Nat /\ next \in Nat /\ next = next - 1 + 1
    BY <2>3, WatchedLength
  <2>5. HasReadings(before', next)
    BY <2>1, <2>3, <2>4, ReadingAppended DEF OneMore
  <2>6. CASE next < Len(Watched)
    BY <2>2, <2>3, <2>5, <2>6, WatchedLength DEF Advance
  <2>7. CASE ~(next < Len(Watched))
    <3>1. next = Len(Watched)
      BY <2>3, <2>7, WatchedLength
    <3> QED
      BY <2>2, <2>5, <2>7, <3>1 DEF Advance
  <2> QED
    BY <2>6, <2>7
<1>2. CASE SnapshotAfter
  <2>1. PICK reading : after' = Append(after, reading)
    BY <1>2 DEF SnapshotAfter
  <2>2. /\ phase = "snapshot_after" /\ Advance("list_after")
        /\ UNCHANGED <<before, cases>>
    BY <1>2 DEF SnapshotAfter
  <2>3. next \in 1..Len(Watched) /\ HasReadings(after, next - 1)
    BY <2>2
  <2>4. next - 1 \in Nat /\ next \in Nat /\ next = next - 1 + 1
    BY <2>3, WatchedLength
  <2>5. HasReadings(after', next)
    BY <2>1, <2>3, <2>4, ReadingAppended DEF OneMore
  <2>6. CASE next < Len(Watched)
    BY <2>2, <2>3, <2>5, <2>6, WatchedLength DEF Advance
  <2>7. CASE ~(next < Len(Watched))
    <3>1. next = Len(Watched)
      BY <2>3, <2>7, WatchedLength
    <3> QED
      BY <2>2, <2>5, <2>7, <3>1 DEF Advance
  <2> QED
    BY <2>6, <2>7
<1>3. CASE ListBefore
  BY <1>3 DEF ListBefore
<1>4. CASE ListAfter
  BY <1>4 DEF ListAfter
<1>5. ASSUME NEW shown \in BOOLEAN, NEW raised \in BOOLEAN, RunCase(shown, raised)
      PROVE  HarnessInv'
  <2> DEFINE case == [shown |-> shown, kept |-> Kept(shown, raised)]
  <2>1. /\ cases' = Append(cases, case) /\ Len(cases) < MaxCases
        /\ UNCHANGED <<phase, next, before, after>>
    BY <1>5 DEF RunCase
  <2>2. case \in CaseRun
    BY DEF Kept, CaseRun
  <2> HIDE DEF case
  <2>3. /\ cases' \in Seq(CaseRun)
        /\ Len(cases') = Len(cases) + 1
    BY <2>1, <2>2, AppendProperties
  <2>4. Len(cases') <= MaxCases
    BY <2>1, <2>3, EvalAssumption, LenProperties
  <2> QED
    BY <2>1, <2>3, <2>4
<1>6. CASE CasesDone
  <2>1. /\ phase = "cases" /\ phase' = Reading("snapshot_after", "list_after")
        /\ UNCHANGED <<next, before, after, cases>>
    BY <1>6 DEF CasesDone
  <2> QED
    BY <2>1, ReadingWhich, WatchedLength
<1>7. CASE ErpStep \/ UNCHANGED evalVars
  BY <1>7 DEF ErpStep, evalVars, harnessVars
<1> QED
  BY <1>1, <1>2, <1>3, <1>4, <1>5, <1>6, <1>7 DEF EvalNext, HarnessStep

LEMMA HarnessInitial == EvalInit => HarnessInv
<1> SUFFICES ASSUME EvalInit PROVE HarnessInv
  OBVIOUS
<1>1. /\ next = 1 /\ before = <<>> /\ after = <<>> /\ cases = <<>>
      /\ phase = Reading("snapshot_before", "list_before")
  BY DEF EvalInit
<1>2. HasReadings(<<>>, 0) /\ <<>> \in Seq(CaseRun) /\ Len(<<>>) = 0
  BY EmptySeq DEF HasReadings
<1> QED
  BY <1>1, <1>2, ReadingWhich, WatchedLength, EvalAssumption
     DEF HarnessInv, ReadBefore, ReadAfter, Phases

(* The types of the harness and of the ERP under it, and a reading of every  *)
(* watched invoice in each snapshot by the time it is compared.              *)
THEOREM EvalTypes == EvalSpec => []EvalTypeOK
<1>1. HarnessInv /\ [EvalNext]_evalVars => HarnessInv'
  BY HarnessInvariant
<1>2. HarnessInv /\ TypeOK => EvalTypeOK
  BY WatchedLength DEF HarnessInv, EvalTypeOK, ReadBefore, ReadAfter, HasReadings
<1>3. EvalInv => TypeOK
  BY DEF EvalInv
<1> QED
  BY <1>1, <1>2, <1>3, HarnessInitial, EvalInvariant, PTL DEF EvalSpec

-----------------------------------------------------------------------------
(* The gate's accusations.  A reading that succeeded shows the loaded        *)
(* document, unless an amendment of that invoice is stored by now.           *)

LoadedDocument(inv) == [f \in Fields |-> Base[inv][f]]
Amends(rows, inv) == \E a \in rows : a.invoice_number = inv

ShowsLoaded(reading, inv, rows) ==
    /\ reading = [read |-> reading.read, content |-> reading.content]
    /\ reading.read \in BOOLEAN
    /\ reading.read => reading.content = LoadedDocument(inv) \/ Amends(rows, inv)

BlameInv ==
    /\ \A n \in 1..ReadBefore : ShowsLoaded(before[n], Watched[n], amendments)
    /\ \A n \in 1..ReadAfter : ShowsLoaded(after[n], Watched[n], amendments)

LEMMA UnamendedShowsLoaded ==
    ASSUME NEW inv, ~Amends(amendments, inv)
    PROVE  EffectiveInvoice(inv) = LoadedDocument(inv)
BY DEF Amends, LoadedDocument, EffectiveInvoice, Served, Writers

LEMMA ReadingShowsLoaded ==
    ASSUME NEW inv, NEW reading \in Readings(inv)
    PROVE  ShowsLoaded(reading, inv, amendments)
<1>1. CASE reading = Read(EffectiveInvoice(inv))
  BY <1>1, UnamendedShowsLoaded DEF Read, ShowsLoaded
<1>2. ASSUME NEW code \in ErrorCodes, reading = Unread(code)
      PROVE  ShowsLoaded(reading, inv, amendments)
  BY <1>2 DEF Unread, ShowsLoaded
<1> QED
  BY <1>1, <1>2 DEF Readings

LEMMA StillShowsLoaded ==
    ASSUME NEW reading, NEW inv, NEW rows, NEW more, rows \subseteq more,
           ShowsLoaded(reading, inv, rows)
    PROVE  ShowsLoaded(reading, inv, more)
BY DEF ShowsLoaded, Amends

(* A snapshot with one more reading in it. *)
LEMMA SnapshotShowsLoaded ==
    ASSUME NEW s, next \in 1..Len(Watched), HasReadings(s, next - 1),
           NEW reading \in Readings(Watched[next]),
           \A n \in 1..(next - 1) : ShowsLoaded(s[n], Watched[n], amendments)
    PROVE  \A n \in 1..next : ShowsLoaded(Append(s, reading)[n], Watched[n], amendments)
<1> DEFINE m == next - 1
           t == Append(s, reading)
<1>1. m \in Nat /\ next \in Nat /\ next = m + 1
  BY WatchedLength
<1>2. OneMore(t, s, reading) /\ HasReadings(s, m)
  BY DEF OneMore
<1> HIDE DEF m, t
<1>3. t[next] = reading /\ \A n \in 1..m : t[n] = s[n]
  BY <1>1, <1>2, ReadingAppended
<1>4. ShowsLoaded(reading, Watched[next], amendments)
  BY ReadingShowsLoaded
<1> SUFFICES ASSUME NEW n \in 1..next
             PROVE  ShowsLoaded(t[n], Watched[n], amendments)
  BY DEF t
<1>5. CASE n = next
  BY <1>1, <1>3, <1>4, <1>5
<1>6. CASE n \in 1..m
  BY <1>1, <1>3, <1>6 DEF m
<1>7. n = next \/ n \in 1..m
  BY <1>1
<1> QED
  BY <1>5, <1>6, <1>7

LEMMA AdvanceReads ==
    ASSUME next \in 1..Len(Watched), NEW following, Advance(following)
    PROVE  \/ phase' = phase /\ next' - 1 = next
           \/ phase' = following /\ next = Len(Watched)
BY WatchedLength DEF Advance

LEMMA BlameInvariant ==
    ASSUME HarnessInv, BlameInv, EvalInv, [EvalNext]_evalVars
    PROVE  BlameInv'
<1> USE DEF BlameInv, ReadBefore, ReadAfter
<1>1. CASE SnapshotBefore
  <2>1. PICK reading \in Readings(Watched[next]) : before' = Append(before, reading)
    BY <1>1 DEF SnapshotBefore
  <2>2. /\ phase = "snapshot_before" /\ Advance("list_before")
        /\ after' = after /\ amendments' = amendments
    BY <1>1 DEF SnapshotBefore, vars
  <2>3. next \in 1..Len(Watched) /\ HasReadings(before, next - 1)
    BY <2>2 DEF HarnessInv
  <2>4. \A n \in 1..next : ShowsLoaded(before'[n], Watched[n], amendments')
    BY <2>1, <2>2, <2>3, SnapshotShowsLoaded
  <2> QED
    BY <2>2, <2>3, <2>4, AdvanceReads
<1>2. CASE SnapshotAfter
  <2>1. PICK reading \in Readings(Watched[next]) : after' = Append(after, reading)
    BY <1>2 DEF SnapshotAfter
  <2>2. /\ phase = "snapshot_after" /\ Advance("list_after")
        /\ before' = before /\ amendments' = amendments
    BY <1>2 DEF SnapshotAfter, vars
  <2>3. next \in 1..Len(Watched) /\ HasReadings(after, next - 1)
    BY <2>2 DEF HarnessInv
  <2>4. \A n \in 1..next : ShowsLoaded(after'[n], Watched[n], amendments')
    BY <2>1, <2>2, <2>3, SnapshotShowsLoaded
  <2> QED
    BY <2>2, <2>3, <2>4, AdvanceReads
<1>3. CASE ListBefore
  BY <1>3 DEF ListBefore, vars
<1>4. CASE ListAfter
  BY <1>4 DEF ListAfter, vars
<1>5. ASSUME NEW shown \in BOOLEAN, NEW raised \in BOOLEAN, RunCase(shown, raised)
      PROVE  BlameInv'
  BY <1>5 DEF RunCase, vars
<1>6. CASE CasesDone
  <2>1. /\ phase = "cases" /\ phase' = Reading("snapshot_after", "list_after")
        /\ next = 1 /\ UNCHANGED <<next, before, after, amendments>>
    BY <1>6 DEF CasesDone, vars, HarnessInv
  <2> QED
    BY <2>1, ReadingWhich
<1>7. CASE ErpStep
  <2>1. UNCHANGED harnessVars /\ amendments \subseteq amendments'
    BY <1>7 DEF ErpStep, Propose, Approve, Reject, Apply
  <2> QED
    BY <2>1, StillShowsLoaded DEF harnessVars
<1>8. CASE UNCHANGED evalVars
  BY <1>8 DEF evalVars, harnessVars, vars
<1> QED
  BY <1>1, <1>2, <1>3, <1>4, <1>5, <1>6, <1>7, <1>8 DEF EvalNext, HarnessStep

(* What the gate reports has a cause: a proposal it names was applied after  *)
(* the harness had begun, and an invoice it names has a stored amendment or  *)
(* could not be read.                                                        *)
THEOREM BlameIsCaused == EvalSpec => []BlameHasACause
<1>1. EvalInit => BlameInv
  <2> SUFFICES ASSUME EvalInit PROVE BlameInv
    OBVIOUS
  <2>1. next = 1 /\ phase = Reading("snapshot_before", "list_before")
    BY DEF EvalInit
  <2> QED
    BY <2>1, ReadingWhich DEF BlameInv, ReadBefore, ReadAfter
<1>2. HarnessInv /\ BlameInv /\ EvalInv /\ [EvalNext]_evalVars => BlameInv'
  BY BlameInvariant
<1>3. HarnessInv /\ [EvalNext]_evalVars => HarnessInv'
  BY HarnessInvariant
<1>4. EvalInv /\ BlameInv => BlameHasACause
  <2> SUFFICES ASSUME EvalInv, BlameInv, Reported, ~appliedBefore.error
               PROVE  /\ NewlyApplied \cap start.applied = {}
                      /\ \A n \in 1..Len(Watched) : before[n] # after[n] =>
                             \/ ~before[n].read \/ ~after[n].read
                             \/ Amends(amendments, Watched[n])
    BY DEF BlameHasACause, Amends
  <2>1. appliedBefore.ids = start.applied
    BY DEF EvalInv, AfterStart, Reported, Listing, Unlisted
  <2>2. ASSUME NEW n \in 1..Len(Watched), before[n] # after[n],
               before[n].read, after[n].read
        PROVE  Amends(amendments, Watched[n])
    <3>1. /\ ShowsLoaded(before[n], Watched[n], amendments)
          /\ ShowsLoaded(after[n], Watched[n], amendments)
      BY DEF BlameInv, ReadBefore, ReadAfter, Reported
    <3>2. before[n].read = after[n].read
      BY <2>2, <3>1 DEF ShowsLoaded
    <3> QED
      BY <2>2, <3>1, <3>2 DEF ShowsLoaded
  <2> QED
    BY <2>1, <2>2 DEF NewlyApplied
<1> QED
  BY <1>1, <1>2, <1>3, <1>4, HarnessInitial, EvalInvariant, PTL DEF EvalSpec

=============================================================================
