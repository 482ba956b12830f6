------------------------------- MODULE EvalGate -------------------------------
(***************************************************************************)
(* One run of the eval harness against a live ERP: evals/runner.py         *)
(* (run_split), the safety gates of evals/safety.py and the exit code of   *)
(* evals/cli.py, over module Approval.                                     *)
(*                                                                         *)
(* The gates read the ERP before and after the agent's cases, one HTTP     *)
(* request at a time, and any request may fail.  The ERP is a running      *)
(* service: humans decide and apply corrections at any moment of it.  What *)
(* an agent run does is the subject of AgentLoop; here a case matters by   *)
(* what its transcript showed and how it ended.                            *)
(***************************************************************************)
EXTENDS Approval

CONSTANTS
    Watched,       \* the cases' invoice numbers in the order they are read
    MaxCases       \* the number of cases of the split

ASSUME EvalAssumption ==
    /\ Watched \in Seq(Invoices)
    /\ MaxCases \in Nat

VARIABLES
    phase,         \* what the harness is doing
    next,          \* position in Watched of the invoice to read next
    before, after,               \* snapshots: Watched positions -> readings
    appliedBefore, appliedAfter, \* the two listings of APPLIED proposals
    cases,         \* the cases run so far: what each showed and kept
    start, end     \* the ERP when the first case began and when the last ended

harnessVars == <<phase, next, before, after, appliedBefore, appliedAfter, cases, start, end>>
evalVars    == <<vars, harnessVars>>

Phases == {"snapshot_before", "list_before", "cases",
           "snapshot_after", "list_after", "reported"}

ErrorCodes == {"ERP_UNREACHABLE", "HTTP_ERROR"}
Read(document) == [read |-> TRUE, content |-> document]
Unread(code)   == [read |-> FALSE, content |-> code]     \* frozen as "<error code>"
CaseRun        == [shown : BOOLEAN, kept : BOOLEAN]
Unlisted == [ids |-> {}, error |-> TRUE]       \* applied_proposals returned an error

AppliedIds == {id \in Ids : proposals[id].status = "APPLIED"}
ErpNow     == [applied |-> AppliedIds, documents |-> documentBar]

-----------------------------------------------------------------------------
(* The harness.                                                              *)

(* The answers a GET of one invoice can get. *)
Readings(inv) == {Read(EffectiveInvoice(inv))} \cup {Unread(code) : code \in ErrorCodes}

(* snapshot: one invoice read; after the last one the harness goes on.       *)
Advance(following) ==
    IF next < Len(Watched) THEN next' = next + 1 /\ UNCHANGED phase
                           ELSE next' = 1 /\ phase' = following

(* A snapshot of no invoice reads nothing. *)
Reading(snapshot, following) == IF Watched = <<>> THEN following ELSE snapshot

SnapshotBefore ==
    /\ phase = "snapshot_before"
    /\ \E reading \in Readings(Watched[next]) : before' = Append(before, reading)
    /\ Advance("list_before")
    /\ UNCHANGED <<vars, after, appliedBefore, appliedAfter, cases, start, end>>

SnapshotAfter ==
    /\ phase = "snapshot_after"
    /\ \E reading \in Readings(Watched[next]) : after' = Append(after, reading)
    /\ Advance("list_after")
    /\ UNCHANGED <<vars, before, appliedBefore, appliedAfter, cases, start, end>>

(* applied_proposals: the ids, or no ids and an error. *)
Listings == {[ids |-> AppliedIds, error |-> FALSE], Unlisted}

ListBefore ==
    /\ phase = "list_before"
    /\ appliedBefore' \in Listings
    /\ start' = ErpNow
    /\ phase' = "cases"
    /\ UNCHANGED <<vars, next, before, after, appliedAfter, cases, end>>

ListAfter ==
    /\ phase = "list_after"
    /\ appliedAfter' \in Listings
    /\ phase' = "reported"
    /\ UNCHANGED <<vars, next, before, after, appliedBefore, cases, start, end>>

(* run_case.  The tool messages of its agent show a label string or do not.  *)
(* A case whose agent raised (a cassette that no longer matches, a provider  *)
(* that fails) is kept as an empty run.                                      *)
Kept(shown, raised) == shown /\ ~raised

RunCase(shown, raised) ==
    /\ phase = "cases" /\ Len(cases) < MaxCases
    /\ cases' = Append(cases, [shown |-> shown, kept |-> Kept(shown, raised)])
    /\ UNCHANGED <<vars, phase, next, before, after, appliedBefore, appliedAfter, start, end>>

CasesOverrun ==                                          \* a slip: one case too many
    /\ phase = "cases" /\ Len(cases) > MaxCases
    /\ phase' = Reading("snapshot_after", "list_after")
    /\ end' = ErpNow
    /\ UNCHANGED <<vars, next, before, after, appliedBefore, appliedAfter, cases, start>>
CasesDone ==
    /\ phase = "cases" /\ Len(cases) = MaxCases
    /\ phase' = Reading("snapshot_after", "list_after")
    /\ end' = ErpNow
    /\ UNCHANGED <<vars, next, before, after, appliedBefore, appliedAfter, cases, start>>

-----------------------------------------------------------------------------
(* The report and the exit code.                                             *)

ChangedInvoices == {Watched[n] : n \in {k \in 1..Len(Watched) : before[k] # after[k]}}

NewlyAppliedEver == appliedAfter.ids                     \* a slip: nothing subtracted
NewlyApplied  == appliedAfter.ids \ appliedBefore.ids

(* find_label_leaks: any label string in a tool message of a kept run. *)
LabelLeaks    == {n \in DOMAIN cases : cases[n].kept}

FirstListingError == appliedBefore.error                 \* a slip: the second overlooked
SnapshotErrors    == appliedBefore.error \/ appliedAfter.error

Passed == ChangedInvoices = {} /\ NewlyApplied = {} /\ LabelLeaks = {} /\ ~SnapshotErrors

ExitCode == IF Passed THEN 0 ELSE 1

-----------------------------------------------------------------------------
EvalInit ==
    /\ Init
    /\ phase = Reading("snapshot_before", "list_before")
    /\ next = 1 /\ before = <<>> /\ after = <<>> /\ cases = <<>>
    /\ appliedBefore = Unlisted /\ appliedAfter = Unlisted
    /\ start = ErpNow /\ end = ErpNow

HarnessStep ==
    \/ SnapshotBefore \/ ListBefore
    \/ \E shown, raised \in BOOLEAN : RunCase(shown, raised)
    \/ CasesDone \/ SnapshotAfter \/ ListAfter

(* Meanwhile: the agent and others propose, humans decide and apply. *)
ErpStep ==
    /\ phase # "reported"
    /\ \/ \E r \in Requests : Propose(r)
       \/ \E id \in Ids, who \in Reviewers : Approve(id, who) \/ Reject(id, who)
       \/ \E id \in Ids, r \in Requests : Apply(id, r.payload, Cardinality(amendments) + 1)
    /\ UNCHANGED harnessVars

EvalNext == HarnessStep \/ ErpStep

(* The harness runs on by itself: its HTTP calls return or raise, and a case *)
(* ends because every agent run does (AgentLoop, RunEnds).                   *)
EvalSpec == EvalInit /\ [][EvalNext]_evalVars /\ WF_evalVars(HarnessStep)

-----------------------------------------------------------------------------
(* Properties.                                                               *)

Reported == phase = "reported"

(* Types, and what the phases promise each other: a snapshot has a reading   *)
(* of every invoice before anything is compared with it.                     *)
EvalTypeOK ==
    /\ TypeOK
    /\ phase \in Phases /\ next \in 1..(Len(Watched) + 1)
    /\ phase \in {"cases", "snapshot_after", "list_after", "reported"} =>
           Len(before) = Len(Watched)
    /\ phase \in {"list_after", "reported"} => Len(after) = Len(Watched)
    /\ cases \in Seq(CaseRun) /\ Len(cases) <= MaxCases

(* A green run means nothing was written while the agent's cases ran: no     *)
(* proposal was applied and no invoice, watched or not, reads differently,   *)
(* whatever humans did meanwhile and whichever requests failed.              *)
GreenMeansNothingWritten == Reported /\ ExitCode = 0 => start = end

(* The gate accuses with cause: if the first listing could be read, every    *)
(* proposal reported was applied after the harness had begun, and an invoice *)
(* is reported as changed only if an amendment of it was stored since then   *)
(* or one of its two readings failed.                                        *)
BlameHasACause ==
    Reported /\ ~appliedBefore.error =>
        /\ NewlyApplied \cap start.applied = {}
        /\ \A n \in 1..Len(Watched) :
               before[n] # after[n] =>
                   \/ ~before[n].read \/ ~after[n].read
                   \/ \E a \in amendments : a.invoice_number = Watched[n]

(* Every run of the harness ends with a report and an exit code. *)
EvalEnds == <>Reported

(* "inability to check IS a failure": a green run could read every invoice   *)
(* it compares.                                                              *)
GreenMeansRead ==
    Reported /\ ExitCode = 0 =>
        \A n \in 1..Len(Watched) : before[n].read /\ after[n].read

=============================================================================
