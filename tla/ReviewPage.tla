------------------------------- MODULE ReviewPage -------------------------------
(***************************************************************************)
(* What a reviewer's page says about a proposal: the route detail of       *)
(* review_ui/app.py and the view it draws (review_ui/views.py).            *)
(*                                                                         *)
(* The route reads the proposal and then the invoice, two requests with    *)
(* the whole ERP running between them, compares the payload's "from" with  *)
(* the invoice by rules of its own (views._same), and warns that an apply  *)
(* would be refused.  The ERP decides that by overlay.find_stale_conflict  *)
(* when the apply arrives; the two must agree.                             *)
(***************************************************************************)
EXTENDS Approval

CONSTANTS
    Stripped,      \* text -> the text without surrounding blanks (str.strip)
    Blank          \* the empty text

ASSUME PageAssumption ==
    /\ Blank \in Texts
    /\ Stripped \in [Texts -> Texts] /\ Stripped[Blank] = Blank

(* None is no text, and the reasons a document can hold are spelled without  *)
(* blanks (BlockReason in erp_domain, REJECTED_BLOCK_REASON in overlay.py).      *)
ASSUME ReasonsAssumption ==
    /\ NoBlock \notin Texts
    /\ \A reason \in {Base[inv][BlockField] : inv \in Invoices} \cup {RejectedBlockReason} :
           reason \in Texts => Stripped[reason] = reason

VARIABLE view      \* the page on the reviewer's screen, or the one being fetched

pageVars == <<vars, view>>

NoView       == [state |-> "none"]
Unreadable   == [read |-> FALSE]            \* invoice is None: the read raised ReviewError
ReadAs(document) == [read |-> TRUE, content |-> document]

-----------------------------------------------------------------------------
(* views.py.                                                                 *)

(* _same for an amount of a line and a text: as numbers when both are; the   *)
(* amount of a document always is, so a text that is no number differs.      *)
SameWritten(amount, text) == amount = text               \* a slip: compared as written
SameAmount(amount, text)  == /\ DecimalOf[text] # NotANumber
                             /\ SameDecimal(DecimalOf[text], amount)

(* _same for the block reason (None shown as "") and a text, both stripped.  *)
SameReason(reason, text) == Stripped[text] = IF reason = NoBlock THEN Blank ELSE reason

(* build_diff: is the document no longer what the payload changes from?  A   *)
(* line that is not there is not compared, and a rejection compares nothing. *)
StaleRow(p, invoice) ==
    /\ invoice.read
    /\ \/ /\ IsAmend(p)
          /\ invoice.content[FieldOf(p)] # Absent
          /\ ~SameAmount(invoice.content[FieldOf(p)], p.from)
       \/ /\ p.correction_type = ReleaseBlock
          /\ ~SameReason(invoice.content[BlockField], p.released_block_reason)

(* build_view: the warnings above the diff. *)
Warnings(p, invoice) == {w \in {"refused"} : StaleRow(p, invoice)}
                            \cup {w \in {"unverified"} : ~invoice.read}

ActionsFor(status) == CASE status = "PROPOSED" -> {"APPROVE", "REJECT"}
                        [] status = "APPROVED" -> {"APPLY"}
                        [] OTHER               -> {}

-----------------------------------------------------------------------------
(* app.py, detail.                                                           *)

ReadProposal(id) ==
    /\ view.state # "fetching"
    /\ view' = [state |-> "fetching", id |-> id, row |-> proposals[id]]
    /\ UNCHANGED vars

(* The page keeps, as history, what the ERP would have answered just then.   *)
DrawFrom(invoice) ==
    /\ view' = [state |-> "drawn", id |-> view.id, row |-> view.row, invoice |-> invoice,
                served |-> EffectiveInvoice(view.row.invoice_number),
                warnings |-> Warnings(view.row.payload, invoice),
                actions  |-> ActionsFor(view.row.status)]
    /\ UNCHANGED vars

(* The invoice with everything applied so far. *)
ReadLoaded ==                                            \* a slip: the invoice as loaded
    /\ view.state = "fetching"
    /\ DrawFrom(ReadAs(Base[view.row.invoice_number]))
ReadInvoice ==
    /\ view.state = "fetching"
    /\ DrawFrom(ReadAs(EffectiveInvoice(view.row.invoice_number)))

ReadFails == view.state = "fetching" /\ DrawFrom(Unreadable)

-----------------------------------------------------------------------------
PageInit == Init /\ view = NoView

PageNext ==
    \/ \E id \in Ids : ReadProposal(id)
    \/ ReadInvoice
    \/ ReadFails
    \/ Next /\ UNCHANGED view

PageSpec == PageInit /\ [][PageNext]_pageVars

-----------------------------------------------------------------------------
(* Properties.  A page is judged while the field its proposal writes still   *)
(* reads as it did when the page was drawn; other desks may have done        *)
(* anything else meanwhile.                                                  *)

Drawn   == view.state = "drawn"
Payload0 == view.row.payload
StillReads ==
    /\ Drawn /\ view.invoice.read
    /\ view.served[FieldOf(Payload0)]
           = EffectiveInvoice(view.row.invoice_number)[FieldOf(Payload0)]
Accepted == ApplyOutcome(view.id, Payload0) \in {"APPLIED", "ALREADY_APPLIED"}

(* A warning is no false alarm: what it says the ERP would refuse, the ERP   *)
(* does refuse, unless the correction has been applied already.              *)
WarnedIsRefused ==
    StillReads /\ "refused" \in view.warnings /\ proposals[view.id].status # "APPLIED"
        => ~Accepted

(* A page without a warning hides no conflict: an apply it offers is         *)
(* accepted, if the corrected line exists and a released reason is spelled   *)
(* exactly.                                                                  *)
UnwarnedIsAccepted ==
    StillReads /\ view.warnings = {} /\ "APPLY" \in view.actions =>
        \/ Accepted
        \/ IsAmend(Payload0) /\ Base[view.row.invoice_number][FieldOf(Payload0)] = Absent
        \/ /\ Payload0.correction_type = ReleaseBlock
           /\ \/ Stripped[Payload0.released_block_reason] # Payload0.released_block_reason
              \/ Payload0.released_block_reason = Blank

(* "Applying it will be refused by the ERP": so warned, it is.               *)
WarningIsTrue == StillReads /\ "refused" \in view.warnings => ~Accepted

=============================================================================
