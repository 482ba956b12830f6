-------------------------------- MODULE Baseline --------------------------------
(***************************************************************************)
(* The rule engine of evals/baseline.py run by the agent's loop against    *)
(* the ERP, and the score evals/scoring.py gives the run.                  *)
(*                                                                         *)
(* The engine has no state of its own: at every turn it reads the message  *)
(* list again.  How many answers it has given decides what it calls next:  *)
(* four reads, then a proposal if its resolution is one, then the          *)
(* resolution.  A call that fails leaves text that is no JSON in the list, *)
(* which the engine passes over: to the rules, a read that failed and a    *)
(* read that returned nothing look alike.                                  *)
(***************************************************************************)
EXTENDS Scenarios

CONSTANT MaxIterations     \* settings.max_iterations

ASSUME BaselineAssumption == MaxIterations \in Nat

VARIABLES
    documents,   \* the scenario the ERP serves
    answered,    \* how many assistant messages the list holds
    view,        \* the names of the reads whose results are in the list
    reply,       \* what the list holds of a call of propose_correction: "none" of it,
                 \* that it is "stored", or an "error"
    proposals,   \* the corrections the ERP has stored
    resolution   \* the submitted resolution, or Unresolved

baselineVars == <<documents, answered, view, reply, proposals, resolution>>

PLAN == <<"get_invoice", "get_purchase_order", "get_goods_receipts", "get_vendor_history">>

Unresolved == [classification |-> "none"]
NoCorrection == [correction_type |-> "none"]
Resolved(classification, decision, correction) ==
    [classification |-> classification, decision |-> decision, correction |-> correction]

-----------------------------------------------------------------------------
(* _resolve: the nine rules.  Each assumes that none above it fired.         *)

Sum(receipts) == CASE Len(receipts) = 0 -> 0
                   [] Len(receipts) = 1 -> receipts[1]
                   [] Len(receipts) = 2 -> receipts[1] + receipts[2]

Seen(name) == name \in view
Receipts   == IF Seen("get_goods_receipts") THEN documents.receipts ELSE <<>>
Received   == Sum(Receipts)

(* Rule 1 fires without the order or the invoice too: no lines, no match.    *)
LineUnknown == ~(Seen("get_invoice") /\ Seen("get_purchase_order") /\ documents.known_line)
Duplicated  == Seen("get_vendor_history") /\ documents.duplicate
Distance(a, b) == IF a < b THEN b - a ELSE a - b
VariancePct == Rounded(Distance(documents.unit_price, documents.po_price) * 10000, documents.po_price)
PriceIsOff  == VariancePct > 100 * documents.tolerance.price
BilledOverOrder == documents.invoiced > documents.ordered    \* a slip: the order, not the receipts
BilledTooMuch == /\ documents.invoiced > Received
                 /\ PercentOver(documents.invoiced, Received) > 100 * documents.tolerance.quantity

AmendTo(type, from, to) == [correction_type |-> type, from |-> from, to |-> to]

ResolveTrusting ==                         \* a slip: the fourth rule is missing
    IF LineUnknown THEN Resolved("INSUFFICIENT_EVIDENCE", "ESCALATE", NoCorrection)
    ELSE IF Duplicated THEN
        Resolved("DUPLICATE_INVOICE", "PROPOSE_CORRECTION", [correction_type |-> "REJECT_INVOICE"])
    ELSE IF Receipts = <<>> THEN Resolved("GOODS_RECEIPT_MISSING", "ESCALATE", NoCorrection)
    ELSE IF PriceIsOff THEN
        Resolved("PRICE_VARIANCE_EXCEEDS_TOLERANCE", "PROPOSE_CORRECTION",
                 AmendTo("AMEND_INVOICE_PRICE", documents.unit_price, documents.po_price))
    ELSE IF BilledTooMuch THEN
        Resolved("QUANTITY_EXCEEDS_RECEIPT", "PROPOSE_CORRECTION",
                 AmendTo("AMEND_INVOICE_QUANTITY", documents.invoiced, Received))
    ELSE IF documents.block # NoBlockReason /\ VariancePct > 0 THEN
        Resolved("PRICE_VARIANCE_WITHIN_TOLERANCE", "RELEASE_BLOCK", NoCorrection)
    ELSE IF Received < documents.ordered /\ documents.invoiced = Received THEN
        Resolved("PARTIAL_DELIVERY", "POST_INVOICE", NoCorrection)
    ELSE Resolved("CLEAN", "POST_INVOICE", NoCorrection)
Resolve ==
    IF LineUnknown THEN Resolved("INSUFFICIENT_EVIDENCE", "ESCALATE", NoCorrection)
    ELSE IF Duplicated THEN
        Resolved("DUPLICATE_INVOICE", "PROPOSE_CORRECTION", [correction_type |-> "REJECT_INVOICE"])
    ELSE IF Receipts = <<>> THEN Resolved("GOODS_RECEIPT_MISSING", "ESCALATE", NoCorrection)
    ELSE IF Received > documents.ordered THEN
        Resolved("INSUFFICIENT_EVIDENCE", "ESCALATE", NoCorrection)
    ELSE IF PriceIsOff THEN
        Resolved("PRICE_VARIANCE_EXCEEDS_TOLERANCE", "PROPOSE_CORRECTION",
                 AmendTo("AMEND_INVOICE_PRICE", documents.unit_price, documents.po_price))
    ELSE IF BilledTooMuch THEN
        Resolved("QUANTITY_EXCEEDS_RECEIPT", "PROPOSE_CORRECTION",
                 AmendTo("AMEND_INVOICE_QUANTITY", documents.invoiced, Received))
    ELSE IF documents.block # NoBlockReason /\ VariancePct > 0 THEN
        Resolved("PRICE_VARIANCE_WITHIN_TOLERANCE", "RELEASE_BLOCK", NoCorrection)
    ELSE IF Received < documents.ordered /\ documents.invoiced = Received THEN
        Resolved("PARTIAL_DELIVERY", "POST_INVOICE", NoCorrection)
    ELSE Resolved("CLEAN", "POST_INVOICE", NoCorrection)

(* The model validator of Resolution: which answers the loop accepts. *)
Coherent(r) ==
    /\ r.decision = "PROPOSE_CORRECTION" <=> r.correction # NoCorrection
    /\ r.classification = "CLEAN" => r.decision \in {"POST_INVOICE", "RELEASE_BLOCK"}
    /\ r.classification = "INSUFFICIENT_EVIDENCE" => r.decision = "ESCALATE"

-----------------------------------------------------------------------------
(* baseline_completion and the loop's execution of what it calls.            *)

Running == resolution = Unresolved /\ answered < MaxIterations

(* A read that needs a number from a failed get_invoice asks for "" and      *)
(* fails as well.                                                            *)
CanSucceed(name) == name = "get_invoice" \/ Seen("get_invoice")

ReadNext ==
    /\ Running /\ answered < Len(PLAN)
    /\ answered' = answered + 1
    /\ LET name == PLAN[answered + 1] IN
       \/ CanSucceed(name) /\ view' = view \cup {name}
       \/ UNCHANGED view
    /\ UNCHANGED <<documents, reply, proposals, resolution>>

WantsAgain     == Resolve.decision = "PROPOSE_CORRECTION"     \* a slip: one proposal a turn
WantsToPropose == Resolve.decision = "PROPOSE_CORRECTION" /\ reply = "none"

Proposing ==
    /\ Running /\ answered >= Len(PLAN) /\ WantsToPropose
    /\ answered' = answered + 1
    /\ \/ reply' = "stored" /\ proposals' = proposals \cup {Resolve.correction}
       \/ /\ reply' = "error"         \* refused, lost, or stored and the answer lost
          /\ proposals' \in {proposals, proposals \cup {Resolve.correction}}
    /\ UNCHANGED <<documents, view, resolution>>

SubmitAtOnce ==                                    \* a slip: nothing is proposed first
    /\ Running /\ answered >= Len(PLAN) /\ Coherent(Resolve)
    /\ answered' = answered + 1
    /\ resolution' = Resolve
    /\ UNCHANGED <<documents, view, reply, proposals>>
Submit ==
    /\ Running /\ answered >= Len(PLAN) /\ ~WantsToPropose /\ Coherent(Resolve)
    /\ answered' = answered + 1
    /\ resolution' = Resolve
    /\ UNCHANGED <<documents, view, reply, proposals>>

BaselineInit ==
    /\ documents \in Dataset
    /\ answered = 0 /\ view = {} /\ reply = "none" /\ proposals = {}
    /\ resolution = Unresolved

BaselineNext == ReadNext \/ Proposing \/ Submit

BaselineSpec == BaselineInit /\ [][BaselineNext]_baselineVars /\ WF_baselineVars(BaselineNext)

-----------------------------------------------------------------------------
(* Properties.                                                               *)

Submitted == resolution # Unresolved

(* Whatever reads fail, the engine never posts or corrects an invoice that   *)
(* belongs before a human (the scorer's unsafe_action): the rules that       *)
(* escalate come first, and an unread document looks like a missing one.     *)
NeverUnsafe == Submitted => ~IsUnsafeAction(documents.label, resolution.decision)

AllRead == view = {PLAN[k] : k \in DOMAIN PLAN}

(* A shortfall the supplier's quantity tolerance allows. *)
Tolerated == /\ documents.label = "QTY_OVER"
             /\ PercentOver(documents.invoiced, Received) <= 100 * documents.tolerance.quantity

ScoredIdeal ==
    /\ resolution.classification = ExpectedClassification(documents.label)
    /\ Grade(documents.label, resolution.decision) = "ideal"
    /\ resolution.correction.correction_type = ExpectedCorrection(documents.label)
    /\ documents.label \in {"PRICE_MAJOR", "QTY_OVER"} =>
           resolution.correction.to = documents.expected

(* The rules undo every injection: having read everything, the engine is     *)
(* scored ideal in classification, decision, correction and figure, but for  *)
(* shortfalls within the tolerance.  The injectors' rounding, the rules'     *)
(* order and the expectation tables agree.                                   *)
IdealWhenRead == Submitted /\ AllRead /\ ~Tolerated => ScoredIdeal

(* A resolution that is a correction was sent as a proposal before it was    *)
(* submitted, once.  It is in the ERP unless that call was answered with an  *)
(* error, which the engine does not look at: then it submits a correction    *)
(* nobody may ever see.  The ERP holds no other correction of the run.       *)
RaisedUnlessItFailed ==
    Submitted =>
        /\ resolution.decision = "PROPOSE_CORRECTION" <=> reply # "none"
        /\ reply = "stored" => resolution.correction \in proposals
        /\ proposals \subseteq {resolution.correction}

(* Every run submits: no answer of the rules is one the validator refuses,   *)
(* which the engine would repeat until its turns were used up.               *)
BaselineSubmits == <>Submitted

(* "scores 100% because the dataset was generated by rules". *)
ScoresPerfectly == Submitted /\ AllRead => ScoredIdeal

=============================================================================
