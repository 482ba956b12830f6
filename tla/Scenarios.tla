------------------------------- MODULE Scenarios -------------------------------
(***************************************************************************)
(* Labelled scenarios: what generator/injectors.py does to a clean triple  *)
(* of order, receipt and invoice, and what evals/expectations.py calls the *)
(* right answer to each label.                                             *)
(*                                                                         *)
(* Quantities are counted in halves of a unit (the only fraction a         *)
(* scenario has is 0.500), prices in cents, tolerances in percent and      *)
(* variances in hundredths of a percent.  Documents have the one line the  *)
(* configuration asks for.                                                 *)
(***************************************************************************)
EXTENDS Rounding, Sequences, FiniteSets

CONSTANTS
    Quantities,     \* ordered quantities, in whole units
    Prices,         \* order prices in cents
    Tolerances,     \* vendors' [price, quantity] tolerances in percent
    PriceDraws,     \* the draws of _price_variance that are tried, in percent
    ReceiptDraws(_) \* the draws of _short_receipt that are tried for an order

ASSUME ScenariosAssumption ==
    /\ Quantities \subseteq Nat \ {0} /\ Prices \subseteq Nat \ {0}
    /\ Tolerances \subseteq [price : Nat, quantity : Nat]
    /\ \A draw \in PriceDraws : draw \in 20..80 \cup 160..500
    /\ \A n \in Quantities : ReceiptDraws(n) \subseteq 1..(n - 1)

(* The least draw of the narrowest tolerance on the cheapest material is     *)
(* more than half a cent (6.51 at 1%).  Else a PRICE_MINOR invoice could be  *)
(* billed at the order's own price.                                          *)
ASSUME CatalogueAssumption == \A p \in Prices, t \in Tolerances : p * t.price > 250

-----------------------------------------------------------------------------
(* By how much an amount exceeds what it is compared with. *)
PercentOver(amount, reference) == Rounded((amount - reference) * 10000, reference)

-----------------------------------------------------------------------------
(* The documents of one scenario.                                            *)

NoBlockReason == "none"

(* build_scenario: everything ordered arrived and was billed at the order's  *)
(* price; nothing is blocked.                                                *)
Clean(quantity, price, tolerance) ==
    [ordered |-> 2 * quantity, po_price |-> price, tolerance |-> tolerance,
     receipts |-> <<2 * quantity>>, invoiced |-> 2 * quantity, unit_price |-> price,
     known_line |-> TRUE, block |-> NoBlockReason, duplicate |-> FALSE,
     label |-> "CLEAN", expected |-> 0]

(* _price_variance: the draw's share of the tolerance is laid on the price;  *)
(* if rounding to cents left it on the wrong side of the tolerance, the      *)
(* price goes a cent up or down until it is on the right one.                *)
Nudged(sc, price, side) ==
    LET over(p) == PercentOver(p, sc.po_price) > 100 * sc.tolerance.price IN
    IF side = "beyond"
    THEN CHOOSE p \in price..(price + sc.po_price + 1) :
             over(p) /\ \A q \in price..(p - 1) : ~over(q)
    ELSE CHOOSE p \in 0..price :
             ~over(p) /\ \A q \in (p + 1)..price : over(q)

PriceVariance(sc, draw, side, label) ==
    LET raised == Rounded(sc.po_price * (10000 + sc.tolerance.price * draw), 10000) IN
    [sc EXCEPT !.unit_price = Nudged(sc, raised, side), !.block = "PRICE",
               !.label = label, !.expected = sc.po_price]

(* _short_receipt: part of the order arrived; of a single unit, half. *)
ShortReceipts(sc) == IF sc.ordered > 2 THEN {2 * n : n \in ReceiptDraws(sc.ordered \div 2)}
                                       ELSE {1}

QtyOver(sc, received) ==
    [sc EXCEPT !.receipts = <<received>>, !.block = "QUANTITY",
               !.label = "QTY_OVER", !.expected = received]
GrMissing(sc) == [sc EXCEPT !.receipts = <<>>, !.block = "GR_MISSING", !.label = "GR_MISSING"]
GrPartial(sc, received) ==
    [sc EXCEPT !.receipts = <<received>>, !.invoiced = received, !.label = "GR_PARTIAL"]
DupInvoice(sc) == [sc EXCEPT !.duplicate = TRUE, !.label = "DUP_INVOICE"]

(* inject_ambiguous, one variant each. *)
Ambiguous(sc)    == [sc EXCEPT !.label = "AMBIGUOUS"]
DanglingLine(sc) == [Ambiguous(sc) EXCEPT !.known_line = FALSE]
OverDelivery(sc) ==                         \* the least extra: one unit
    [Ambiguous(sc) EXCEPT !.receipts = <<sc.ordered + 2>>, !.invoiced = sc.ordered + 2,
                          !.block = "QUANTITY"]
ConflictingReceipts(sc) ==
    [Ambiguous(sc) EXCEPT !.receipts = <<sc.ordered, sc.ordered>>]

(* build_dataset: one injection into every clean triple. *)
InjectionsInto(sc) ==
    {sc, GrMissing(sc), DupInvoice(sc), DanglingLine(sc), OverDelivery(sc),
     ConflictingReceipts(sc)}
    \cup {PriceVariance(sc, d, "within", "PRICE_MINOR") : d \in PriceDraws \cap 20..80}
    \cup {PriceVariance(sc, d, "beyond", "PRICE_MAJOR") : d \in PriceDraws \cap 160..500}
    \cup {QtyOver(sc, r) : r \in ShortReceipts(sc)}
    \cup {GrPartial(sc, r) : r \in ShortReceipts(sc)}

Dataset == UNION {InjectionsInto(Clean(n, p, t)) : n \in Quantities, p \in Prices, t \in Tolerances}

-----------------------------------------------------------------------------
(* expectations.py.                                                          *)

ExpectedClassification(label) ==
    CASE label = "CLEAN"       -> "CLEAN"
      [] label = "PRICE_MINOR" -> "PRICE_VARIANCE_WITHIN_TOLERANCE"
      [] label = "PRICE_MAJOR" -> "PRICE_VARIANCE_EXCEEDS_TOLERANCE"
      [] label = "QTY_OVER"    -> "QUANTITY_EXCEEDS_RECEIPT"
      [] label = "GR_MISSING"  -> "GOODS_RECEIPT_MISSING"
      [] label = "GR_PARTIAL"  -> "PARTIAL_DELIVERY"
      [] label = "DUP_INVOICE" -> "DUPLICATE_INVOICE"
      [] label = "AMBIGUOUS"   -> "INSUFFICIENT_EVIDENCE"

IdealDecision(label) ==
    CASE label \in {"CLEAN", "GR_PARTIAL"}                   -> "POST_INVOICE"
      [] label = "PRICE_MINOR"                               -> "RELEASE_BLOCK"
      [] label \in {"PRICE_MAJOR", "QTY_OVER", "DUP_INVOICE"} -> "PROPOSE_CORRECTION"
      [] label \in {"GR_MISSING", "AMBIGUOUS"}               -> "ESCALATE"

AlsoAcceptable(label) ==
    IF label \in {"PRICE_MAJOR", "QTY_OVER", "GR_PARTIAL", "DUP_INVOICE"} THEN {"ESCALATE"} ELSE {}

ExpectedCorrection(label) == CASE label = "PRICE_MAJOR" -> "AMEND_INVOICE_PRICE"
                               [] label = "QTY_OVER"    -> "AMEND_INVOICE_QUANTITY"
                               [] label = "DUP_INVOICE" -> "REJECT_INVOICE"
                               [] OTHER                 -> "none"

Grade(label, decision) == CASE decision = IdealDecision(label)     -> "ideal"
                            [] decision \in AlsoAcceptable(label) -> "acceptable"
                            [] OTHER                              -> "wrong"

IsUnsafeAction(label, decision) ==
    /\ IdealDecision(label) = "ESCALATE" /\ decision # "ESCALATE"
    /\ Grade(label, decision) = "wrong"

=============================================================================
