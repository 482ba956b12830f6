------------------------------ MODULE Corrections ------------------------------
(***************************************************************************)
(* The data of the ERP's approval gate: what a correction payload says,    *)
(* what an invoice document holds, how an applied payload changes the      *)
(* served document (overlay.py, apply_amendments) and when a payload no    *)
(* longer fits the document (overlay.py, find_stale_conflict).             *)
(*                                                                         *)
(* A document is a function from the fields a correction can write to      *)
(* their values: the quantity and the unit price of each line, and the     *)
(* payment block of the header.  Amounts travel in payloads as TEXT (the   *)
(* payload models declare them `str` and validate nothing) and live in     *)
(* documents as Decimals; DecimalOf is that conversion.                    *)
(***************************************************************************)
EXTENDS Naturals, Sequences

CONSTANTS
    Invoices,      \* invoice numbers of the loaded dataset (store.invoices)
    ItemNumbers,   \* inv_item_number values a payload may name
    Texts,         \* texts a payload may carry for an amount or a block reason
    Values,        \* values a field can hold: Decimals and block reasons
    DecimalOf,     \* text -> Decimal, or NotANumber (overlay._to_decimal)
    Base           \* the immutable documents the ERP loaded at startup

NotANumber == "not a number"       \* _to_decimal returned None
NaN        == "NaN"                \* Decimal("NaN"): a number, equal to none
Absent     == "no such line"       \* the invoice has no item of that number
NoBlock    == "no block"           \* block_reason is None
RejectedBlockReason == "REJECTED_DUPLICATE"

BlockField == <<"block_reason", "header">>
Fields     == ({"quantity", "unit_price"} \X ItemNumbers) \cup {BlockField}
Document   == [Fields -> Values \cup {Absent}]

ASSUME CorrectionsAssumption ==
    /\ {NoBlock, RejectedBlockReason} \subseteq Values
    /\ Absent \notin Values /\ NotANumber \notin Values
    /\ DecimalOf \in [Texts -> Values \cup {NotANumber}]
    /\ Base \in [Invoices -> Document]
    /\ \A inv \in Invoices : Base[inv][BlockField] # Absent

-----------------------------------------------------------------------------
(* Payloads: a discriminated union on correction_type.                      *)

AmendQuantity == "AMEND_INVOICE_QUANTITY"
AmendPrice    == "AMEND_INVOICE_PRICE"
ReleaseBlock  == "RELEASE_INVOICE_BLOCK"
RejectInvoice == "REJECT_INVOICE"

AmendPayload   == [correction_type : {AmendQuantity, AmendPrice},
                   invoice_number : Invoices, inv_item_number : ItemNumbers,
                   from : Texts, to : Texts]
ReleasePayload == [correction_type : {ReleaseBlock},
                   invoice_number : Invoices, released_block_reason : Texts]
RejectPayload  == [correction_type : {RejectInvoice},
                   invoice_number : Invoices, duplicate_of : Invoices]
Payload        == AmendPayload \cup ReleasePayload \cup RejectPayload

IsAmend(p) == p.correction_type \in {AmendQuantity, AmendPrice}

(* sha256 over the canonical JSON: equal exactly for equal payloads, texts  *)
(* compared as written ("20.0" and "20.000" hash differently).              *)
PayloadHash(p) == [sha256_of |-> p]

-----------------------------------------------------------------------------
(* The overlay.                                                              *)

FieldOf(p) == IF p.correction_type = AmendQuantity THEN <<"quantity", p.inv_item_number>>
              ELSE IF p.correction_type = AmendPrice THEN <<"unit_price", p.inv_item_number>>
              ELSE BlockField

WrittenValue(p) == IF IsAmend(p) THEN DecimalOf[p.to]
                   ELSE IF p.correction_type = ReleaseBlock THEN NoBlock
                   ELSE RejectedBlockReason

(* Whether the payload changes anything when laid over the document of inv: *)
(* a missing line and an amount that is no number are passed over silently. *)
TakesEffect(inv, p) == /\ Base[inv][FieldOf(p)] # Absent
                       /\ WrittenValue(p) # NotANumber

(* One iteration of apply_amendments. *)
Amended(inv, document, p) ==
    IF TakesEffect(inv, p)
    THEN [document EXCEPT ![FieldOf(p)] = WrittenValue(p)]
    ELSE document

(* apply_amendments: the payloads laid over the base in the order given. *)
ApplyAmendments(inv, payloads) ==
    LET after[n \in 0..Len(payloads)] ==
            IF n = 0 THEN Base[inv] ELSE Amended(inv, after[n - 1], payloads[n])
    IN  after[Len(payloads)]

(* Decimal equality: by value, and NaN equals nothing, itself included. *)
SameDecimal(a, b) == a = b /\ a # NaN

NoConflict == "no conflict"

(* find_stale_conflict: the code of the refusal, or NoConflict.  A rejection *)
(* of the invoice asserts nothing about the document's current values.       *)
StaleConflict(document, p) ==
    IF p.correction_type = RejectInvoice THEN NoConflict
    ELSE IF p.correction_type = ReleaseBlock THEN
        IF document[BlockField] # p.released_block_reason
        THEN "STALE_PROPOSAL" ELSE NoConflict
    ELSE IF \/ document[FieldOf(p)] = Absent
            \/ DecimalOf[p.from] = NotANumber
    THEN "UNKNOWN_INVOICE_ITEM"
    ELSE IF ~SameDecimal(DecimalOf[p.from], document[FieldOf(p)])
    THEN "STALE_PROPOSAL" ELSE NoConflict

=============================================================================
