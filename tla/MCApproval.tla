------------------------------ MODULE MCApproval ------------------------------
(* Small instances of the approval gate: two invoices with a quantity block, *)
(* two spellings of one quantity, NaN, a text that is no number, and a line  *)
(* number the invoices do not have.                                          *)
EXTENDS Approval

MCInvoices == {"INV-1", "INV-2"}
MCItems    == {"001", "009"}
MCTexts    == {"20", "20.0", "18", "NaN", "none of these", "QUANTITY_VARIANCE", "REJECTED_DUPLICATE"}
MCValues   == {"20", "18", NaN, "QUANTITY_VARIANCE", NoBlock, RejectedBlockReason}
MCDecimalOf == [t \in MCTexts |-> CASE t \in {"20", "20.0"} -> "20"
                                    [] t \in {"18", "NaN"} -> t
                                    [] OTHER -> NotANumber]
MCBase == [inv \in MCInvoices |-> [f \in Fields |->
              IF f = BlockField THEN "QUANTITY_VARIANCE"
              ELSE IF f = <<"quantity", "001">> \/ f = <<"unit_price", "001">>
              THEN "20" ELSE Absent]]

Quantity(item, from, to) ==
    [correction_type |-> AmendQuantity, invoice_number |-> "INV-1",
     inv_item_number |-> item, from |-> from, to |-> to]
Release(reason) ==
    [correction_type |-> ReleaseBlock, invoice_number |-> "INV-1",
     released_block_reason |-> reason]
Duplicate == [correction_type |-> RejectInvoice, invoice_number |-> "INV-1",
              duplicate_of |-> "INV-1"]

On(inv, payloads) == {[invoice_number |-> inv, payload |-> p] : p \in payloads}

(* Two spellings of one correction, a correction back, one to NaN, one to a  *)
(* text that is no number, an unknown line, the header corrections; and a    *)
(* proposal for INV-2 whose payload names INV-1.                             *)
MCRequests ==
    On("INV-1", {Quantity("001", "20", "18"), Quantity("001", "20.0", "18"),
                 Quantity("001", "18", "20"), Quantity("001", "20", "NaN"),
                 Quantity("001", "20", "none of these"), Quantity("009", "20", "18"),
                 Release("QUANTITY_VARIANCE"), Release("REJECTED_DUPLICATE"), Duplicate})
    \cup On("INV-2", {Quantity("001", "20", "18")})

=============================================================================
