------------------------------- MODULE MCReview -------------------------------
(* Two desks, one proposal number at a time, two corrections that can stand  *)
(* behind it: after the database is deleted the number names the other one.  *)
EXTENDS ReviewSystem

MCInvoices == {"INV-1"}
MCItems    == {"001"}
MCTexts    == {"20", "18", "17"}
MCValues   == {"20", "18", "17", NoBlock, RejectedBlockReason}
MCDecimalOf == [t \in MCTexts |-> t]
MCBase == [inv \in MCInvoices |-> [f \in Fields |-> IF f = BlockField THEN NoBlock ELSE "20"]]

MCRequests ==
    {[invoice_number |-> "INV-1",
      payload |-> [correction_type |-> AmendQuantity, invoice_number |-> "INV-1",
                   inv_item_number |-> "001", from |-> "20", to |-> to]] : to \in {"18", "17"}}

=============================================================================
